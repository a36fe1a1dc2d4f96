--------------------------- MODULE VerificationProofs ---------------------------
(***************************************************************************)
(* The workflow's side of a verdict, for any number of incidents, plans    *)
(* and callers, and with crashes: it implements the contract the verifier  *)
(* implements too, and an incident stays closed on a verdict.              *)
(*                                                                         *)
(* Most steps are aside from verification: they end or begin no check,     *)
(* decide no plan and close no incident.  The few others are the steps of  *)
(* the contract.  A verdict lasts because the contract never undoes one,   *)
(* so the invariant of closed incidents rests on the refinement.           *)
(***************************************************************************)
EXTENDS RemediationProofs

(* Where a call is checking a plan, and what the contract sees of it. *)
CheckSteps == {"recovered", "refuted"}
Checks == [t \in Callers |-> IF pc[t] \in CheckSteps THEN target[t] ELSE NoPlan]
Decisions == [p \in Plans |-> DecisionOf(p)]

(* One step of the contract. *)
ContractStep == [Contract!VerificationNext]_(Contract!verificationVars)

(* What a step aside from verification keeps. *)
CallsKept ==
  \A t \in Callers :
    /\ pc[t] \in CheckSteps <=> pc'[t] \in CheckSteps
    /\ pc'[t] \in CheckSteps \cup {"resolving"} => pc'[t] = pc[t] /\ target'[t] = target[t]

DecisionsKept ==
  /\ UNCHANGED proposal
  /\ \A p \in Plans : DecisionOf(p)' = DecisionOf(p)

ClosedKept ==
  \A i \in Incidents : state'[i] \in ClosedStates => state[i] \in ClosedStates

Aside == CallsKept /\ DecisionsKept /\ ClosedKept

--------------------------------------------------------------------------------
(* Steps aside from verification, by what they do.                           *)

BeforeStatus ==
  {"Absent", "Previewed", "Approved", "Executing", "Rejected", "Expired", "Stale"}

(* What the contract takes each status for. *)
LEMMA DecisionFacts ==
  ASSUME NEW p \in Plans
  PROVE  /\ status[p] \in BeforeStatus => DecisionOf(p) = "before"
         /\ status[p] = "Executed" => DecisionOf(p) = "open"
         /\ status[p] = "Verified" => DecisionOf(p) = "verified"
         /\ status[p] = "Failed" => DecisionOf(p) = "failed"
BY DEF DecisionOf, BeforeStatus

LEMMA DecisionFactsNext ==
  ASSUME NEW p \in Plans
  PROVE  /\ status'[p] \in BeforeStatus => DecisionOf(p)' = "before"
         /\ status'[p] = "Executed" => DecisionOf(p)' = "open"
         /\ status'[p] = "Verified" => DecisionOf(p)' = "verified"
         /\ status'[p] = "Failed" => DecisionOf(p)' = "failed"
BY DEF DecisionOf, BeforeStatus

LEMMA SameDecisions ==
  ASSUME UNCHANGED <<status, proposal>>
  PROVE  DecisionsKept
BY DEF DecisionsKept, DecisionOf

(* A plan that is still undecided before its execution stays so. *)
LEMMA StatusBefore ==
  ASSUME TypeOK, NEW p \in Plans, NEW s \in BeforeStatus,
         status[p] \in BeforeStatus, status' = [status EXCEPT ![p] = s]
  PROVE  \A q \in Plans : DecisionOf(q)' = DecisionOf(q)
<1> SUFFICES ASSUME NEW q \in Plans PROVE DecisionOf(q)' = DecisionOf(q)
  OBVIOUS
<1>1. CASE q = p
  BY <1>1, DecisionFacts, DecisionFactsNext DEF TypeOK
<1>2. CASE q # p
  BY <1>2 DEF TypeOK, DecisionOf
<1> QED
  BY <1>1, <1>2

LEMMA SameCalls ==
  ASSUME UNCHANGED <<pc, target>>
  PROVE  CallsKept
BY DEF CallsKept

(* A call goes to a step aside from one aside. *)
LEMMA CallAside ==
  ASSUME TypeOK, NEW t \in Callers, NEW step,
         pc[t] \notin CheckSteps, step \notin CheckSteps \cup {"resolving"},
         pc' = [pc EXCEPT ![t] = step],
         \A u \in Callers \ {t} : target'[u] = target[u]
  PROVE  CallsKept
BY DEF TypeOK, CallsKept, CheckSteps

(* The three ways a handler goes on, all aside. *)
LEMMA TakeAside ==
  ASSUME TypeOK, NEW t \in Callers, NEW p, NEW step, Take(t, p, step),
         step \notin CheckSteps \cup {"resolving"}
  PROVE  CallsKept
BY CallAside DEF TypeOK, Take, CheckSteps

LEMMA ContinueAside ==
  ASSUME TypeOK, NEW t \in Callers, NEW step, Continue(t, step),
         pc[t] \notin CheckSteps, step \notin CheckSteps \cup {"resolving"}
  PROVE  CallsKept
BY CallAside DEF TypeOK, Continue

LEMMA ReturnAside ==
  ASSUME TypeOK, NEW t \in Callers, Return(t), pc[t] \notin CheckSteps
  PROVE  CallsKept
BY CallAside DEF TypeOK, Return, CheckSteps

(* A lifecycle move closes an incident only from Monitoring to Resolved. *)
LEMMA MoveAside ==
  ASSUME TypeOK, NEW i \in Incidents, NEW goal, goal # "Resolved", CanMove(state[i], goal),
         state' = [state EXCEPT ![i] = goal]
  PROVE  ClosedKept
BY LateMoves DEF TypeOK, ClosedKept, ClosedStates

LEMMA SameStates ==
  ASSUME UNCHANGED state
  PROVE  ClosedKept
BY DEF ClosedKept

(* A last transition to anything but Resolved. *)
LEMMA FinishAside ==
  ASSUME Inductive, NEW t \in Callers, NEW goal, goal # "Resolved", FinishWithMove(t, goal),
         pc[t] \in PlanSteps \ CheckSteps
  PROVE  Aside
<1>1. TypeOK /\ IncidentOf(target[t]) \in Incidents
  BY CallsPlan DEF Inductive, IncidentOf
<1>2. ClosedKept
  BY <1>1, MoveAside, SameStates DEF FinishWithMove
<1>3. CallsKept /\ DecisionsKept
  BY <1>1, ReturnAside, SameDecisions DEF FinishWithMove
<1> QED
  BY <1>2, <1>3 DEF Aside

(* A compare-and-set between two states before the execution. *)
LEMMA CompareAside ==
  ASSUME Inductive, NEW t \in Callers, pc[t] \in PlanSteps \ CheckSteps, NEW from \in BeforeStatus,
         NEW to \in BeforeStatus,
         \/ CompareAndFinish(t, from, to)
         \/ \E next \in Steps \ (CheckSteps \cup {"resolving"}) : CompareAndSet(t, from, to, next)
  PROVE  Aside
<1>1. TypeOK /\ target[t] \in Plans /\ UNCHANGED <<state, proposal>>
  BY CallsPlan DEF Inductive, CompareAndFinish, CompareAndSet
<1>2. \/ UNCHANGED status
      \/ status[target[t]] = from /\ status' = [status EXCEPT ![target[t]] = to]
  BY DEF CompareAndFinish, CompareAndSet, SetStatus
<1>3. DecisionsKept
  BY <1>1, <1>2, SameDecisions, StatusBefore DEF DecisionsKept
<1>4. CallsKept
  BY <1>1, ReturnAside, ContinueAside DEF CompareAndFinish, CompareAndSet
<1> QED
  BY <1>1, <1>3, <1>4, SameStates DEF Aside

--------------------------------------------------------------------------------
(* Which steps are aside.                                                    *)

LEMMA RequestAside ==
  ASSUME Inductive, NEW t \in Callers, Request(t)
  PROVE  Aside \/ \E p \in Plans : VerifyBegin(t, p)
<1> USE DEF records
<1>1. TypeOK
  BY DEF Inductive
<1>2. ASSUME NEW i \in Incidents, NEW a \in Requests, ProposeBegin(t, i, a) PROVE Aside
  <2>1. CallsKept
    BY <1>1, <1>2, CallAside DEF ProposeBegin, CheckSteps
  <2> QED
    BY <1>2, <2>1, SameDecisions, SameStates DEF ProposeBegin, Aside
<1>3. ASSUME NEW p \in Plans, ExpirePlan(t, p) \/ InvalidatePlan(t, p) PROVE Aside
  <2>1. PICK s \in BeforeStatus : status' = [status EXCEPT ![p] = s]
    BY <1>3 DEF ExpirePlan, InvalidatePlan, SetStatus, BeforeStatus
  <2>2. status[p] \in BeforeStatus /\ UNCHANGED <<state, proposal>>
    BY <1>3 DEF ExpirePlan, InvalidatePlan, BeforeStatus
  <2>3. CallsKept
    BY <1>1, <1>3, TakeAside DEF ExpirePlan, InvalidatePlan, CheckSteps
  <2> QED
    BY <1>1, <2>1, <2>2, <2>3, StatusBefore, SameStates DEF Aside, DecisionsKept
<1>4. ASSUME NEW p \in Plans, ApproveBegin(t, p) \/ RejectBegin(t, p) \/ ExecuteBegin(t, p)
      PROVE  Aside
  <2>1. CallsKept
    BY <1>1, <1>4, TakeAside DEF ApproveBegin, RejectBegin, ExecuteBegin, CheckSteps
  <2> QED
    BY <1>4, <2>1, SameDecisions, SameStates DEF ApproveBegin, RejectBegin, ExecuteBegin, Aside
<1>5. ASSUME NEW i \in Incidents, NEW goal, goal # "Resolved", MoveOnly(t, i, goal) PROVE Aside
  BY <1>1, <1>5, MoveAside, SameCalls, SameDecisions DEF MoveOnly, calls, Aside
<1>6. ASSUME NEW i \in Incidents,
             PublicLifecycle(t, i) \/ DraftPostmortem(t, i) \/ PublishPostmortem(t, i)
      PROVE  Aside
  BY <1>5, <1>6 DEF PublicLifecycle, PublicTargets, DraftPostmortem, PublishPostmortem
<1> QED
  BY <1>2, <1>3, <1>4, <1>6 DEF Request

(* The steps of a handler that are not aside. *)
Decides(t) ==
  \/ \E p \in Plans : ProposeCreate(t, p)
  \/ ExecuteRecord(t) \/ ExecuteFailRecord(t)
  \/ VerifyRecord(t) \/ VerifyResolve(t)

LEMMA HandlerAside ==
  ASSUME Inductive, NEW t \in Callers, HandlerStep(t)
  PROVE  Aside \/ Decides(t)
<1> USE DEF records, calls
<1>1. TypeOK
  BY DEF Inductive
<1>2. CASE ProposePreview(t) \/ ProposeRefused(t)
  <2>1. CallsKept
    <3>1. CASE ProposePreview(t)
      BY <1>1, <3>1, CallAside DEF ProposePreview, CheckSteps
    <3>2. CASE ProposeRefused(t)
      BY <1>1, <3>2, ReturnAside DEF ProposeRefused, CheckSteps, DraftSteps
    <3> QED
      BY <1>2, <3>1, <3>2
  <2> QED
    BY <1>2, <2>1, SameDecisions, SameStates DEF ProposePreview, ProposeRefused, Aside
<1>3. CASE ProposeTransition(t) \/ Release(t) \/ ExecuteMonitor(t)
  BY <1>3, FinishAside DEF ProposeTransition, Release, ExecuteMonitor, PlanSteps, CheckSteps
<1>4. CASE ReleaseRead(t) \/ ExecutePatch(t) \/ ExecutePatchFails(t)
  <2>1. CallsKept
    <3>1. CASE ReleaseRead(t)
      BY <1>1, <3>1, ReturnAside, ContinueAside DEF ReleaseRead, CheckSteps
    <3>2. CASE ExecutePatch(t) \/ ExecutePatchFails(t)
      BY <1>1, <3>2, ContinueAside DEF ExecutePatch, ExecutePatchFails, CheckSteps
    <3> QED
      BY <1>4, <3>1, <3>2
  <2> QED
    BY <1>4, <2>1, SameDecisions, SameStates
    DEF ReleaseRead, ExecutePatch, ExecutePatchFails, Aside
<1>5. CASE ApproveCommit(t) \/ RejectCommit(t) \/ ExecuteClaim(t)
  BY <1>5, CompareAside
  DEF ApproveCommit, RejectCommit, ExecuteClaim, PlanSteps, DraftSteps, Steps, CheckSteps,
      BeforeStatus
<1>6. CASE ExecuteStart(t) \/ ExecuteFailRelease(t)
  <2>1. pc[t] \in PlanSteps \ CheckSteps /\ UNCHANGED <<status, proposal>>
    BY <1>6 DEF ExecuteStart, ExecuteFailRelease, PlanSteps, CheckSteps
  <2>2. IncidentOf(target[t]) \in Incidents
    BY <2>1, CallsPlan DEF IncidentOf
  <2>3. CallsKept
    BY <1>1, <1>6, <2>1, ReturnAside, ContinueAside
    DEF ExecuteStart, ExecuteFailRelease, CheckSteps
  <2>4. ClosedKept
    BY <1>1, <1>6, <2>2, MoveAside, SameStates DEF ExecuteStart, ExecuteFailRelease
  <2> QED
    BY <2>1, <2>3, <2>4, SameDecisions DEF Aside
<1> QED
  BY <1>2, <1>3, <1>4, <1>5, <1>6 DEF HandlerStep, Decides

(* Every step, sorted. *)
LEMMA StepsSorted ==
  ASSUME Inductive, [Next]_vars
  PROVE  \/ Aside
         \/ \E t \in Callers, p \in Plans : VerifyBegin(t, p)
         \/ \E t \in Callers : Decides(t)
         \/ Crash
<1>1. ASSUME ClusterDrift \/ (\E p \in Plans : Expire(p)) \/ UNCHANGED vars PROVE Aside
  BY <1>1, SameCalls, SameDecisions, SameStates
  DEF ClusterDrift, Expire, vars, records, calls, Aside
<1> QED
  BY <1>1, RequestAside, HandlerAside DEF Next

(* A proposal is never changed again. *)
LEMMA ProposalsKept ==
  ASSUME Inductive, [Next]_vars, NEW p \in Plans, proposal[p] # NoProposal
  PROVE  proposal'[p] = proposal[p]
<1>1. ASSUME NEW t \in Callers, Decides(t) PROVE proposal'[p] = proposal[p]
  <2>1. ASSUME NEW q \in Plans, ProposeCreate(t, q) PROVE proposal'[p] = proposal[p]
    BY <2>1 DEF ProposeCreate, Inductive, TypeOK, PlansWellFormed
  <2> QED
    BY <1>1, <2>1
    DEF Decides, ExecuteRecord, ExecuteFailRecord, VerifyRecord, VerifyResolve, CompareAndSet,
        CompareAndFinish, FinishWithMove
<1> QED
  BY <1>1, StepsSorted DEF Aside, DecisionsKept, VerifyBegin, Crash, records

--------------------------------------------------------------------------------
(* The contract, step by step.                                               *)

(* A call that is about to refute a plan refutes one that can be. *)
RefutesKnown == \A t \in Callers : pc[t] = "refuted" => target[t] \in Refutable

(* A check in progress is of an executed plan. *)
LEMMA CheckedPlan ==
  ASSUME Inductive, NEW t \in Callers, pc[t] \in CheckSteps
  PROVE  /\ target[t] \in Plans /\ DecisionOf(target[t]) # "before"
         /\ proposal[target[t]] # NoProposal
<1>1. /\ target[t] \in Plans /\ status[target[t]] \in {"Executed", "Verified", "Failed"}
      /\ proposal[target[t]] \in Proposal
  BY CallsPlan DEF Inductive, CallsPatched, CheckSteps, PlanSteps
<1> QED
  BY <1>1, DecisionFacts, NoProposalAssumption

LEMMA SilentContract ==
  ASSUME CallsKept, DecisionsKept
  PROVE  ContractStep
<1>1. Checks' = Checks
  BY DEF CallsKept, Checks, CheckSteps
<1>2. Decisions' = Decisions /\ Refutable' = Refutable
  BY DEF DecisionsKept, Decisions, Refutable
<1> QED
  BY <1>1, <1>2 DEF Checks, Decisions, CheckSteps, ContractStep, Contract!verificationVars

(* The decision of the one plan a step is about. *)
LEMMA OneDecision ==
  ASSUME TypeOK, NEW p \in Plans, NEW s, status' = [status EXCEPT ![p] = s]
  PROVE  Decisions' = [Decisions EXCEPT ![p] = DecisionOf(p)']
<1>1. \A q \in Plans \ {p} : DecisionOf(q)' = DecisionOf(q)
  BY DEF TypeOK, DecisionOf
<1> QED
  BY <1>1 DEF Decisions

(* A new plan takes shape. *)
LEMMA CreateContract ==
  ASSUME Inductive, NEW t \in Callers, NEW p \in Plans, ProposeCreate(t, p)
  PROVE  ContractStep
<1>1. /\ status[p] = "Absent" /\ status' = [status EXCEPT ![p] = "Previewed"]
      /\ \A q \in Plans \ {p} : proposal'[q] = proposal[q]
      /\ pc[t] = "creating" /\ pc' = [pc EXCEPT ![t] = "proposing"]
      /\ \A u \in Callers \ {t} : target'[u] = target[u]
      /\ TypeOK
  BY DEF Inductive, TypeOK, ProposeCreate, SetStatus
<1>2. Decisions[p] = "before" /\ Decisions' = Decisions
  BY <1>1, StatusBefore, DecisionFacts DEF Decisions, BeforeStatus
<1>3. Checks' = Checks
  <2>1. CallsKept
    BY <1>1, CallAside DEF CheckSteps
  <2> QED
    BY <2>1 DEF CallsKept, Checks, CheckSteps
<1>4. Refutable' \in {Refutable \cup {p}, Refutable \ {p}}
  <2>1. \A q \in Plans \ {p} : q \in Refutable' <=> q \in Refutable
    BY <1>1 DEF Refutable
  <2>2. Refutable \subseteq Plans /\ Refutable' \subseteq Plans
    BY DEF Refutable
  <2>3. CASE p \in Refutable'
    <3>1. Refutable' = Refutable \cup {p}
      BY <2>1, <2>2, <2>3
    <3> QED
      BY <3>1
  <2>4. CASE p \notin Refutable'
    <3>1. Refutable' = Refutable \ {p}
      BY <2>1, <2>2, <2>4
    <3> QED
      BY <3>1
  <2> QED
    BY <2>3, <2>4
<1>5. Contract!Shape(p)
  BY <1>2, <1>3, <1>4 DEF Contract!Shape, Decisions, Checks, CheckSteps
<1> QED
  BY <1>5 DEF ContractStep, Contract!VerificationNext

(* The execution is recorded, or its failure is. *)
LEMMA OutcomeContract ==
  ASSUME Inductive, NEW t \in Callers, ExecuteRecord(t) \/ ExecuteFailRecord(t)
  PROVE  ContractStep
<1>1. PICK p \in Plans : p = target[t]
  BY CallsPlan DEF ExecuteRecord, ExecuteFailRecord, PlanSteps
<1>2. TypeOK /\ pc[t] \notin CheckSteps /\ UNCHANGED proposal
  BY DEF Inductive, ExecuteRecord, ExecuteFailRecord, CompareAndSet, CompareAndFinish, CheckSteps
<1>3. CallsKept
  BY <1>2, ReturnAside, ContinueAside
  DEF ExecuteRecord, ExecuteFailRecord, CompareAndSet, CompareAndFinish, CheckSteps
<1>4. CASE UNCHANGED status
  BY <1>2, <1>3, <1>4, SameDecisions, SilentContract
<1>5. CASE /\ status[p] = "Executing"
           /\ \E s \in {"Executed", "Failed"} : status' = [status EXCEPT ![p] = s]
  <2>1. DecisionOf(p)' \in {"open", "failed"}
    BY <1>2, <1>5, DecisionFactsNext DEF TypeOK
  <2>2. /\ Decisions' = [Decisions EXCEPT ![p] = DecisionOf(p)']
        /\ Decisions[p] = "before"
    BY <1>2, <1>5, OneDecision, DecisionFacts DEF Decisions, BeforeStatus
  <2>3. Checks' = Checks /\ Refutable' = Refutable
    BY <1>2, <1>3 DEF CallsKept, Checks, CheckSteps, Refutable
  <2>4. Contract!Execute(p)
    BY <2>1, <2>2, <2>3 DEF Contract!Execute, Decisions, Checks, CheckSteps
  <2> QED
    BY <2>4 DEF ContractStep, Contract!VerificationNext
<1> QED
  BY <1>1, <1>4, <1>5
  DEF ExecuteRecord, ExecuteFailRecord, CompareAndSet, CompareAndFinish, SetStatus

(* A verification that finds the plan executed begins a check. *)
LEMMA BeginContract ==
  ASSUME Inductive, NEW t \in Callers, NEW p \in Plans, VerifyBegin(t, p)
  PROVE  ContractStep
<1>1. /\ status[p] = "Executed" /\ UNCHANGED <<status, proposal>> /\ TypeOK
      /\ pc[t] = "idle" /\ target' = [target EXCEPT ![t] = p]
      /\ \E step \in CheckSteps : pc' = [pc EXCEPT ![t] = step]
  BY DEF Inductive, VerifyBegin, Take, records, CheckSteps
<1>2. Checks[t] = NoPlan /\ Checks' = [Checks EXCEPT ![t] = p]
  BY <1>1 DEF TypeOK, Checks, CheckSteps
<1>3. Decisions[p] = "open" /\ Decisions' = Decisions /\ Refutable' = Refutable
  BY <1>1, SameDecisions, DecisionFacts DEF DecisionsKept, Decisions, Refutable
<1>4. Contract!Begin(t, p)
  BY <1>2, <1>3 DEF Contract!Begin, Decisions, Checks, CheckSteps
<1> QED
  BY <1>4 DEF ContractStep, Contract!VerificationNext

(* Its verdict is stored, whatever another check has stored before. *)
LEMMA DecideContract ==
  ASSUME Inductive, RefutesKnown, NEW t \in Callers, VerifyRecord(t)
  PROVE  ContractStep
<1>1. pc[t] \in CheckSteps /\ UNCHANGED proposal /\ TypeOK
  BY DEF Inductive, VerifyRecord, CheckSteps
<1>2. PICK p \in Plans : p = target[t] /\ DecisionOf(p) # "before"
  BY <1>1, CheckedPlan
<1>3. PICK s \in {"Verified", "Failed"} :
        /\ status' = [status EXCEPT ![p] = s]
        /\ s = "Failed" => pc[t] = "refuted"
  BY <1>2 DEF VerifyRecord, SetStatus
<1>4. PICK result \in {"verified", "failed"} :
        DecisionOf(p)' = result /\ (result = "failed" => s = "Failed")
  BY <1>1, <1>3, DecisionFactsNext DEF TypeOK
<1>5. Decisions' = [Decisions EXCEPT ![p] = result] /\ Decisions[p] # "before"
  BY <1>1, <1>2, <1>3, <1>4, OneDecision DEF Decisions
<1>6. Refutable' = Refutable /\ (result = "failed" => p \in Refutable)
  BY <1>1, <1>2, <1>3, <1>4 DEF RefutesKnown, Refutable
<1>7. Checks[t] = p /\ Checks' = [Checks EXCEPT ![t] = NoPlan]
  BY <1>1, <1>2 DEF VerifyRecord, Continue, TypeOK, Checks, CheckSteps
<1>8. Contract!Decide(t, p, result)
  BY <1>5, <1>6, <1>7 DEF Contract!Decide, Decisions, Checks, CheckSteps
<1> QED
  BY <1>8 DEF ContractStep, Contract!VerificationNext

(* The process dies with every check in it. *)
LEMMA CrashContract ==
  ASSUME Crash
  PROVE  ContractStep
<1>1. Checks' = [t \in Callers |-> IF t \in Callers THEN NoPlan ELSE Checks[t]]
  BY DEF Crash, Checks, CheckSteps
<1>2. Decisions' = Decisions /\ Refutable' = Refutable
  BY SameDecisions DEF Crash, records, DecisionsKept, Decisions, Refutable
<1>3. Contract!GiveUp(Callers)
  BY <1>1, <1>2 DEF Contract!GiveUp, Decisions, Checks, CheckSteps
<1> QED
  BY <1>3 DEF ContractStep, Contract!VerificationNext

LEMMA ResolveAside ==
  ASSUME TypeOK, NEW t \in Callers, VerifyResolve(t)
  PROVE  CallsKept /\ DecisionsKept
BY ReturnAside, SameDecisions DEF VerifyResolve, FinishWithMove, CheckSteps

(* Every step is one of the contract, or none. *)
LEMMA ContractStepOf ==
  ASSUME Inductive, RefutesKnown, [Next]_vars
  PROVE  ContractStep
<1>1. ASSUME NEW t \in Callers, Decides(t) PROVE ContractStep
  BY <1>1, CreateContract, OutcomeContract, DecideContract, ResolveAside, SilentContract
  DEF Decides, Inductive
<1> QED
  BY <1>1, StepsSorted, SilentContract, BeginContract, CrashContract DEF Aside

(* Only a verification of a response action begins to refute one. *)
LEMMA RefutesKnownStep ==
  ASSUME Inductive, RefutesKnown, [Next]_vars
  PROVE  RefutesKnown'
<1>1. SUFFICES ASSUME NEW t \in Callers, pc'[t] = "refuted"
               PROVE  target'[t] \in Refutable'
  BY DEF RefutesKnown
<1>2. CASE pc[t] = "refuted" /\ target'[t] = target[t]
  <2>1. target[t] \in Refutable /\ target[t] \in Plans /\ proposal[target[t]] # NoProposal
    BY <1>2 DEF RefutesKnown, Refutable
  <2> QED
    BY <1>2, <2>1, ProposalsKept DEF Refutable
<1>3. ASSUME NEW p \in Plans, VerifyBegin(t, p) PROVE target'[t] \in Refutable'
  <2>1. status[p] = "Executed" /\ UNCHANGED proposal /\ target'[t] = p
    BY <1>3 DEF Inductive, TypeOK, VerifyBegin, Take, records
  <2>2. proposal[p].action.type = "restore_response_mode"
    BY <1>1, <1>3 DEF Inductive, TypeOK, VerifyBegin, Take
  <2>3. proposal[p] # NoProposal
    BY <2>1 DEF Inductive, PlansWellFormed
  <2> QED
    BY <2>1, <2>2, <2>3 DEF Refutable
<1>4. ASSUME NEW u \in Callers, u # t, NEW p \in Plans, VerifyBegin(u, p)
      PROVE  pc[t] = "refuted" /\ target'[t] = target[t]
  BY <1>1, <1>4 DEF Inductive, TypeOK, VerifyBegin, Take
<1>5. ASSUME NEW u \in Callers, Decides(u)
      PROVE  pc[t] = "refuted" /\ target'[t] = target[t]
  BY <1>1, <1>5
  DEF Inductive, TypeOK, Decides, ProposeCreate, ExecuteRecord, ExecuteFailRecord, VerifyRecord,
      VerifyResolve, CompareAndSet, CompareAndFinish, FinishWithMove, Continue, Return
<1>6. ~Crash
  BY <1>1 DEF Crash
<1>7. Aside => pc[t] = "refuted" /\ target'[t] = target[t]
  BY <1>1 DEF Aside, CallsKept, CheckSteps
<1> QED
  BY <1>2, <1>3, <1>4, <1>5, <1>6, <1>7, StepsSorted

LEMMA RefutesKnownAlways == Spec => [](Inductive /\ RefutesKnown)
<1>1. Init => RefutesKnown
  BY DEF Init, RefutesKnown
<1>2. Inductive /\ RefutesKnown /\ [Next]_vars => RefutesKnown'
  BY RefutesKnownStep
<1> QED
  BY <1>1, <1>2, Invariance, PTL DEF Spec

LEMMA ContractOpens == Init => Contract!VerificationInit
<1> SUFFICES ASSUME Init PROVE Contract!VerificationInit
  OBVIOUS
<1>1. \A p \in Plans : DecisionOf(p) = "before"
  BY DecisionFacts DEF Init, BeforeStatus
<1>2. \A t \in Callers : pc[t] \notin {"recovered", "refuted"}
  BY DEF Init
<1> QED
  BY <1>1, <1>2 DEF Contract!VerificationInit, Refutable

(* The workflow keeps the contract, with any number of callers and with      *)
(* crashes: a verdict is recorded only of an executed plan, by a request     *)
(* that found it undecided, and no other request touches the status of a     *)
(* plan once it is executed.                                                 *)
THEOREM ContractImplemented == Spec => ImplementsContract
<1>1. Init => Contract!VerificationInit
  BY ContractOpens
<1>2. Inductive /\ RefutesKnown /\ [Next]_vars =>
        [Contract!VerificationNext]_(Contract!verificationVars)
  BY ContractStepOf DEF ContractStep
<1> QED
  BY <1>1, <1>2, RefutesKnownAlways, PTL
  DEF Spec, ImplementsContract, Contract!VerificationSpec

--------------------------------------------------------------------------------
(* Closed incidents.  The contract lets a verdict be replaced by another one *)
(* only, so an incident that was closed on a verdict stays closed on one.    *)

OnVerdict(p) == DecisionOf(p) = "verified" \/ (DecisionOf(p) = "failed" /\ p \in Refutable)

(* A step of the contract takes no verdict away. *)
LEMMA VerdictLasts ==
  ASSUME ContractStep, NEW p \in Plans, OnVerdict(p)
  PROVE  OnVerdict(p)'
<1>1. /\ Decisions[p] = "verified" \/ (Decisions[p] = "failed" /\ p \in Refutable)
      /\ \A q \in Plans : Decisions[q] = DecisionOf(q) /\ Decisions'[q] = DecisionOf(q)'
  BY DEF OnVerdict, Decisions
<1> USE DEF Decisions, Checks, CheckSteps
<1>2. ASSUME NEW q \in Plans, Contract!Shape(q)
      PROVE  Decisions' = Decisions /\ (p \in Refutable => p \in Refutable')
  <2>1. Decisions[q] = "before" /\ Decisions' = Decisions
        /\ Refutable' \in {Refutable \cup {q}, Refutable \ {q}}
    BY <1>2 DEF Contract!Shape
  <2>2. p # q
    BY <1>1, <2>1
  <2> QED
    BY <2>1, <2>2
<1>3. ASSUME NEW q \in Plans, Contract!Execute(q)
      PROVE  Decisions'[p] = Decisions[p] /\ Refutable' = Refutable
  <2>1. /\ Decisions[q] = "before" /\ Refutable' = Refutable
        /\ \E result : Decisions' = [Decisions EXCEPT ![q] = result]
    BY <1>3 DEF Contract!Execute
  <2> QED
    BY <1>1, <2>1
<1>4. ASSUME NEW t \in Callers, NEW q \in Plans, Contract!Begin(t, q)
      PROVE  Decisions' = Decisions /\ Refutable' = Refutable
  BY <1>4 DEF Contract!Begin
<1>5. ASSUME NEW t \in Callers, NEW q \in Plans, NEW result \in {"verified", "failed"},
             Contract!Decide(t, q, result)
      PROVE  /\ Refutable' = Refutable
             /\ \/ Decisions'[p] = Decisions[p]
                \/ Decisions'[p] = result /\ (result = "failed" => p \in Refutable)
  <2>1. /\ Decisions' = [Decisions EXCEPT ![q] = result] /\ Refutable' = Refutable
        /\ result = "failed" => q \in Refutable
    BY <1>5 DEF Contract!Decide
  <2> QED
    BY <2>1
<1>6. ASSUME NEW threads, Contract!GiveUp(threads)
      PROVE  Decisions' = Decisions /\ Refutable' = Refutable
  BY <1>6 DEF Contract!GiveUp
<1>7. ASSUME UNCHANGED Contract!verificationVars
      PROVE  Decisions' = Decisions /\ Refutable' = Refutable
  BY <1>7 DEF Contract!verificationVars
<1>8. /\ Decisions'[p] = "verified" \/ (Decisions'[p] = "failed" /\ p \in Refutable)
      /\ p \in Refutable => p \in Refutable'
  BY <1>1, <1>2, <1>3, <1>4, <1>5, <1>6, <1>7 DEF ContractStep, Contract!VerificationNext
<1> QED
  BY <1>1, <1>8 DEF OnVerdict

(* A plan about to resolve its incident has its verdict, and so has a plan   *)
(* patched in for every incident that was resolved.                          *)
ResolvesOnVerdict == \A t \in Callers : pc[t] = "resolving" => OnVerdict(target[t])

PlanWithVerdict(i) ==
  \E p \in PatchedPlans \cap Plans :
    proposal[p] # NoProposal /\ IncidentOf(p) = i /\ OnVerdict(p)

ClosedWithVerdict == \A i \in Incidents : state[i] \in ClosedStates => PlanWithVerdict(i)

VerdictInv == RefutesKnown /\ ResolvesOnVerdict /\ ClosedWithVerdict

(* A call comes to resolve an incident by storing that its plan recovered. *)
LEMMA ResolvesStep ==
  ASSUME Inductive, VerdictInv, [Next]_vars
  PROVE  ResolvesOnVerdict'
<1>1. SUFFICES ASSUME NEW t \in Callers, pc'[t] = "resolving"
               PROVE  OnVerdict(target[t])'
  BY DEF ResolvesOnVerdict
<1>2. TypeOK
  BY DEF Inductive
<1>3. CASE pc[t] = "resolving" /\ target'[t] = target[t]
  <2>1. PICK p \in Plans : p = target[t] /\ p = target'[t] /\ OnVerdict(p)
    BY <1>3, CallsPlan DEF VerdictInv, ResolvesOnVerdict, PlanSteps
  <2>2. OnVerdict(p)'
    BY <2>1, ContractStepOf, VerdictLasts DEF VerdictInv
  <2> QED
    BY <2>1, <2>2 DEF OnVerdict, DecisionOf
<1>4. CASE VerifyRecord(t)
  <2>1. pc[t] = "recovered" /\ status' = [status EXCEPT ![target[t]] = "Verified"]
        /\ target' = target
    BY <1>1, <1>2, <1>4 DEF VerifyRecord, SetStatus, Continue, TypeOK
  <2>2. PICK p \in Plans : p = target[t] /\ p = target'[t]
    BY <2>1, CallsPlan DEF PlanSteps
  <2>3. DecisionOf(p)' = "verified"
    BY <1>2, <2>1, <2>2, DecisionFactsNext DEF TypeOK
  <2> QED
    BY <2>2, <2>3 DEF OnVerdict, DecisionOf
<1>5. ASSUME NEW u \in Callers, NEW p \in Plans, VerifyBegin(u, p)
      PROVE  pc[t] = "resolving" /\ target'[t] = target[t]
  BY <1>1, <1>2, <1>5 DEF TypeOK, VerifyBegin, Take
<1>6. ASSUME NEW u \in Callers, Decides(u), ~VerifyRecord(t)
      PROVE  pc[t] = "resolving" /\ target'[t] = target[t]
  BY <1>1, <1>2, <1>6
  DEF TypeOK, Decides, ProposeCreate, ExecuteRecord, ExecuteFailRecord, VerifyRecord,
      VerifyResolve, CompareAndSet, CompareAndFinish, FinishWithMove, Continue, Return
<1>7. ~Crash
  BY <1>1 DEF Crash
<1>8. Aside => pc[t] = "resolving" /\ target'[t] = target[t]
  BY <1>1 DEF Aside, CallsKept
<1> QED
  BY <1>3, <1>4, <1>5, <1>6, <1>7, <1>8, StepsSorted

(* What is in the cluster stays on record. *)
LEMMA WritesGrow ==
  ASSUME [Next]_vars
  PROVE  writes \subseteq writes'
<1> USE DEF vars, records, calls, CompareAndSet, CompareAndFinish, FinishWithMove
<1>1. ASSUME NEW t \in Callers, Request(t) PROVE UNCHANGED writes
  BY <1>1
  DEF Request, ProposeBegin, ExpirePlan, InvalidatePlan, ApproveBegin, RejectBegin, ExecuteBegin,
      VerifyBegin, PublicLifecycle, DraftPostmortem, PublishPostmortem, MoveOnly
<1>2. ASSUME NEW t \in Callers, HandlerStep(t) PROVE writes \subseteq writes'
  BY <1>2
  DEF HandlerStep, ProposePreview, ProposeRefused, ProposeCreate, ProposeTransition, ReleaseRead,
      Release, ApproveCommit, RejectCommit, ExecuteStart, ExecuteClaim, ExecutePatch,
      ExecutePatchFails, ExecuteRecord, ExecuteMonitor, ExecuteFailRelease, ExecuteFailRecord,
      VerifyRecord, VerifyResolve
<1>3. CASE ClusterDrift \/ (\E p \in Plans : Expire(p)) \/ Crash \/ UNCHANGED vars
  BY <1>3 DEF ClusterDrift, Expire, Crash
<1> QED
  BY <1>1, <1>2, <1>3 DEF Next

(* An incident that has a plan with a verdict keeps one. *)
LEMMA PlanWithVerdictStays ==
  ASSUME Inductive, RefutesKnown, [Next]_vars, NEW i \in Incidents, PlanWithVerdict(i)
  PROVE  PlanWithVerdict(i)'
<1>1. PICK p \in PatchedPlans \cap Plans :
        proposal[p] # NoProposal /\ IncidentOf(p) = i /\ OnVerdict(p)
  BY DEF PlanWithVerdict
<1>2. OnVerdict(p)'
  BY <1>1, ContractStepOf, VerdictLasts
<1>3. proposal'[p] = proposal[p]
  BY <1>1, ProposalsKept
<1>4. writes \subseteq writes'
  BY WritesGrow
<1> QED
  BY <1>1, <1>2, <1>3, <1>4 DEF PlanWithVerdict, IncidentOf, PatchedPlans

(* Only the end of a verification closes an incident, its plan's. *)
LEMMA ClosesStep ==
  ASSUME Inductive, VerdictInv, [Next]_vars
  PROVE  ClosedWithVerdict'
<1>1. SUFFICES ASSUME NEW i \in Incidents, state'[i] \in ClosedStates
               PROVE  PlanWithVerdict(i)
  BY PlanWithVerdictStays DEF ClosedWithVerdict, VerdictInv
<1>2. CASE state[i] \in ClosedStates
  BY <1>2 DEF VerdictInv, ClosedWithVerdict
<1>3. ASSUME NEW t \in Callers, VerifyResolve(t), state[i] \notin ClosedStates
      PROVE  PlanWithVerdict(i)
  <2>1. target[t] \in Plans /\ proposal[target[t]] \in Proposal /\ OnVerdict(target[t])
    BY <1>3, CallsPlan DEF VerifyResolve, PlanSteps, VerdictInv, ResolvesOnVerdict
  <2>2. IncidentOf(target[t]) = i
    BY <1>1, <1>3 DEF VerifyResolve, FinishWithMove, Inductive, TypeOK
  <2>3. target[t] \in PatchedPlans
    BY <1>3 DEF VerifyResolve, Inductive, CallsPatched
  <2> QED
    BY <2>1, <2>2, <2>3, NoProposalAssumption DEF PlanWithVerdict
<1>4. ASSUME NEW t \in Callers, Decides(t), ~VerifyResolve(t) PROVE state'[i] = state[i]
  BY <1>4 DEF Decides, ProposeCreate, ExecuteRecord, ExecuteFailRecord, VerifyRecord,
              CompareAndSet, CompareAndFinish
<1>5. Crash \/ (\E t \in Callers, p \in Plans : VerifyBegin(t, p)) => state'[i] = state[i]
  BY DEF Crash, VerifyBegin, records
<1>6. Aside => state[i] \in ClosedStates
  BY <1>1 DEF Aside, ClosedKept
<1> QED
  BY <1>1, <1>2, <1>3, <1>4, <1>5, <1>6, StepsSorted

LEMMA VerdictInvAlways == Spec => [](Inductive /\ VerdictInv)
<1>1. Init => VerdictInv
  BY DEF Init, VerdictInv, RefutesKnown, ResolvesOnVerdict, ClosedWithVerdict, ClosedStates
<1>2. Inductive /\ VerdictInv /\ [Next]_vars => VerdictInv'
  BY RefutesKnownStep, ResolvesStep, ClosesStep DEF VerdictInv
<1> QED
  BY <1>1, <1>2, Invariance, PTL DEF Spec

(* Whatever overlaps and whenever the process dies, an incident is closed    *)
(* only on a plan that was patched in and verified: it is still Verified, or *)
(* it is a response action that failed since.                                *)
THEOREM ClosedOnVerdictAlways == Spec => []ClosedOnVerdict
<1>1. Inductive /\ VerdictInv => ClosedOnVerdict
  <2> SUFFICES ASSUME Inductive, VerdictInv, NEW i \in Incidents, state[i] \in ClosedStates
               PROVE  \E p \in PatchedPlans :
                        /\ IncidentOf(p) = i
                        /\ status[p] = "Verified" \/ (status[p] = "Failed" /\ p \in Refutable)
    BY DEF ClosedOnVerdict
  <2>1. PICK p \in PatchedPlans \cap Plans :
          proposal[p] # NoProposal /\ IncidentOf(p) = i /\ OnVerdict(p)
    BY DEF VerdictInv, ClosedWithVerdict, PlanWithVerdict
  <2>2. status[p] \in PlanStatus \cup {"Absent"}
    BY DEF Inductive, TypeOK
  <2>3. status[p] = "Verified" \/ (status[p] = "Failed" /\ p \in Refutable)
    BY <2>1, <2>2, DecisionFacts DEF OnVerdict, PlanStatus, BeforeStatus
  <2> QED
    BY <2>1, <2>3
<1> QED
  BY <1>1, VerdictInvAlways, PTL

(* The race of two verifications is the response action's alone: where only  *)
(* the other actions are asked for, every closed incident has a Verified     *)
(* plan, with any number of callers and with crashes.                        *)
THEOREM ResolvedIsVerifiedWithoutResponse ==
  ASSUME \A a \in Requests : a.type # "restore_response_mode"
  PROVE  Spec => []ResolvedIsVerified
<1>1. Inductive => Refutable = {}
  BY DEF Inductive, TypeOK, Proposal, Refutable
<1>2. Inductive => \A p \in PatchedPlans : p \in Plans /\ proposal[p] # NoProposal
  BY DEF Inductive, TypeOK, PatchedPlans, AuditTruthful, PlansWellFormed
<1>3. Inductive /\ ClosedOnVerdict => ResolvedIsVerified
  BY <1>1, <1>2 DEF ClosedOnVerdict, ResolvedIsVerified, PlansOf
<1> QED
  BY <1>3, ClosedOnVerdictAlways, Invariance, PTL

================================================================================
