----------------------------- MODULE SerialProofs -----------------------------
(***************************************************************************)
(* What the records say between calls, when calls run one at a time and    *)
(* the server does not die: a proposed incident can be decided, a monitored *)
(* one verified, and a closed one has a verified plan, for any number of   *)
(* incidents and plans and whatever happens to the deployment.             *)
(***************************************************************************)
EXTENDS RemediationProofs

(* One worker thread, which is never cut off. *)
Serial == (\A t, u \in Callers : t = u) /\ ~CanCrash

(* What a call relies on between two of its steps, there being no other. *)
CallsKnow ==
  \A t \in Callers :
    /\ pc[t] = "proposing" => status[target[t]] = "Previewed"
    /\ pc[t] \in {"starting", "claiming"} => status[target[t]] = "Approved"
    /\ pc[t] = "claiming" => state[IncidentOf(target[t])] = "Executing"
    /\ pc[t] \in {"monitoring", "recovered", "refuted"} => status[target[t]] = "Executed"
    /\ pc[t] = "resolving" => status[target[t]] = "Verified"

HasPlan(i, statuses) == \E p \in PlansOf(i) : status[p] \in statuses

(* The call that will move the incident on. *)
UnderWay(i, steps) == \E t \in Callers : pc[t] \in steps /\ IncidentOf(target[t]) = i

Accounted ==
  \A i \in Incidents :
    /\ state[i] = "ActionProposed" =>
         HasPlan(i, {"Previewed", "Approved"}) \/ UnderWay(i, {"releaseRead", "releasing"})
    /\ state[i] = "Monitoring" =>
         HasPlan(i, {"Executed"}) \/ UnderWay(i, {"resolving", "releasing"})
    /\ state[i] \in ClosedStates => HasPlan(i, {"Verified"})

Between == CallsKnow /\ Accounted

(* The steps from which a call moves an incident on. *)
MovingOn == {"releaseRead", "releasing", "resolving"}

--------------------------------------------------------------------------------
(* Why the records stay accounted for, by the shape of the step.            *)

(* The records stay, and the call was not about to move an incident. *)
LEMMA RecordsStay ==
  ASSUME Accounted, Serial, NEW t \in Callers, pc[t] \notin MovingOn,
         UNCHANGED <<state, status, proposal>>
  PROVE  Accounted'
BY DEF Accounted, Serial, MovingOn, HasPlan, UnderWay, PlansOf, IncidentOf

(* One plan's status changes: what it counted for is taken over by the call. *)
LEMMA StatusChanges ==
  ASSUME Inductive, Accounted, Serial, NEW t \in Callers, pc[t] \notin MovingOn,
         NEW p \in Plans, NEW s, SetStatus(p, s), UNCHANGED <<state, proposal>>,
         status[p] # "Verified",
         status[p] \in {"Previewed", "Approved"} =>
           \/ s \in {"Previewed", "Approved"}
           \/ state[IncidentOf(p)] # "ActionProposed"
           \/ pc'[t] \in {"releaseRead", "releasing"} /\ target'[t] = p,
         status[p] = "Executed" => pc'[t] \in {"resolving", "releasing"} /\ target'[t] = p
  PROVE  Accounted'
<1>1. /\ status'[p] = s /\ \A q \in Plans \ {p} : status'[q] = status[q]
      /\ UNCHANGED <<state, proposal>>
  BY DEF SetStatus, Inductive, TypeOK
<1>2. ASSUME NEW i \in Incidents, NEW statuses, HasPlan(i, statuses)
      PROVE  HasPlan(i, statuses)' \/ (status[p] \in statuses /\ s \notin statuses /\ IncidentOf(p) = i)
  BY <1>1, <1>2 DEF HasPlan, PlansOf, IncidentOf
<1>3. \A i \in Incidents : \A steps : steps \subseteq MovingOn => ~UnderWay(i, steps)
  BY DEF Serial, UnderWay
<1>4. ASSUME NEW i \in Incidents, state[i] = "ActionProposed"
      PROVE  \/ HasPlan(i, {"Previewed", "Approved"})'
             \/ UnderWay(i, {"releaseRead", "releasing"})'
  <2>1. HasPlan(i, {"Previewed", "Approved"})
    BY <1>3, <1>4 DEF Accounted, MovingOn
  <2> QED
    BY <1>1, <1>2, <1>4, <2>1 DEF UnderWay, IncidentOf
<1>5. ASSUME NEW i \in Incidents, state[i] = "Monitoring"
      PROVE  HasPlan(i, {"Executed"})' \/ UnderWay(i, {"resolving", "releasing"})'
  <2>1. HasPlan(i, {"Executed"})
    BY <1>3, <1>5 DEF Accounted, MovingOn
  <2> QED
    BY <1>1, <1>2, <2>1 DEF UnderWay, IncidentOf
<1>6. ASSUME NEW i \in Incidents, state[i] \in ClosedStates
      PROVE  HasPlan(i, {"Verified"})'
  BY <1>2, <1>6 DEF Accounted
<1> QED
  BY <1>1, <1>4, <1>5, <1>6 DEF Accounted, ClosedStates

(* One incident moves: to a state its plans account for. *)
LEMMA IncidentMoves ==
  ASSUME Inductive, Accounted, Serial, NEW t \in Callers,
         NEW i \in Incidents, NEW goal, CanMove(state[i], goal),
         state' = [state EXCEPT ![i] = goal], UNCHANGED <<status, proposal>>,
         pc[t] \in MovingOn => IncidentOf(target[t]) = i,
         goal = "ActionProposed" => HasPlan(i, {"Previewed", "Approved"}),
         goal = "Monitoring" => HasPlan(i, {"Executed"}),
         goal = "Resolved" => HasPlan(i, {"Verified"})
  PROVE  Accounted'
<1>1. /\ state[i] \in LifecycleState
      /\ state'[i] = goal /\ \A k \in Incidents \ {i} : state'[k] = state[k]
  BY DEF Inductive, TypeOK
<1>2. \A k, statuses : HasPlan(k, statuses)' <=> HasPlan(k, statuses)
  BY DEF HasPlan, PlansOf, IncidentOf
<1>3. \A k \in Incidents \ {i} : \A steps : steps \subseteq MovingOn => ~UnderWay(k, steps)
  BY DEF Serial, UnderWay
<1>4. goal \in ClosedStates => HasPlan(i, {"Verified"})
  BY <1>1, LateMoves DEF ClosedStates, Accounted
<1> QED
  BY <1>1, <1>2, <1>3, <1>4 DEF Accounted, MovingOn, ClosedStates

(* A call's last step, with or without the move: the move it asks for gets    *)
(* the incident out of the state the call was there for.                      *)
LEMMA FinishAccounted ==
  ASSUME Inductive, Accounted, Serial, NEW t \in Callers, NEW goal,
         pc[t] \in PlanSteps, FinishWithMove(t, goal),
         pc[t] = "releaseRead" => FALSE,
         pc[t] = "releasing" => goal = "Triaging",
         pc[t] = "resolving" => goal = "Resolved",
         goal = "ActionProposed" => HasPlan(IncidentOf(target[t]), {"Previewed", "Approved"}),
         goal = "Monitoring" => HasPlan(IncidentOf(target[t]), {"Executed"}),
         goal = "Resolved" => HasPlan(IncidentOf(target[t]), {"Verified"})
  PROVE  Accounted'
<1> DEFINE i == IncidentOf(target[t])
<1>1. i \in Incidents
  BY CallsPlan DEF IncidentOf
<1>2. CASE CanMove(state[i], goal)
  <2>1. state' = [state EXCEPT ![i] = goal] /\ UNCHANGED <<status, proposal>>
    BY <1>2 DEF FinishWithMove
  <2> QED
    BY <1>1, <1>2, <2>1, IncidentMoves
<1>3. CASE ~CanMove(state[i], goal)
  <2>1. UNCHANGED <<state, status, proposal>>
    BY <1>3 DEF FinishWithMove
  <2>2. CASE pc[t] \notin MovingOn
    BY <2>1, <2>2, RecordsStay
  <2>3. CASE pc[t] \in {"releasing", "resolving"}
    <3>1. /\ pc[t] = "releasing" => state[i] \notin {"ActionProposed", "Monitoring"}
          /\ pc[t] = "resolving" => state[i] # "Monitoring"
      BY <1>3 DEF CanMove, AllowedTransitions
    <3>2. \A k \in Incidents \ {i} : \A steps : ~UnderWay(k, steps)
      BY DEF Serial, UnderWay
    <3>3. \A k, statuses : HasPlan(k, statuses)' <=> HasPlan(k, statuses)
      BY <2>1 DEF HasPlan, PlansOf, IncidentOf
    <3>4. pc[t] = "resolving" => ~UnderWay(i, {"releaseRead", "releasing"})
      BY DEF Serial, UnderWay
    <3> QED
      BY <2>1, <2>3, <3>1, <3>2, <3>3, <3>4 DEF Accounted, ClosedStates
  <2> QED
    BY <2>2, <2>3 DEF MovingOn
<1> QED
  BY <1>2, <1>3

--------------------------------------------------------------------------------
(* The steps, one by one: what calls know, then why incidents stay           *)
(* accounted for.                                                            *)

(* Requests taken up and steps that leave the records alone. *)
LEMMA CallOnlyStep ==
  ASSUME Inductive, Between, Serial, NEW t \in Callers,
         \/ \E i \in Incidents, a \in Requests : ProposeBegin(t, i, a)
         \/ \E p \in Plans :
              \/ ApproveBegin(t, p) \/ RejectBegin(t, p)
              \/ ExecuteBegin(t, p) \/ VerifyBegin(t, p)
         \/ ProposePreview(t) \/ ProposeRefused(t)
         \/ ExecutePatch(t) \/ ExecutePatchFails(t)
  PROVE  Between'
<1>1. pc[t] \notin MovingOn /\ UNCHANGED <<state, status, proposal>>
  BY DEF ProposeBegin, ApproveBegin, RejectBegin, ExecuteBegin, VerifyBegin, Take,
         ProposePreview, ProposeRefused, ExecutePatch, ExecutePatchFails, DraftSteps,
         MovingOn, records
<1>2. /\ pc'[t] \in {"idle", "previewing", "creating", "approving", "rejecting", "starting",
                     "recovered", "refuted", "recording", "failRelease"}
      /\ pc'[t] = "starting" => target'[t] \in Plans /\ status[target'[t]] = "Approved"
      /\ pc'[t] \in {"recovered", "refuted"} => status[target'[t]] = "Executed"
  BY DEF ProposeBegin, ApproveBegin, RejectBegin, ExecuteBegin, VerifyBegin, Take, Return,
         Continue, ProposePreview, ProposeRefused, ExecutePatch, ExecutePatchFails,
         Inductive, TypeOK
<1>3. CallsKnow'
  BY <1>1, <1>2 DEF Serial, CallsKnow, IncidentOf
<1> QED
  BY <1>1, <1>3, RecordsStay DEF Between

(* The new plan's row stands by the incident it was proposed for. *)
LEMMA CreateStep ==
  ASSUME Inductive, Between, Serial, NEW t \in Callers, NEW p \in Plans, ProposeCreate(t, p)
  PROVE  Between'
<1>1. /\ pc[t] = "creating" /\ pc'[t] = "proposing" /\ target'[t] = p
      /\ status'[p] = "Previewed" /\ status[p] = "Absent" /\ proposal[p] = NoProposal
      /\ \A q \in Plans \ {p} : status'[q] = status[q] /\ proposal'[q] = proposal[q]
      /\ UNCHANGED state
  BY DEF ProposeCreate, SetStatus, Inductive, TypeOK, PlansWellFormed
<1>2. CallsKnow'
  BY <1>1 DEF Serial, CallsKnow
<1>3. \A i \in Incidents : \A statuses : HasPlan(i, statuses) => HasPlan(i, statuses)'
  BY <1>1 DEF HasPlan, PlansOf, IncidentOf
<1>4. \A i, steps : steps \subseteq MovingOn => ~UnderWay(i, steps)
  BY <1>1 DEF Serial, UnderWay, MovingOn
<1>5. Accounted'
  BY <1>1, <1>3, <1>4 DEF Between, Accounted, MovingOn, ClosedStates
<1> QED
  BY <1>2, <1>5 DEF Between

(* A status change by compare-and-set. *)
LEMMA CompareAndSetStep ==
  ASSUME Inductive, Between, Serial, NEW t \in Callers,
         \/ \E p \in Plans : ExpirePlan(t, p) \/ InvalidatePlan(t, p)
         \/ ApproveCommit(t) \/ RejectCommit(t) \/ ExecuteClaim(t)
         \/ ExecuteRecord(t) \/ ExecuteFailRecord(t)
  PROVE  Between'
<1>1. pc[t] \notin MovingOn /\ UNCHANGED <<state, proposal>>
  BY DEF ExpirePlan, InvalidatePlan, Take, ApproveCommit, RejectCommit, ExecuteClaim,
         ExecuteRecord, ExecuteFailRecord, CompareAndSet, CompareAndFinish, MovingOn
<1>2. CASE UNCHANGED status /\ Return(t)
  <2>1. pc'[t] = "idle"
    BY <1>2 DEF Return, Inductive, TypeOK
  <2>2. CallsKnow'
    BY <2>1 DEF Serial, CallsKnow
  <2> QED
    BY <1>1, <1>2, <2>2, RecordsStay DEF Between
<1>3. CASE \E p \in Plans : ExpirePlan(t, p) \/ InvalidatePlan(t, p)
  <2>1. PICK p \in Plans : ExpirePlan(t, p) \/ InvalidatePlan(t, p)
    BY <1>3
  <2>2. PICK s \in {"Expired", "Stale"} : SetStatus(p, s)
    BY <2>1 DEF ExpirePlan, InvalidatePlan
  <2>3. status[p] \in {"Previewed", "Approved"} /\ pc'[t] = "releaseRead" /\ target'[t] = p
    BY <2>1 DEF ExpirePlan, InvalidatePlan, Take, Inductive, TypeOK
  <2>4. CallsKnow'
    BY <2>3 DEF Serial, CallsKnow
  <2> QED
    BY <1>1, <2>2, <2>3, <2>4, StatusChanges DEF Between
<1>4. CASE pc[t] \in {"approving", "rejecting", "claiming", "recording", "failRecord"}
           /\ ~(UNCHANGED status /\ Return(t))
  <2> DEFINE p == target[t]
  <2>1. p \in Plans
    BY <1>4, CallsPlan DEF PlanSteps
  <2>2. PICK s \in {"Approved", "Rejected", "Executing", "Executed", "Failed"} :
          /\ SetStatus(p, s)
          /\ \/ pc[t] = "approving" /\ status[p] = "Previewed" /\ s = "Approved" /\ Return(t)
             \/ pc[t] = "rejecting" /\ status[p] = "Previewed" /\ Continue(t, "releasing")
             \/ pc[t] = "claiming" /\ status[p] = "Approved" /\ Continue(t, "patching")
             \/ /\ pc[t] = "recording" /\ status[p] = "Executing" /\ s = "Executed"
                /\ Continue(t, "monitoring")
             \/ pc[t] = "failRecord" /\ status[p] = "Executing" /\ Return(t)
    BY <1>4 DEF ExpirePlan, InvalidatePlan, Take, ApproveCommit, RejectCommit, ExecuteClaim,
                ExecuteRecord, ExecuteFailRecord, CompareAndSet, CompareAndFinish
  <2>3. /\ status'[p] = s
        /\ pc'[t] \in {"idle", "releasing", "patching", "monitoring"}
        /\ pc'[t] \in {"releasing", "monitoring"} => target'[t] = p
        /\ pc'[t] = "monitoring" => s = "Executed"
        /\ pc[t] = "rejecting" => pc'[t] = "releasing"
    BY <2>1, <2>2 DEF SetStatus, Return, Continue, Inductive, TypeOK
  <2>4. CallsKnow'
    BY <2>3 DEF Serial, CallsKnow
  <2>5. pc[t] = "claiming" => state[IncidentOf(p)] # "ActionProposed"
    BY DEF Between, CallsKnow
  <2> QED
    BY <1>1, <2>1, <2>2, <2>3, <2>4, <2>5, StatusChanges DEF Between
<1> QED
  BY <1>2, <1>3, <1>4
  DEF ApproveCommit, RejectCommit, ExecuteClaim, ExecuteRecord, ExecuteFailRecord,
      CompareAndSet, CompareAndFinish

(* The verdict replaces Executed, and the call goes on to move the incident. *)
LEMMA VerdictStep ==
  ASSUME Inductive, Between, Serial, NEW t \in Callers, VerifyRecord(t)
  PROVE  Between'
<1> DEFINE p == target[t]
<1>1. pc[t] \in {"recovered", "refuted"} /\ UNCHANGED <<state, proposal>>
  BY DEF VerifyRecord
<1>2. p \in Plans /\ status[p] = "Executed"
  BY <1>1, CallsPlan DEF PlanSteps, Between, CallsKnow
<1>3. PICK s \in {"Verified", "Failed"} :
        /\ SetStatus(p, s)
        /\ s = "Verified" => Continue(t, "resolving")
        /\ s = "Failed" => Continue(t, "releasing")
  BY DEF VerifyRecord
<1>4. /\ status'[p] = s /\ target'[t] = p
      /\ pc'[t] \in {"resolving", "releasing"}
      /\ pc'[t] = "resolving" => s = "Verified"
  BY <1>2, <1>3 DEF SetStatus, Continue, Inductive, TypeOK
<1>5. CallsKnow'
  BY <1>4 DEF Serial, CallsKnow
<1> QED
  BY <1>1, <1>2, <1>3, <1>4, <1>5, StatusChanges DEF Between, MovingOn

(* A call's last transition. *)
LEMMA FinishStep ==
  ASSUME Inductive, Between, Serial, NEW t \in Callers,
         ProposeTransition(t) \/ Release(t) \/ ExecuteMonitor(t) \/ VerifyResolve(t)
  PROVE  Between'
<1> DEFINE p == target[t]
<1>1. PICK goal \in {"ActionProposed", "Triaging", "Monitoring", "Resolved"} :
        /\ FinishWithMove(t, goal)
        /\ goal = "ActionProposed" => pc[t] = "proposing"
        /\ goal = "Triaging" => pc[t] = "releasing"
        /\ goal = "Monitoring" => pc[t] = "monitoring"
        /\ goal = "Resolved" => pc[t] = "resolving"
  BY DEF ProposeTransition, Release, ExecuteMonitor, VerifyResolve
<1>2. pc[t] \in {"proposing", "releasing", "monitoring", "resolving"} /\ pc[t] \in PlanSteps
  BY <1>1 DEF PlanSteps
<1>3. p \in PlansOf(IncidentOf(p))
  BY <1>2, CallsPlan, NoProposalAssumption DEF PlansOf
<1>4. /\ goal = "ActionProposed" => HasPlan(IncidentOf(p), {"Previewed", "Approved"})
      /\ goal = "Monitoring" => HasPlan(IncidentOf(p), {"Executed"})
      /\ goal = "Resolved" => HasPlan(IncidentOf(p), {"Verified"})
  BY <1>1, <1>3 DEF Between, CallsKnow, HasPlan
<1>5. pc'[t] = "idle"
  BY <1>1 DEF FinishWithMove, Return, Inductive, TypeOK
<1>6. CallsKnow'
  BY <1>5 DEF Serial, CallsKnow
<1>7. Accounted'
  BY <1>1, <1>2, <1>4, FinishAccounted DEF Between
<1> QED
  BY <1>6, <1>7 DEF Between

(* An incident that is no longer ActionProposed is not released: the plan    *)
(* that was given up is not the one it is waiting for.                       *)
LEMMA ReadStep ==
  ASSUME Inductive, Between, Serial, NEW t \in Callers, ReleaseRead(t)
  PROVE  Between'
<1> DEFINE i == IncidentOf(target[t])
<1>1. /\ pc[t] = "releaseRead" /\ pc'[t] \in {"idle", "releasing"}
      /\ pc'[t] = "idle" => state[i] # "ActionProposed"
      /\ pc'[t] = "releasing" => target'[t] = target[t]
      /\ UNCHANGED <<state, status, proposal>>
  BY DEF ReleaseRead, Continue, Return, Inductive, TypeOK, records
<1>2. CallsKnow'
  BY <1>1 DEF Serial, CallsKnow
<1>3. \A k, statuses : HasPlan(k, statuses)' <=> HasPlan(k, statuses)
  BY <1>1 DEF HasPlan, PlansOf, IncidentOf
<1>4. \A k : ~UnderWay(k, {"resolving", "releasing"})
  BY <1>1 DEF Serial, UnderWay
<1>5. \A k \in Incidents :
        UnderWay(k, {"releaseRead", "releasing"}) /\ state[k] = "ActionProposed" =>
          UnderWay(k, {"releaseRead", "releasing"})'
  BY <1>1 DEF Serial, UnderWay, IncidentOf
<1>6. Accounted'
  BY <1>1, <1>3, <1>4, <1>5 DEF Between, Accounted
<1> QED
  BY <1>2, <1>6 DEF Between

(* The two moves in the middle of an execution. *)
LEMMA ExecutionMoveStep ==
  ASSUME Inductive, Between, Serial, NEW t \in Callers, ExecuteStart(t) \/ ExecuteFailRelease(t)
  PROVE  Between'
<1> DEFINE i == IncidentOf(target[t])
<1>1. pc[t] \in {"starting", "failRelease"} /\ UNCHANGED <<status, proposal>>
  BY DEF ExecuteStart, ExecuteFailRelease
<1>2. i \in Incidents
  BY <1>1, CallsPlan DEF PlanSteps, IncidentOf
<1>3. CASE Return(t) /\ UNCHANGED state
  <2>1. pc'[t] = "idle"
    BY <1>3 DEF Return, Inductive, TypeOK
  <2>2. CallsKnow'
    BY <2>1 DEF Serial, CallsKnow
  <2> QED
    BY <1>1, <1>3, <2>2, RecordsStay DEF Between, MovingOn
<1>4. CASE ~(Return(t) /\ UNCHANGED state)
  <2>1. PICK goal \in {"Executing", "Triaging"} :
          /\ CanMove(state[i], goal) /\ state' = [state EXCEPT ![i] = goal]
          /\ goal = "Executing" => pc[t] = "starting" /\ Continue(t, "claiming")
          /\ goal = "Triaging" => Continue(t, "failRecord")
    BY <1>4 DEF ExecuteStart, ExecuteFailRelease
  <2>2. /\ state'[i] = goal /\ target'[t] = target[t]
        /\ pc'[t] \in {"claiming", "failRecord"}
        /\ pc'[t] = "claiming" => goal = "Executing" /\ pc[t] = "starting"
    BY <1>2, <2>1 DEF Continue, Inductive, TypeOK
  <2>3. CallsKnow'
    BY <1>1, <2>2 DEF Serial, Between, CallsKnow, IncidentOf
  <2>4. Accounted'
    BY <1>1, <1>2, <2>1, IncidentMoves DEF Between, MovingOn
  <2> QED
    BY <2>3, <2>4 DEF Between
<1> QED
  BY <1>3, <1>4

(* The requests that are one transition, from states no plan answers for. *)
LEMMA LifecycleStep ==
  ASSUME Inductive, Between, Serial, NEW t \in Callers, NEW i \in Incidents,
         NEW goal \in PublicTargets \cup {"RCA", "RCAPublished"}, MoveOnly(t, i, goal)
  PROVE  Between'
<1>1. /\ pc[t] = "idle" /\ CanMove(state[i], goal) /\ state' = [state EXCEPT ![i] = goal]
      /\ UNCHANGED <<status, proposal, calls>>
  BY DEF MoveOnly
<1>2. CallsKnow'
  BY <1>1 DEF Serial, CallsKnow, calls
<1>3. Accounted'
  BY <1>1, IncidentMoves DEF Between, MovingOn, PublicTargets
<1> QED
  BY <1>2, <1>3 DEF Between

(* The clock, the deployment, and nothing at all. *)
LEMMA OutsideStep ==
  ASSUME Between, UNCHANGED <<state, status, proposal, calls>>
  PROVE  Between'
BY DEF Between, CallsKnow, Accounted, HasPlan, UnderWay, PlansOf, IncidentOf, calls

LEMMA BetweenStep ==
  ASSUME Inductive, Between, Serial, [Next]_vars
  PROVE  Between'
<1>1. ASSUME NEW t \in Callers, Request(t) PROVE Between'
  <2>1. CASE \E i \in Incidents :
               PublicLifecycle(t, i) \/ DraftPostmortem(t, i) \/ PublishPostmortem(t, i)
    BY <2>1, LifecycleStep DEF PublicLifecycle, DraftPostmortem, PublishPostmortem
  <2> QED
    BY <1>1, <2>1, CallOnlyStep, CompareAndSetStep DEF Request
<1>2. ASSUME NEW t \in Callers, HandlerStep(t) PROVE Between'
  BY <1>2, CallOnlyStep, CreateStep, CompareAndSetStep, VerdictStep, FinishStep, ReadStep,
     ExecutionMoveStep DEF HandlerStep
<1>3. CASE ClusterDrift \/ (\E p \in Plans : Expire(p)) \/ UNCHANGED vars
  BY <1>3, OutsideStep DEF ClusterDrift, Expire, vars, records
<1>4. ~Crash
  BY DEF Serial, Crash
<1> QED
  BY <1>1, <1>2, <1>3, <1>4 DEF Next

(* With calls one at a time, records and calls answer for every incident. *)
THEOREM BetweenAlways ==
  ASSUME Serial
  PROVE  Spec => []Between
<1>1. Init => Between
  BY DEF Init, Between, CallsKnow, Accounted, ClosedStates
<1>2. Inductive /\ Between /\ [Next]_vars => Between'
  BY BetweenStep
<1> QED
  BY <1>1, <1>2, Invariance, PTL DEF Spec

(* Nothing is under way once every call is back. *)
LEMMA QuietFacts ==
  ASSUME Quiet, NEW i, NEW steps, steps \subseteq MovingOn
  PROVE  ~UnderWay(i, steps)
BY DEF Quiet, UnderWay, MovingOn

(* A proposed incident has a plan somebody can decide or execute, whatever   *)
(* expired, was rejected or was overtaken (release of the incident).         *)
THEOREM ProposalDecidableAlways ==
  ASSUME Serial
  PROVE  Spec => []ProposalDecidable
<1>1. Between => ProposalDecidable
  BY QuietFacts DEF Between, Accounted, MovingOn, HasPlan, ProposalDecidable
<1> QED
  BY <1>1, BetweenAlways, PTL

(* A monitored incident has an executed plan to verify (execute, verify). *)
THEOREM MonitoringVerifiableAlways ==
  ASSUME Serial
  PROVE  Spec => []MonitoringVerifiable
<1>1. Between => MonitoringVerifiable
  BY QuietFacts DEF Between, Accounted, MovingOn, HasPlan, MonitoringVerifiable
<1> QED
  BY <1>1, BetweenAlways, PTL

(* A resolved incident, or one in its RCA, has a verified plan (verify). *)
THEOREM ResolvedIsVerifiedAlways ==
  ASSUME Serial
  PROVE  Spec => []ResolvedIsVerified
<1>1. Between => ResolvedIsVerified
  BY DEF Between, Accounted, HasPlan, ResolvedIsVerified
<1> QED
  BY <1>1, BetweenAlways, PTL

================================================================================
