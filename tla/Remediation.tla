------------------------------ MODULE Remediation ------------------------------
(***************************************************************************)
(* The remediation workflow: previews, human approval, execution against   *)
(* the cluster, and recovery verification, run by concurrent request       *)
(* handlers over one SQLite store and one Kubernetes deployment.           *)
(*                                                                         *)
(* A caller is a worker thread serving one request at a time.  One step is *)
(* one store transaction or one Kubernetes call; between two steps of a    *)
(* handler any other caller may run.  Where a step reads and writes in     *)
(* two transactions, the two are merged only when the write's own          *)
(* condition repeats what was read, or when what was read cannot be        *)
(* undone (a deployment version never comes back, an expired plan stays    *)
(* expired).  A comment at the action says so.                             *)
(***************************************************************************)
EXTENDS Naturals, Sequences, Lifecycle, Deployment

CONSTANTS
  Incidents,    (* incident records                                         *)
  Plans,        (* identifiers action plans can get (uuid4)                 *)
  Callers,      (* worker threads of the API server                         *)
  Requests,     (* (action type, replicas) pairs that clients ask for       *)
  InitialSpecs, (* deployment settings a run may start from                 *)
  DriftSpecs,   (* settings somebody else may write to the deployment       *)
  MaxVersion,   (* bound: no drift beyond this many deployment versions     *)
  CanCrash,     (* may the server process die and restart?                  *)
  NoPlan,       (* "this call has no plan yet"                              *)
  NoProposal    (* "no proposal"                                            *)

ASSUME RequestsAssumption == Requests \subseteq ActionRequest
ASSUME SpecsAssumption ==
  /\ InitialSpecs \subseteq DeploymentSpec
  /\ DriftSpecs \subseteq DeploymentSpec
ASSUME CrashAssumption == CanCrash \in BOOLEAN
ASSUME NoPlanAssumption == NoPlan \notin Plans

Proposal ==
  [incident: Incidents, action: Requests, version: Nat]
ASSUME NoProposalAssumption == NoProposal \notin Proposal

VARIABLES
  state,     (* incidents.lifecycle_state                                  *)
  status,    (* action_plans.status; "Absent" before the row is inserted   *)
  proposal,  (* the immutable, fingerprinted proposal of each plan         *)
  approved,  (* plans whose approved_at is set                             *)
  expired,   (* plans whose expires_at has passed                          *)
  cluster,   (* every object the API server stored for the deployment, in
                order: the resourceVersion is the length, the deployment
                is the last element                                        *)
  writes,    (* history: which plan was patched in over which version      *)
  pc,        (* where each caller is                                       *)
  target,    (* the plan a caller's request is about                       *)
  draft      (* the proposal a preview request is building                 *)

records == <<state, status, proposal, approved>>
calls == <<pc, target, draft>>
vars == <<records, expired, cluster, writes, calls>>

PlanStatus ==
  {"Previewed", "Approved", "Executing", "Executed", "Verified", "Rejected",
   "Failed", "Expired", "Stale"}

(* Where a call with a plan can be, and where a preview request can be. *)
PlanSteps ==
  {"proposing", "approving", "rejecting", "releaseRead", "releasing",
   "starting", "claiming", "patching", "recording", "monitoring",
   "failRelease", "failRecord", "recovered", "refuted", "resolving"}
DraftSteps == {"previewing", "creating"}
Steps == {"idle"} \cup DraftSteps \cup PlanSteps

Version == Len(cluster)
Current == cluster[Version]
IncidentOf(p) == proposal[p].incident

TypeOK ==
  /\ state \in [Incidents -> LifecycleState]
  /\ status \in [Plans -> PlanStatus \cup {"Absent"}]
  /\ proposal \in [Plans -> Proposal \cup {NoProposal}]
  /\ approved \subseteq Plans
  /\ expired \subseteq Plans
  /\ cluster \in Seq(DeploymentSpec) /\ cluster # <<>>
  /\ writes \subseteq [plan: Plans, version: Nat]
  /\ pc \in [Callers -> Steps]
  /\ target \in [Callers -> Plans \cup {NoPlan}]
  /\ draft \in [Callers -> Proposal \cup {NoProposal}]

--------------------------------------------------------------------------------
(* Initial state and the steps handlers share.                              *)

Init ==
  /\ state = [i \in Incidents |-> "Received"]
  /\ status = [p \in Plans |-> "Absent"]
  /\ proposal = [p \in Plans |-> NoProposal]
  /\ approved = {}
  /\ expired = {}
  /\ \E s \in InitialSpecs : cluster = <<s>>
  /\ writes = {}
  /\ pc = [t \in Callers |-> "idle"]
  /\ target = [t \in Callers |-> NoPlan]
  /\ draft = [t \in Callers |-> NoProposal]

(* The handler returns or raises; its locals are gone. *)
Return(t) ==
  /\ pc' = [pc EXCEPT ![t] = "idle"]
  /\ target' = [target EXCEPT ![t] = NoPlan]
  /\ draft' = [draft EXCEPT ![t] = NoProposal]

(* An idle caller takes up a request about plan p. *)
Take(t, p, step) ==
  /\ pc[t] = "idle"
  /\ pc' = [pc EXCEPT ![t] = step]
  /\ target' = [target EXCEPT ![t] = p]
  /\ UNCHANGED draft

(* The call goes on with the plan it has. *)
Continue(t, step) ==
  /\ pc' = [pc EXCEPT ![t] = step]
  /\ UNCHANGED <<target, draft>>

SetStatus(p, s) == status' = [status EXCEPT ![p] = s]

(* store.transition in the call's last step: the incident moves when the
   table allows it; otherwise the transition raises and so does the call. *)
FinishWithMove(t, goal) ==
  LET i == IncidentOf(target[t])
  IN  /\ state' = IF CanMove(state[i], goal)
                  THEN [state EXCEPT ![i] = goal]
                  ELSE state
      /\ Return(t)
      /\ UNCHANGED <<status, proposal, approved, expired, cluster, writes>>

(* update_action_plan with an expected status: one compare-and-set; when
   another caller changed the plan first, the call raises. *)
CompareAndSet(t, from, to, next) ==
  /\ \/ /\ status[target[t]] = from
        /\ SetStatus(target[t], to)
        /\ Continue(t, next)
     \/ /\ status[target[t]] # from
        /\ Return(t)
        /\ UNCHANGED status
  /\ UNCHANGED <<state, proposal, approved, expired, cluster, writes>>

(* The same, when a successful update is the call's last step. *)
CompareAndFinish(t, from, to) ==
  /\ Return(t)
  /\ IF status[target[t]] = from THEN SetStatus(target[t], to) ELSE UNCHANGED status
  /\ UNCHANGED <<state, proposal, expired, cluster, writes>>

--------------------------------------------------------------------------------
(* POST /incidents/{id}/actions/preview                                     *)

(* propose reads the incident, which must be in Triaging, and builds a
   well-formed proposal.  Its version is read in the next step. *)
ProposeBegin(t, i, a) ==
  /\ pc[t] = "idle"
  /\ state[i] = "Triaging"
  /\ WellFormed(a)
  /\ pc' = [pc EXCEPT ![t] = "previewing"]
  /\ draft' = [draft EXCEPT ![t] = [incident |-> i, action |-> a, version |-> 0]]
  /\ UNCHANGED <<records, expired, cluster, writes, target>>

(* resource_version and preview: the version read, the preview's own read at
   that same version, its no-change test, and the dry run conditioned on the
   version.  Versions never come back, so a preview that succeeds saw one
   object all along. *)
ProposePreview(t) ==
  /\ pc[t] = "previewing"
  /\ WouldChange(Current, draft[t].action)
  /\ pc' = [pc EXCEPT ![t] = "creating"]
  /\ draft' = [draft EXCEPT ![t].version = Version]
  /\ UNCHANGED <<records, expired, cluster, writes, target>>

(* The preview refuses (no change, target moved), or the API call or the
   insert fails. *)
ProposeRefused(t) ==
  /\ pc[t] \in DraftSteps
  /\ Return(t)
  /\ UNCHANGED <<records, expired, cluster, writes>>

(* create_action_plan under a fresh identifier. *)
ProposeCreate(t, p) ==
  /\ pc[t] = "creating"
  /\ status[p] = "Absent"
  /\ SetStatus(p, "Previewed")
  /\ proposal' = [proposal EXCEPT ![p] = draft[t]]
  /\ pc' = [pc EXCEPT ![t] = "proposing"]
  /\ target' = [target EXCEPT ![t] = p]
  /\ draft' = [draft EXCEPT ![t] = NoProposal]
  /\ UNCHANGED <<state, approved, expired, cluster, writes>>

(* The plan row stays when the incident has left Triaging meanwhile. *)
ProposeTransition(t) ==
  /\ pc[t] = "proposing"
  /\ FinishWithMove(t, "ActionProposed")

--------------------------------------------------------------------------------
(* Expiry, invalidation and the release of the incident they lead to.       *)

(* _expire_if_stale up to its compare-and-set, reached from every read of a
   plan (dashboard, plan list, single plan, verify) and from approve and
   reject.  The check and the update are merged: an expired plan stays
   expired, and the update succeeds only on a plan still Previewed. *)
ExpirePlan(t, p) ==
  /\ status[p] = "Previewed"
  /\ p \in expired
  /\ SetStatus(p, "Expired")
  /\ Take(t, p, "releaseRead")
  /\ UNCHANGED <<state, proposal, approved, expired, cluster, writes>>

(* Variant: a plan already claimed for execution is invalidated too. *)
InvalidateClaimedPlan(t, p) ==
  /\ status[p] \in {"Approved", "Executing"}
  /\ p \in expired \/ proposal[p].version # Version
  /\ SetStatus(p, "Stale")
  /\ Take(t, p, "releaseRead")
  /\ UNCHANGED <<state, proposal, approved, expired, cluster, writes>>

(* execute finds an approved plan expired or its target changed. *)
InvalidatePlan(t, p) ==
  /\ status[p] = "Approved"
  /\ p \in expired \/ proposal[p].version # Version
  /\ SetStatus(p, "Stale")
  /\ Take(t, p, "releaseRead")
  /\ UNCHANGED <<state, proposal, approved, expired, cluster, writes>>

(* The incident is read; only an ActionProposed one is released. *)
ReleaseRead(t) ==
  /\ pc[t] = "releaseRead"
  /\ IF state[IncidentOf(target[t])] = "ActionProposed"
     THEN Continue(t, "releasing")
     ELSE Return(t)
  /\ UNCHANGED <<records, expired, cluster, writes>>

(* The transition back to Triaging.  Release after an expiry, a rejection or
   a failed verification: none of them repeats the check made before it. *)
Release(t) ==
  /\ pc[t] = "releasing"
  /\ FinishWithMove(t, "Triaging")

--------------------------------------------------------------------------------
(* POST /actions/{id}/approve and /reject                                   *)

(* Both read the plan, look at the clock, and read the plan again. *)
DecisionPending(p) == status[p] = "Previewed" /\ p \notin expired

ApproveBegin(t, p) ==
  /\ DecisionPending(p)
  /\ Take(t, p, "approving")
  /\ UNCHANGED <<records, expired, cluster, writes>>

(* One update writes the status and approved_at. *)
ApproveCommit(t) ==
  /\ pc[t] = "approving"
  /\ approved' = IF status[target[t]] = "Previewed"
                 THEN approved \cup {target[t]}
                 ELSE approved
  /\ CompareAndFinish(t, "Previewed", "Approved")

RejectBegin(t, p) ==
  /\ DecisionPending(p)
  /\ Take(t, p, "rejecting")
  /\ UNCHANGED <<records, expired, cluster, writes>>

(* Variant: a rejection does not put the incident back in Triaging. *)
RejectWithoutRelease(t) ==
  /\ pc[t] = "rejecting"
  /\ CompareAndFinish(t, "Previewed", "Rejected")
  /\ UNCHANGED approved

(* The incident is released without a look at its state. *)
RejectCommit(t) ==
  /\ pc[t] = "rejecting"
  /\ CompareAndSet(t, "Previewed", "Rejected", "releasing")

--------------------------------------------------------------------------------
(* POST /actions/{id}/execute                                               *)

(* The plan, then the deployment's version, then the clock.  Version and
   clock are monotone, so the plan that passes at the clock passed them when
   its status was read.  The incident's state is read next; the transition
   in ExecuteStart repeats that test. *)
ExecuteBegin(t, p) ==
  /\ status[p] = "Approved"
  /\ p \in approved
  /\ p \notin expired
  /\ proposal[p].version = Version
  /\ Take(t, p, "starting")
  /\ UNCHANGED <<records, expired, cluster, writes>>

ExecuteStart(t) ==
  /\ pc[t] = "starting"
  /\ LET i == IncidentOf(target[t])
     IN  \/ /\ CanMove(state[i], "Executing")
            /\ state' = [state EXCEPT ![i] = "Executing"]
            /\ Continue(t, "claiming")
         \/ /\ ~CanMove(state[i], "Executing")
            /\ Return(t)
            /\ UNCHANGED state
  /\ UNCHANGED <<status, proposal, approved, expired, cluster, writes>>

(* Variant: the plan is patched without being claimed first. *)
ExecuteWithoutClaim(t) ==
  /\ pc[t] = "claiming"
  /\ Continue(t, "patching")
  /\ UNCHANGED <<records, expired, cluster, writes>>

(* Only now is the plan claimed; the loser leaves the incident Executing. *)
ExecuteClaim(t) ==
  /\ pc[t] = "claiming"
  /\ CompareAndSet(t, "Approved", "Executing", "patching")

(* Variant: the patch does not carry the resourceVersion. *)
PatchAnyVersion(t) ==
  /\ pc[t] = "patching"
  /\ LET p == target[t]
     IN  /\ cluster' = Append(cluster, Patched(Current, proposal[p].action))
         /\ writes' = writes \cup {[plan |-> p, version |-> Version]}
  /\ \E outcome \in {"recording", "failRelease"} : Continue(t, outcome)
  /\ UNCHANGED <<records, expired>>

(* The patch carries the previewed resourceVersion: the API server applies
   it over that version or answers with a conflict.  An answer lost on the
   way (outcome "failRelease") looks like a failure to the handler. *)
ExecutePatch(t) ==
  /\ pc[t] = "patching"
  /\ LET p == target[t]
     IN  /\ proposal[p].version = Version
         /\ cluster' = Append(cluster, Patched(Current, proposal[p].action))
         /\ writes' = writes \cup {[plan |-> p, version |-> Version]}
  /\ \E outcome \in {"recording", "failRelease"} : Continue(t, outcome)
  /\ UNCHANGED <<records, expired>>

(* Variant: the failed patch is swallowed and recorded as executed. *)
PatchFailureSwallowed(t) ==
  /\ pc[t] = "patching"
  /\ Continue(t, "recording")
  /\ UNCHANGED <<records, expired, cluster, writes>>

(* A conflict, or the API server cannot be reached. *)
ExecutePatchFails(t) ==
  /\ pc[t] = "patching"
  /\ Continue(t, "failRelease")
  /\ UNCHANGED <<records, expired, cluster, writes>>

ExecuteRecord(t) ==
  /\ pc[t] = "recording"
  /\ CompareAndSet(t, "Executing", "Executed", "monitoring")

ExecuteMonitor(t) ==
  /\ pc[t] = "monitoring"
  /\ FinishWithMove(t, "Monitoring")

(* Variant: the handler moves the incident and forgets the plan. *)
FailReleaseOnly(t) ==
  /\ pc[t] = "failRelease"
  /\ FinishWithMove(t, "Triaging")

(* The exception handler moves the incident first; when the table refuses,
   that error replaces the first one and the plan is never marked Failed. *)
ExecuteFailRelease(t) ==
  /\ pc[t] = "failRelease"
  /\ LET i == IncidentOf(target[t])
     IN  \/ /\ CanMove(state[i], "Triaging")
            /\ state' = [state EXCEPT ![i] = "Triaging"]
            /\ Continue(t, "failRecord")
         \/ /\ ~CanMove(state[i], "Triaging")
            /\ Return(t)
            /\ UNCHANGED state
  /\ UNCHANGED <<status, proposal, approved, expired, cluster, writes>>

ExecuteFailRecord(t) ==
  /\ pc[t] = "failRecord"
  /\ CompareAndFinish(t, "Executing", "Failed")
  /\ UNCHANGED approved

--------------------------------------------------------------------------------
(* POST /actions/{id}/verify                                                *)

(* Variant: a plan still being executed is verified. *)
VerifyClaimedPlan(t, p) ==
  /\ status[p] \in {"Executing", "Executed"}
  /\ \/ Take(t, p, "recovered")
     \/ /\ proposal[p].action.type = "restore_response_mode"
        /\ Take(t, p, "refuted")
  /\ UNCHANGED <<records, expired, cluster, writes>>

(* The plan is read and the independent verifier gives its verdict.  A
   pending verdict changes no status and is left to module Recovery.  Only
   the 5xx threshold of a restored response mode can refute a recovery. *)
VerifyBegin(t, p) ==
  /\ status[p] = "Executed"
  /\ \/ Take(t, p, "recovered")
     \/ /\ proposal[p].action.type = "restore_response_mode"
        /\ Take(t, p, "refuted")
  /\ UNCHANGED <<records, expired, cluster, writes>>

(* Variant: the lifecycle state is written where the plan status belongs. *)
RecordLifecycleState(t) ==
  /\ pc[t] = "recovered"
  /\ SetStatus(target[t], "Resolved")
  /\ Continue(t, "resolving")
  /\ UNCHANGED <<state, proposal, approved, expired, cluster, writes>>

(* Variant: a failed verification leaves the incident in Monitoring. *)
RefuteWithoutRelease(t) ==
  /\ \/ pc[t] = "recovered" /\ SetStatus(target[t], "Verified") /\ Continue(t, "resolving")
     \/ pc[t] = "refuted" /\ SetStatus(target[t], "Failed") /\ Return(t)
  /\ UNCHANGED <<state, proposal, approved, expired, cluster, writes>>

(* Variant: the incident is resolved and the plan's verdict is not stored. *)
ResolveWithoutVerdict(t) ==
  /\ \/ pc[t] = "recovered" /\ Continue(t, "resolving") /\ UNCHANGED status
     \/ pc[t] = "refuted" /\ SetStatus(target[t], "Failed") /\ Continue(t, "releasing")
  /\ UNCHANGED <<state, proposal, approved, expired, cluster, writes>>

(* update_action_plan without an expected status. *)
VerifyRecord(t) ==
  /\ \/ /\ pc[t] = "recovered"
        /\ SetStatus(target[t], "Verified")
        /\ Continue(t, "resolving")
     \/ /\ pc[t] = "refuted"
        /\ SetStatus(target[t], "Failed")
        /\ Continue(t, "releasing")
  /\ UNCHANGED <<state, proposal, approved, expired, cluster, writes>>

VerifyResolve(t) ==
  /\ pc[t] = "resolving"
  /\ FinishWithMove(t, "Resolved")

--------------------------------------------------------------------------------
(* Requests that are one transaction, and the world around the server.      *)

MoveOnly(t, i, goal) ==
  /\ pc[t] = "idle"
  /\ CanMove(state[i], goal)
  /\ state' = [state EXCEPT ![i] = goal]
  /\ UNCHANGED <<status, proposal, approved, expired, cluster, writes, calls>>

(* POST /incidents/{id}/lifecycle *)
PublicLifecycle(t, i) == \E goal \in PublicTargets : MoveOnly(t, i, goal)

(* POST /incidents/{id}/postmortem/draft and /publish: each reads the
   incident and asks for a transition that repeats the test.  An RCA that
   another open incident with the same key makes the store refuse is left
   to module AlertIngress. *)
DraftPostmortem(t, i) == MoveOnly(t, i, "RCA")
PublishPostmortem(t, i) == MoveOnly(t, i, "RCAPublished")

(* Someone else, or a controller, updates the deployment. *)
ClusterDrift ==
  /\ Version < MaxVersion
  /\ \E s \in DriftSpecs \cup {Current} : cluster' = Append(cluster, s)
  /\ UNCHANGED <<records, expired, writes, calls>>

(* Five minutes pass after a preview. *)
Expire(p) ==
  /\ proposal[p] # NoProposal
  /\ p \notin expired
  /\ expired' = expired \cup {p}
  /\ UNCHANGED <<records, cluster, writes, calls>>

(* The server process dies and restarts: the store survives, calls do not,
   and nothing at startup looks for work left half done. *)
Crash ==
  /\ CanCrash
  /\ \E t \in Callers : pc[t] # "idle"
  /\ pc' = [t \in Callers |-> "idle"]
  /\ target' = [t \in Callers |-> NoPlan]
  /\ draft' = [t \in Callers |-> NoProposal]
  /\ UNCHANGED <<records, expired, cluster, writes>>

--------------------------------------------------------------------------------

Request(t) ==
  \/ \E i \in Incidents, a \in Requests : ProposeBegin(t, i, a)
  \/ \E p \in Plans :
       \/ ExpirePlan(t, p) \/ InvalidatePlan(t, p)
       \/ ApproveBegin(t, p) \/ RejectBegin(t, p)
       \/ ExecuteBegin(t, p) \/ VerifyBegin(t, p)
  \/ \E i \in Incidents :
       \/ PublicLifecycle(t, i)
       \/ DraftPostmortem(t, i) \/ PublishPostmortem(t, i)

HandlerStep(t) ==
  \/ ProposePreview(t) \/ ProposeRefused(t)
  \/ \E p \in Plans : ProposeCreate(t, p)
  \/ ProposeTransition(t)
  \/ ReleaseRead(t) \/ Release(t)
  \/ ApproveCommit(t) \/ RejectCommit(t)
  \/ ExecuteStart(t) \/ ExecuteClaim(t)
  \/ ExecutePatch(t) \/ ExecutePatchFails(t)
  \/ ExecuteRecord(t) \/ ExecuteMonitor(t)
  \/ ExecuteFailRelease(t) \/ ExecuteFailRecord(t)
  \/ VerifyRecord(t) \/ VerifyResolve(t)

Next ==
  \/ \E t \in Callers : Request(t) \/ HandlerStep(t)
  \/ ClusterDrift
  \/ \E p \in Plans : Expire(p)
  \/ Crash

Spec == Init /\ [][Next]_vars

(* A handler that has begun runs to its end: worker threads are scheduled,
   waits for database locks time out, and the API server answers or the
   connection breaks.  Nobody is obliged to send a request, and time need
   not pass. *)
FairSpec == Spec /\ \A t \in Callers : WF_vars(HandlerStep(t))

================================================================================
