------------------------------- MODULE Recovery -------------------------------
(***************************************************************************)
(* Independent recovery verification of one executed plan: the readiness,  *)
(* traffic and restart-stability checks, the observation window the plan   *)
(* carries from one check to the next, and overlapping checks of the plan. *)
(*                                                                         *)
(* A timestamp is kept as its age in ticks.  Ages stop at Horizon, where   *)
(* every window is over, so that time needs no other bound.  The code      *)
(* compares whole seconds rounded down with whole windows, which is the    *)
(* comparison of the exact times.  A rule reads the clock right after the  *)
(* answer it judges: no tick comes between the two.                        *)
(*                                                                         *)
(* A window also keeps a history that no rule reads: whether, since it was *)
(* opened, a pod went away and took restarts out of the sum with it.       *)
(***************************************************************************)
EXTENDS Naturals, Deployment

CONSTANTS
  Callers,         (* worker threads                                        *)
  Actions,         (* action types the executed plan may have               *)
  RestartWindow,   (* restart_stability_window_seconds, in ticks            *)
  ResponseWindow,  (* response_recovery_window_seconds, in ticks            *)
  MaxReplicas,     (* bound on replica counts                               *)
  MaxRestarts      (* bound on the restart count                            *)

ASSUME ActionsAssumption == Actions \subseteq ActionType
ASSUME WindowAssumption ==
  RestartWindow \in Nat \ {0} /\ ResponseWindow \in Nat \ {0}
ASSUME BoundAssumption == MaxReplicas \in Nat /\ MaxRestarts \in Nat

VARIABLES
  action,        (* proposal.action_type                                    *)
  status,        (* status of the plan, which starts Executed               *)
  window,        (* stability_observed_at and stability_restart_count       *)
  sinceExecuted, (* age of the plan's execution                             *)
  ready,         (* deployment.status.ready_replicas                        *)
  desired,       (* deployment.spec.replicas                                *)
  restarts,      (* sum of the restart counts of the pods there are now     *)
  sinceRestart,  (* age of the last container restart                       *)
  errors,        (* is the 5xx recovery rate above its maximum?             *)
  traffic,       (* does the 2xx recovery rate reach its minimum?           *)
  outage,        (* which of Kubernetes and Prometheus cannot be reached    *)
  pc,            (* where each caller is                                    *)
  seen,          (* the plan's window as the caller read it                 *)
  sample,        (* the caller's first metric: is the 5xx rate too high?    *)
  verdict        (* the caller's RecoveryResult                             *)

plan == <<action, status, window, sinceExecuted>>
environment == <<ready, desired, restarts, sinceRestart, errors, traffic, outage>>
calls == <<pc, seen, sample, verdict>>
vars == <<plan, environment, calls>>

Horizon == IF RestartWindow > ResponseWindow THEN RestartWindow ELSE ResponseWindow
Age == 0 .. Horizon

Window == [open: BOOLEAN, age: Age, count: 0 .. MaxRestarts, lost: BOOLEAN]
NoWindow == [open |-> FALSE, age |-> 0, count |-> 0, lost |-> FALSE]
Opened(count) == [open |-> TRUE, age |-> 0, count |-> count, lost |-> FALSE]

Verdict == [kind: {"pending", "recovered", "refuted"}, window: Window]
NoVerdict == [kind |-> "pending", window |-> NoWindow]

TypeOK ==
  /\ action \in ActionType
  /\ status \in {"Executed", "Verified", "Failed"}
  /\ window \in Window
  /\ sinceExecuted \in Age /\ sinceRestart \in Age
  /\ ready \in 0 .. MaxReplicas /\ desired \in 0 .. MaxReplicas
  /\ restarts \in 0 .. MaxRestarts
  /\ errors \in BOOLEAN /\ traffic \in BOOLEAN
  /\ outage \subseteq {"kubernetes", "prometheus"}
  /\ pc \in [Callers -> {"idle", "workload", "errorRate", "successRate", "record"}]
  /\ seen \in [Callers -> Window]
  /\ sample \in [Callers -> BOOLEAN]
  /\ verdict \in [Callers -> Verdict]

Init ==
  /\ action \in Actions
  /\ status = "Executed"
  /\ window = NoWindow
  /\ sinceExecuted = 0
  /\ ready \in 0 .. MaxReplicas /\ desired \in 1 .. MaxReplicas
  /\ restarts = 0
  /\ sinceRestart = 0
  /\ errors = TRUE /\ traffic = FALSE
  /\ outage = {}
  /\ pc = [t \in Callers |-> "idle"]
  /\ seen = [t \in Callers |-> NoWindow]
  /\ sample = [t \in Callers |-> FALSE]
  /\ verdict = [t \in Callers |-> NoVerdict]

--------------------------------------------------------------------------------
(* The verifier's rules.  Each gives the RecoveryResult for the window the  *)
(* plan was read with.                                                      *)

Pending(w) == [kind |-> "pending", window |-> w]
Recovered(w) == [kind |-> "recovered", window |-> w]
Refuted(w) == [kind |-> "refuted", window |-> w]

WorkloadReady == ready >= desired /\ desired >= 1

(* Variant: a poor sample with no window open counts as a finished window. *)
RefuteAtFirstSample(w, keepMonitoring) ==
  IF (w.open /\ w.age < ResponseWindow) \/ keepMonitoring THEN Pending(w) ELSE Refuted(w)

(* _response_observation: the first poor sample opens the window, later ones
   wait for its end; then missing traffic goes on waiting and 5xx fails. *)
ResponseObservation(w, keepMonitoring) ==
  IF ~w.open THEN Pending(Opened(0))
  ELSE IF w.age < ResponseWindow \/ keepMonitoring THEN Pending(w)
  ELSE Refuted(w)

ResponseRule(w, tooManyErrors) ==
  IF tooManyErrors THEN ResponseObservation(w, FALSE)
  ELSE IF ~traffic THEN ResponseObservation(w, TRUE)
  ELSE Recovered(w)

(* Variant: the restart count is not compared with the window's. *)
IgnoreRestartCount(w) ==
  IF ~w.open THEN Pending(Opened(restarts))
  ELSE IF w.age < RestartWindow THEN Pending(w)
  ELSE Recovered(w)

(* Variant: every pending check starts the window over. *)
RestartWindowEachCheck(w) ==
  IF ~w.open \/ w.count # restarts \/ w.age < RestartWindow THEN Pending(Opened(restarts))
  ELSE Recovered(w)

(* _restart_stability: a changed count starts the window over. *)
RestartRule(w) ==
  IF ~w.open \/ w.count # restarts THEN Pending(Opened(restarts))
  ELSE IF w.age < RestartWindow THEN Pending(w)
  ELSE Recovered(w)

--------------------------------------------------------------------------------
(* POST /actions/{id}/verify                                                *)

VerifyBegin(t) ==
  /\ pc[t] = "idle"
  /\ status = "Executed"
  /\ pc' = [pc EXCEPT ![t] = "workload"]
  /\ seen' = [seen EXCEPT ![t] = window]
  /\ UNCHANGED <<plan, environment, sample, verdict>>

Conclude(t, v) ==
  /\ verdict' = [verdict EXCEPT ![t] = v]
  /\ pc' = [pc EXCEPT ![t] = "record"]

(* get_workload_status (the deployment and its pods are read as one), and
   everything the verifier does without another call: a deployment that is
   not ready closes the window. *)
CheckWorkload(t) ==
  /\ pc[t] = "workload"
  /\ "kubernetes" \notin outage
  /\ \/ /\ ~WorkloadReady
        /\ Conclude(t, Pending(NoWindow))
     \/ /\ WorkloadReady
        /\ action = "restore_response_mode"
        /\ pc' = [pc EXCEPT ![t] = "errorRate"]
        /\ UNCHANGED verdict
     \/ /\ WorkloadReady
        /\ action \in {"restore_memory_mode", "restart"}
        /\ Conclude(t, RestartRule(seen[t]))
     \/ /\ WorkloadReady
        /\ action = "scale"
        /\ Conclude(t, Recovered(seen[t]))
  /\ UNCHANGED <<plan, environment, seen, sample>>

(* Two queries, one after the other, then the clock.  An outage met by
   either closes the window. *)
QueryErrorRate(t) ==
  /\ pc[t] = "errorRate"
  /\ \/ /\ "prometheus" \in outage
        /\ Conclude(t, Pending(NoWindow))
        /\ UNCHANGED sample
     \/ /\ "prometheus" \notin outage
        /\ sample' = [sample EXCEPT ![t] = errors]
        /\ pc' = [pc EXCEPT ![t] = "successRate"]
        /\ UNCHANGED verdict
  /\ UNCHANGED <<plan, environment, seen>>

QuerySuccessRate(t) ==
  /\ pc[t] = "successRate"
  /\ Conclude(t, IF "prometheus" \in outage
                 THEN Pending(NoWindow)
                 ELSE ResponseRule(seen[t], sample[t]))
  /\ UNCHANGED <<plan, environment, seen, sample>>

(* Kubernetes cannot be reached: the request fails, the plan is untouched. *)
VerifyUnavailable(t) ==
  /\ pc[t] = "workload"
  /\ "kubernetes" \in outage
  /\ pc' = [pc EXCEPT ![t] = "idle"]
  /\ seen' = [seen EXCEPT ![t] = NoWindow]
  /\ UNCHANGED <<plan, environment, sample, verdict>>

(* Variant: the incident's lifecycle state instead of the plan's status. *)
LifecycleAfter(v) ==
  CASE v.kind = "pending"   -> "Executed"
    [] v.kind = "recovered" -> "Resolved"
    [] v.kind = "refuted"   -> "Failed"

StatusAfter(v) ==
  CASE v.kind = "pending"   -> "Executed"
    [] v.kind = "recovered" -> "Verified"
    [] v.kind = "refuted"   -> "Failed"

(* Variant: a pending result is stored like any other. *)
RecordWhateverFound(t) ==
  /\ pc[t] = "record"
  /\ status' = StatusAfter(verdict[t])
  /\ window' = IF verdict[t].kind = "pending" THEN verdict[t].window ELSE seen[t]
  /\ pc' = [pc EXCEPT ![t] = "idle"]
  /\ seen' = [seen EXCEPT ![t] = NoWindow]
  /\ sample' = [sample EXCEPT ![t] = FALSE]
  /\ verdict' = [verdict EXCEPT ![t] = NoVerdict]
  /\ UNCHANGED <<action, sinceExecuted, environment>>

(* A pending result is stored only while the plan is still Executed; a
   conclusion is stored whatever the plan has become, with the window the
   caller read. *)
Record(t) ==
  /\ pc[t] = "record"
  /\ IF verdict[t].kind # "pending" \/ status = "Executed"
     THEN /\ status' = StatusAfter(verdict[t])
          /\ window' = IF verdict[t].kind = "pending" THEN verdict[t].window ELSE seen[t]
     ELSE UNCHANGED <<status, window>>
  /\ pc' = [pc EXCEPT ![t] = "idle"]
  /\ seen' = [seen EXCEPT ![t] = NoWindow]
  /\ sample' = [sample EXCEPT ![t] = FALSE]
  /\ verdict' = [verdict EXCEPT ![t] = NoVerdict]
  /\ UNCHANGED <<action, sinceExecuted, environment>>

--------------------------------------------------------------------------------
(* Time and the cluster.  What the verifier never reads for the plan's      *)
(* action stays as it is.                                                   *)

CountsRestarts == action \in {"restore_memory_mode", "restart"}
ReadsMetrics == action = "restore_response_mode"

Older(age) == IF age < Horizon THEN age + 1 ELSE age
Aged(w) == IF w.open THEN [w EXCEPT !.age = Older(w.age)] ELSE w

Tick ==
  /\ sinceExecuted' = Older(sinceExecuted)
  /\ sinceRestart' = Older(sinceRestart)
  /\ window' = Aged(window)
  /\ seen' = [t \in Callers |-> Aged(seen[t])]
  /\ verdict' = [t \in Callers |-> [verdict[t] EXCEPT !.window = Aged(@)]]
  /\ UNCHANGED <<action, status, ready, desired, restarts, errors, traffic, outage, pc, sample>>

ContainerRestarts ==
  /\ CountsRestarts
  /\ restarts < MaxRestarts
  /\ restarts' = restarts + 1
  /\ sinceRestart' = 0
  /\ UNCHANGED <<plan, calls, ready, desired, errors, traffic, outage>>

(* A rollout, an eviction or a scale-down replaces pods whenever it gets to
   it; a new pod's count starts at zero.  Pods that never restarted leave the
   sum as it is. *)
Lose(w) == [w EXCEPT !.lost = w.open]

ReplacePods ==
  /\ CountsRestarts
  /\ restarts' \in 0 .. MaxRestarts /\ restarts' < restarts
  /\ window' = Lose(window)
  /\ seen' = [t \in Callers |-> Lose(seen[t])]
  /\ verdict' = [t \in Callers |-> [verdict[t] EXCEPT !.window = Lose(@)]]
  /\ UNCHANGED <<action, status, sinceExecuted, ready, desired, sinceRestart, errors, traffic,
                 outage, pc, sample>>

RolloutProgress ==
  /\ ready' \in 0 .. MaxReplicas
  /\ UNCHANGED <<plan, calls, desired, restarts, sinceRestart, errors, traffic, outage>>

TrafficChanges ==
  /\ ReadsMetrics
  /\ errors' \in BOOLEAN /\ traffic' \in BOOLEAN
  /\ UNCHANGED <<plan, calls, ready, desired, restarts, sinceRestart, outage>>

OutageChanges ==
  /\ outage' \in SUBSET {"kubernetes", "prometheus"}
  /\ "prometheus" \in outage' => ReadsMetrics
  /\ UNCHANGED <<plan, calls, ready, desired, restarts, sinceRestart, errors, traffic>>

HandlerStep(t) ==
  \/ CheckWorkload(t) \/ QueryErrorRate(t) \/ QuerySuccessRate(t)
  \/ VerifyUnavailable(t) \/ Record(t)

Next ==
  \/ \E t \in Callers : VerifyBegin(t) \/ HandlerStep(t)
  \/ Tick \/ ContainerRestarts \/ ReplacePods
  \/ RolloutProgress \/ TrafficChanges \/ OutageChanges

Spec == Init /\ [][Next]_vars

(* Requests in progress are served, time passes, and the engineer goes on
   asking ("Check stability again") until the plan is decided. *)
FairSpec ==
  /\ Spec
  /\ WF_vars(Tick)
  /\ \A t \in Callers : WF_vars(VerifyBegin(t)) /\ WF_vars(HandlerStep(t))

--------------------------------------------------------------------------------

(* A call that has just reached its verdict. *)
Concludes(t, kind) ==
  pc[t] # "record" /\ pc'[t] = "record" /\ verdict'[t].kind = kind

(* "restart count must not increase for 30 seconds" (remediation.py): when  *)
(* a memory or restart action is found recovered, no container has          *)
(* restarted for a whole window, however checks overlapped.                 *)
StableForWindow ==
  [][\A t \in Callers :
       Concludes(t, "recovered") /\ CountsRestarts => sinceRestart >= RestartWindow]_vars

(* What the count can and does show of it (_restart_stability), whatever    *)
(* pods come and go: a memory or restart action found recovered after less  *)
(* than a window without a restart was found so over a window in which a    *)
(* pod took its restarts with it.  Overlapping checks, late answers, and    *)
(* outages never make one up on their own.                                  *)
StableUnlessReplaced ==
  [][\A t \in Callers :
       Concludes(t, "recovered") /\ CountsRestarts
         => sinceRestart >= RestartWindow \/ seen[t].lost]_vars

(* "Give the 15-second post-action traffic window time to settle": only the *)
(* response action can be refuted, on 5xx, and never earlier than a window  *)
(* after the action was executed, whatever earlier checks stored.           *)
RefutedOnlyAfterSettling ==
  [][\A t \in Callers :
       Concludes(t, "refuted")
         => action = "restore_response_mode" /\ sample[t] /\ sinceExecuted >= ResponseWindow]_vars

(* "ready replicas must equal desired replicas" (the verification contract  *)
(* shown before approval), for the one action whose only check it is.       *)
ReadyEqualsDesired ==
  [][\A t \in Callers :
       Concludes(t, "recovered") /\ action = "scale" => ready = desired]_vars

(* A remediation that worked is eventually recognised: outages, rollouts    *)
(* and overlapping checks may reopen the window, but once the deployment    *)
(* stays healthy and its restart count stays put, the window runs out and   *)
(* the plan is decided.                                                     *)
Healthy == WorkloadReady /\ (ReadsMetrics => ~errors /\ traffic) /\ outage = {}
HealthyGetsVerified ==
  \A n \in 0 .. MaxRestarts :
    <>[](Healthy /\ restarts = n) => <>(status = "Verified" \/ status = "Failed")

(* The verifier implements the verdict's contract for its one plan.         *)
DecisionOf(s) ==
  CASE s = "Executed" -> "open"
    [] s = "Verified" -> "verified"
    [] s = "Failed"   -> "failed"

Contract == INSTANCE Verification WITH
              Subjects <- {"plan"}, Checkers <- Callers, Nobody <- "none",
              decision <- [p \in {"plan"} |-> DecisionOf(status)],
              refutable <- {p \in {"plan"} : ReadsMetrics},
              checking <- [t \in Callers |-> IF pc[t] = "idle" THEN "none" ELSE "plan"]

(* A verdict comes from a check begun while the plan was undecided, each    *)
(* check gives one at most, a pending result never takes a verdict back,    *)
(* and only the response action is refuted, whatever overlaps (verify).     *)
ImplementsContract == Contract!VerificationSpec

================================================================================
