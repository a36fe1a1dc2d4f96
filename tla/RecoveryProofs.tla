---------------------------- MODULE RecoveryProofs ----------------------------
(***************************************************************************)
(* Proofs about Recovery, for every window length, every bound and any     *)
(* number of overlapping checks: types, and that neither verdict comes     *)
(* early.  A window is never older than the execution of the plan, and no  *)
(* older than the last restart when its count still is the present one,    *)
(* unless a pod took its restarts with it since the window was opened.     *)
(***************************************************************************)
EXTENDS Recovery, TLAPS

USE WindowAssumption, BoundAssumption

(* Both windows end within the horizon ages are kept to. *)
LEMMA HorizonFacts ==
  Horizon \in Nat /\ RestartWindow <= Horizon /\ ResponseWindow <= Horizon
BY DEF Horizon

(* Time keeps the order of ages. *)
LEMMA OlderFacts ==
  ASSUME NEW a \in Age, NEW b \in Age
  PROVE  /\ Older(a) \in Age
         /\ a <= b => Older(a) <= Older(b)
BY HorizonFacts DEF Age, Older

(* Ageing a window changes its age alone. *)
LEMMA AgedFacts ==
  ASSUME NEW w \in Window
  PROVE  /\ Aged(w) \in Window
         /\ Aged(w).open = w.open /\ Aged(w).count = w.count /\ Aged(w).lost = w.lost
         /\ w.open => Aged(w).age = Older(w.age)
BY OlderFacts DEF Window, Aged

(* The history of an open window, and of it alone, notes a loss. *)
LEMMA LoseFacts ==
  ASSUME NEW w \in Window
  PROVE  /\ Lose(w) \in Window
         /\ Lose(w).open = w.open /\ Lose(w).age = w.age /\ Lose(w).lost = w.open
BY DEF Window, Lose

(* The windows the rules hand out. *)
LEMMA WindowFacts ==
  /\ NoWindow \in Window /\ ~NoWindow.open
  /\ \A count \in 0 .. MaxRestarts :
       /\ Opened(count) \in Window
       /\ Opened(count).age = 0 /\ Opened(count).count = count
  /\ NoVerdict \in Verdict /\ NoVerdict.window = NoWindow
  /\ \A w \in Window : Pending(w) \in Verdict /\ Recovered(w) \in Verdict /\ Refuted(w) \in Verdict
BY HorizonFacts
DEF NoWindow, Window, Age, Opened, NoVerdict, Verdict, Pending, Recovered, Refuted

(* A rule answers the window it was given, a new one over the count there is, *)
(* or none.                                                                   *)
From(w) == {w, NoWindow, Opened(0), Opened(restarts)}

(* The rules' results have their types and come from such a window. *)
LEMMA RuleFacts ==
  ASSUME TypeOK, NEW w \in Window, NEW tooMany \in BOOLEAN
  PROVE  /\ ResponseRule(w, tooMany) \in Verdict /\ ResponseRule(w, tooMany).window \in From(w)
         /\ RestartRule(w) \in Verdict /\ RestartRule(w).window \in From(w)
<1>1. 0 \in 0 .. MaxRestarts /\ restarts \in 0 .. MaxRestarts
  BY DEF TypeOK
<1> QED
  BY <1>1, WindowFacts
  DEF ResponseRule, ResponseObservation, RestartRule, From, Pending, Recovered, Refuted

(* The step that reaches a verdict. *)
LEMMA ConcludesFacts ==
  ASSUME TypeOK, NEW t \in Callers, NEW v, v \in Verdict, Conclude(t, v)
  PROVE  /\ verdict' \in [Callers -> Verdict] /\ verdict'[t] = v /\ pc'[t] = "record"
         /\ \A u \in Callers \ {t} : verdict'[u] = verdict[u] /\ pc'[u] = pc[u]
         /\ pc' \in [Callers -> {"idle", "workload", "errorRate", "successRate", "record"}]
BY DEF TypeOK, Conclude

(* The types of a plan that has just been executed. *)
LEMMA TypeInit == Init => TypeOK
<1> SUFFICES ASSUME Init PROVE TypeOK
  OBVIOUS
<1>1. 0 \in Age /\ 0 \in 0 .. MaxRestarts
  BY HorizonFacts DEF Age
<1>2. action \in ActionType
  BY ActionsAssumption DEF Init
<1>3. ready \in 0 .. MaxReplicas /\ desired \in 0 .. MaxReplicas
  BY DEF Init
<1>4. /\ pc \in [Callers -> {"idle", "workload", "errorRate", "successRate", "record"}]
      /\ seen \in [Callers -> Window] /\ sample \in [Callers -> BOOLEAN]
      /\ verdict \in [Callers -> Verdict]
  BY WindowFacts DEF Init
<1> QED
  BY <1>1, <1>2, <1>3, <1>4, WindowFacts DEF Init, TypeOK

(* Every step keeps the types. *)
LEMMA TypeStep ==
  ASSUME TypeOK, [Next]_vars
  PROVE  TypeOK'
<1> USE DEF plan, environment, calls
<1>1. ASSUME NEW t \in Callers, VerifyBegin(t) PROVE TypeOK'
  BY <1>1 DEF VerifyBegin, TypeOK
<1>2. ASSUME NEW t \in Callers, CheckWorkload(t) PROVE TypeOK'
  <2>1. seen[t] \in Window
    BY DEF TypeOK
  <2>2. CASE ~WorkloadReady /\ Conclude(t, Pending(NoWindow))
    BY <1>2, <2>2, WindowFacts, ConcludesFacts DEF CheckWorkload, TypeOK
  <2>3. CASE pc' = [pc EXCEPT ![t] = "errorRate"] /\ UNCHANGED verdict
    BY <1>2, <2>3 DEF CheckWorkload, TypeOK
  <2>4. CASE Conclude(t, RestartRule(seen[t]))
    BY <1>2, <2>1, <2>4, RuleFacts, ConcludesFacts DEF CheckWorkload, TypeOK
  <2>5. CASE Conclude(t, Recovered(seen[t]))
    BY <1>2, <2>1, <2>5, WindowFacts, ConcludesFacts DEF CheckWorkload, TypeOK
  <2> QED
    BY <1>2, <2>2, <2>3, <2>4, <2>5 DEF CheckWorkload
<1>3. ASSUME NEW t \in Callers, QueryErrorRate(t) PROVE TypeOK'
  <2>1. CASE Conclude(t, Pending(NoWindow)) /\ UNCHANGED sample
    BY <1>3, <2>1, WindowFacts, ConcludesFacts DEF QueryErrorRate, TypeOK
  <2>2. CASE /\ sample' = [sample EXCEPT ![t] = errors]
             /\ pc' = [pc EXCEPT ![t] = "successRate"]
             /\ UNCHANGED verdict
    BY <1>3, <2>2 DEF QueryErrorRate, TypeOK
  <2> QED
    BY <1>3, <2>1, <2>2 DEF QueryErrorRate
<1>4. ASSUME NEW t \in Callers, QuerySuccessRate(t) PROVE TypeOK'
  <2>1. seen[t] \in Window /\ sample[t] \in BOOLEAN
    BY DEF TypeOK
  <2>2. PICK v \in Verdict : Conclude(t, v)
    BY <1>4, <2>1, WindowFacts, RuleFacts DEF QuerySuccessRate
  <2> QED
    BY <1>4, <2>2, ConcludesFacts DEF QuerySuccessRate, TypeOK
<1>5. ASSUME NEW t \in Callers, VerifyUnavailable(t) PROVE TypeOK'
  BY <1>5, WindowFacts DEF VerifyUnavailable, TypeOK
<1>6. ASSUME NEW t \in Callers, Record(t) PROVE TypeOK'
  <2>1. verdict[t] \in Verdict /\ seen[t] \in Window
    BY DEF TypeOK
  <2>2. StatusAfter(verdict[t]) \in {"Executed", "Verified", "Failed"} /\ verdict[t].window \in Window
    BY <2>1 DEF Verdict, StatusAfter
  <2>3. status' \in {"Executed", "Verified", "Failed"} /\ window' \in Window
    BY <1>6, <2>1, <2>2 DEF Record, TypeOK
  <2> QED
    BY <1>6, <2>3, WindowFacts DEF Record, TypeOK
<1>7. CASE Tick
  <2>1. window' \in Window /\ sinceExecuted' \in Age /\ sinceRestart' \in Age
    BY <1>7, AgedFacts, OlderFacts DEF Tick, TypeOK
  <2>2. seen' \in [Callers -> Window]
    BY <1>7, AgedFacts DEF Tick, TypeOK
  <2>3. \A v \in Verdict : [v EXCEPT !.window = Aged(@)] \in Verdict
    BY AgedFacts DEF Verdict
  <2>4. verdict' \in [Callers -> Verdict]
    BY <1>7, <2>3 DEF Tick, TypeOK
  <2> QED
    BY <1>7, <2>1, <2>2, <2>4 DEF Tick, TypeOK
<1>8. CASE ContainerRestarts
  BY <1>8, HorizonFacts DEF ContainerRestarts, TypeOK, Age
<1>9. CASE ReplacePods
  <2>1. window' \in Window /\ seen' \in [Callers -> Window]
    BY <1>9, LoseFacts DEF ReplacePods, TypeOK
  <2>2. \A v \in Verdict : [v EXCEPT !.window = Lose(@)] \in Verdict
    BY LoseFacts DEF Verdict
  <2>3. verdict' \in [Callers -> Verdict]
    BY <1>9, <2>2 DEF ReplacePods, TypeOK
  <2> QED
    BY <1>9, <2>1, <2>3 DEF ReplacePods, TypeOK
<1>10. CASE RolloutProgress \/ TrafficChanges \/ OutageChanges
  BY <1>10 DEF RolloutProgress, TrafficChanges, OutageChanges, TypeOK
<1>11. CASE UNCHANGED vars
  BY <1>11 DEF vars, TypeOK
<1> QED
  BY <1>1, <1>2, <1>3, <1>4, <1>5, <1>6, <1>7, <1>8, <1>9, <1>10, <1>11 DEF Next, HandlerStep

(* The plan, its windows and what the checks hold are within their types. *)
THEOREM TypeCorrect == Spec => []TypeOK
<1>1. Init => TypeOK
  BY TypeInit
<1>2. TypeOK /\ [Next]_vars => TypeOK'
  BY TypeStep
<1> QED
  BY <1>1, <1>2, PTL DEF Spec

--------------------------------------------------------------------------------
(* The inductive invariant: what an open window says is true, wherever it    *)
(* is kept: in the plan, in what a check has read, in what it will store.    *)

Settled(w) == w.age <= sinceExecuted

Watched(w) == w.count <= restarts /\ (w.count = restarts => w.age <= sinceRestart)

Sound(w) == w.open => Settled(w) /\ (w.lost \/ Watched(w))

WindowsSound ==
  Sound(window) /\ \A t \in Callers : Sound(seen[t]) /\ Sound(verdict[t].window)

(* A call holds a window and a verdict only where it has got to, and reads   *)
(* metrics for the response action only.                                     *)
CallsKeep ==
  \A t \in Callers :
    /\ pc[t] = "idle" => seen[t] = NoWindow
    /\ pc[t] # "record" => verdict[t] = NoVerdict
    /\ pc[t] \in {"errorRate", "successRate"} => action = "restore_response_mode"

IInv == TypeOK /\ WindowsSound /\ CallsKeep

(* A rule's window is as sound as the one it was given. *)
LEMMA RulesSound ==
  ASSUME TypeOK, NEW w \in Window, Sound(w), NEW x \in From(w)
  PROVE  Sound(x)
<1>1. 0 \in 0 .. MaxRestarts /\ restarts \in 0 .. MaxRestarts /\ sinceExecuted \in Age
      /\ sinceRestart \in Age
  BY DEF TypeOK
<1>2. Sound(NoWindow)
  BY WindowFacts DEF Sound
<1>3. ASSUME NEW c \in {0, restarts}
      PROVE  Sound(Opened(c))
  <2>1. Opened(c).age = 0 /\ Opened(c).count = c
    BY <1>1, <1>3, WindowFacts
  <2> QED
    BY <1>1, <2>1 DEF Sound, Settled, Watched, Age
<1> QED
  BY <1>2, <1>3 DEF From

(* The clock and the cluster are left alone by the checks. *)
LEMMA SameSound ==
  ASSUME UNCHANGED <<restarts, sinceExecuted, sinceRestart>>
  PROVE  \A w : Sound(w) => Sound(w)'
BY DEF Sound, Settled, Watched

(* A check that reaches a verdict over a sound window. *)
LEMMA ConcludeStep ==
  ASSUME IInv, NEW t \in Callers, NEW v \in Verdict, Conclude(t, v), Sound(v.window),
         UNCHANGED <<plan, environment, seen>>
  PROVE  WindowsSound' /\ CallsKeep'
<1>1. /\ verdict'[t] = v /\ pc'[t] = "record"
      /\ \A u \in Callers \ {t} : verdict'[u] = verdict[u] /\ pc'[u] = pc[u]
  BY ConcludesFacts DEF IInv
<1>2. WindowsSound'
  BY <1>1 DEF IInv, WindowsSound, Sound, Settled, Watched, plan, environment
<1>3. CallsKeep'
  BY <1>1 DEF IInv, CallsKeep, plan
<1> QED
  BY <1>2, <1>3

(* The steps that judge, which all hand out windows a rule may give. *)
LEMMA CheckStep ==
  ASSUME IInv, NEW t \in Callers,
         CheckWorkload(t) \/ QueryErrorRate(t) \/ QuerySuccessRate(t)
  PROVE  WindowsSound' /\ CallsKeep'
<1>1. /\ UNCHANGED <<plan, environment, seen>>
      /\ seen[t] \in Window /\ Sound(seen[t]) /\ sample[t] \in BOOLEAN
  BY DEF CheckWorkload, QueryErrorRate, QuerySuccessRate, IInv, TypeOK, WindowsSound
<1>2. ASSUME NEW v \in Verdict, v.window \in From(seen[t]), Conclude(t, v)
      PROVE  WindowsSound' /\ CallsKeep'
  BY <1>1, <1>2, RulesSound, ConcludeStep DEF IInv
<1>3. \A w \in Window : Pending(w).window = w /\ Recovered(w).window = w
  BY DEF Pending, Recovered
<1>4. ASSUME NEW step \in {"errorRate", "successRate"}, pc' = [pc EXCEPT ![t] = step],
             action = "restore_response_mode", UNCHANGED verdict, pc[t] # "record"
      PROVE  WindowsSound' /\ CallsKeep'
  BY <1>1, <1>4 DEF IInv, TypeOK, WindowsSound, CallsKeep, Sound, Settled, Watched, plan,
                    environment
<1>5. NoWindow \in From(seen[t]) /\ seen[t] \in From(seen[t])
  BY DEF From
<1>6. CASE CheckWorkload(t)
  <2>1. CASE Conclude(t, Pending(NoWindow))
    BY <1>2, <1>3, <1>5, <2>1, WindowFacts
  <2>2. CASE action = "restore_response_mode" /\ pc' = [pc EXCEPT ![t] = "errorRate"]
             /\ UNCHANGED verdict
    BY <1>4, <1>6, <2>2 DEF CheckWorkload
  <2>3. CASE Conclude(t, RestartRule(seen[t]))
    BY <1>1, <1>2, <2>3, RuleFacts DEF IInv
  <2>4. CASE Conclude(t, Recovered(seen[t]))
    BY <1>1, <1>2, <1>3, <1>5, <2>4, WindowFacts
  <2> QED
    BY <1>6, <2>1, <2>2, <2>3, <2>4 DEF CheckWorkload
<1>7. CASE QueryErrorRate(t)
  <2>1. CASE Conclude(t, Pending(NoWindow))
    BY <1>2, <1>3, <1>5, <2>1, WindowFacts
  <2>2. CASE pc' = [pc EXCEPT ![t] = "successRate"] /\ UNCHANGED verdict
    BY <1>4, <1>7, <2>2 DEF QueryErrorRate, IInv, CallsKeep
  <2> QED
    BY <1>7, <2>1, <2>2 DEF QueryErrorRate
<1>8. CASE QuerySuccessRate(t)
  <2>1. CASE Conclude(t, Pending(NoWindow))
    BY <1>2, <1>3, <1>5, <2>1, WindowFacts
  <2>2. CASE Conclude(t, ResponseRule(seen[t], sample[t]))
    BY <1>1, <1>2, <2>2, RuleFacts DEF IInv
  <2> QED
    BY <1>8, <2>1, <2>2 DEF QuerySuccessRate
<1> QED
  BY <1>6, <1>7, <1>8

(* Time ages every window and both clocks alike. *)
LEMMA TickStep ==
  ASSUME IInv, Tick
  PROVE  WindowsSound' /\ CallsKeep'
<1>1. ASSUME NEW w \in Window, Sound(w)
      PROVE  Aged(w).open =>
               /\ Aged(w).age <= sinceExecuted'
               /\ \/ Aged(w).lost
                  \/ /\ Aged(w).count <= restarts'
                     /\ Aged(w).count = restarts' => Aged(w).age <= sinceRestart'
  <2>1. sinceExecuted \in Age /\ sinceRestart \in Age /\ w.age \in Age
    BY DEF IInv, TypeOK, Window
  <2>2. /\ sinceExecuted' = Older(sinceExecuted) /\ sinceRestart' = Older(sinceRestart)
        /\ UNCHANGED restarts
    BY DEF Tick
  <2>3. /\ w.age <= sinceExecuted => Older(w.age) <= sinceExecuted'
        /\ w.age <= sinceRestart => Older(w.age) <= sinceRestart'
    BY <2>1, <2>2, OlderFacts
  <2>4. /\ Aged(w).open = w.open /\ Aged(w).count = w.count /\ Aged(w).lost = w.lost
        /\ w.open => Aged(w).age = Older(w.age)
    BY AgedFacts
  <2> QED
    BY <1>1, <2>2, <2>3, <2>4 DEF Sound, Settled, Watched
<1>2. /\ window' = Aged(window)
      /\ \A t \in Callers :
           /\ seen'[t] = Aged(seen[t])
           /\ verdict'[t] = [verdict[t] EXCEPT !.window = Aged(@)]
           /\ pc'[t] = pc[t]
      /\ UNCHANGED action
  BY DEF IInv, TypeOK, Tick
<1>3. \A v \in Verdict : [v EXCEPT !.window = Aged(@)].window = Aged(v.window) /\ v.window \in Window
  BY DEF Verdict
<1>4. WindowsSound'
  <2>1. Sound(window)'
    BY <1>1, <1>2 DEF IInv, TypeOK, WindowsSound, Sound, Settled, Watched
  <2>2. ASSUME NEW t \in Callers
        PROVE  Sound(seen[t])' /\ Sound(verdict[t].window)'
    <3>1. /\ seen[t] \in Window /\ Sound(seen[t])
          /\ verdict[t] \in Verdict /\ Sound(verdict[t].window)
      BY DEF IInv, TypeOK, WindowsSound
    <3>2. /\ seen'[t] = Aged(seen[t])
          /\ verdict'[t].window = Aged(verdict[t].window) /\ verdict[t].window \in Window
      BY <1>2, <1>3, <3>1
    <3> QED
      BY <1>1, <3>1, <3>2 DEF Sound, Settled, Watched
  <2> QED
    BY <2>1, <2>2 DEF WindowsSound
<1>5. Aged(NoWindow) = NoWindow /\ [NoVerdict EXCEPT !.window = Aged(@)] = NoVerdict
  BY DEF Aged, NoWindow, NoVerdict
<1>6. CallsKeep'
  BY <1>2, <1>5 DEF IInv, CallsKeep
<1> QED
  BY <1>4, <1>6

(* Pods that go are noted in every open window. *)
LEMMA ReplaceStep ==
  ASSUME IInv, ReplacePods
  PROVE  WindowsSound' /\ CallsKeep'
<1>1. /\ window' = Lose(window)
      /\ \A t \in Callers :
           /\ seen'[t] = Lose(seen[t])
           /\ verdict'[t] = [verdict[t] EXCEPT !.window = Lose(@)]
      /\ UNCHANGED <<action, pc, sinceExecuted>>
  BY DEF IInv, TypeOK, ReplacePods
<1>2. \A v \in Verdict :
        [v EXCEPT !.window = Lose(@)].window = Lose(v.window) /\ v.window \in Window
  BY DEF Verdict
<1>3. WindowsSound'
  <2>1. Sound(window)'
    BY <1>1, LoseFacts DEF IInv, TypeOK, WindowsSound, Sound, Settled
  <2>2. ASSUME NEW t \in Callers
        PROVE  Sound(seen[t])' /\ Sound(verdict[t].window)'
    <3>1. /\ seen[t] \in Window /\ Sound(seen[t])
          /\ verdict[t] \in Verdict /\ Sound(verdict[t].window)
      BY DEF IInv, TypeOK, WindowsSound
    <3>2. /\ seen'[t] = Lose(seen[t])
          /\ verdict'[t].window = Lose(verdict[t].window) /\ verdict[t].window \in Window
      BY <1>1, <1>2, <3>1
    <3> QED
      BY <1>1, <3>1, <3>2, LoseFacts DEF Sound, Settled
  <2> QED
    BY <2>1, <2>2 DEF WindowsSound
<1>4. Lose(NoWindow) = NoWindow
  <2>1. Lose(NoWindow) = [NoWindow EXCEPT !.lost = FALSE]
    BY WindowFacts DEF Lose, NoWindow
  <2> QED
    BY <2>1 DEF NoWindow
<1>5. [NoVerdict EXCEPT !.window = Lose(@)] = NoVerdict
  BY <1>4 DEF NoVerdict
<1>6. CallsKeep'
  BY <1>1, <1>4, <1>5 DEF IInv, CallsKeep
<1> QED
  BY <1>3, <1>6

(* No window is open and no call is under way at the start. *)
LEMMA IInvInit == Init => IInv
<1>1. Init => WindowsSound /\ CallsKeep
  BY WindowFacts DEF Init, WindowsSound, CallsKeep, Sound
<1> QED
  BY <1>1, TypeInit DEF IInv

(* Every step keeps the windows sound. *)
LEMMA IInvStep ==
  ASSUME IInv, [Next]_vars
  PROVE  IInv'
<1> USE DEF plan, environment, calls
<1>1. TypeOK'
  BY TypeStep DEF IInv
<1>2. ASSUME NEW t \in Callers, VerifyBegin(t) PROVE WindowsSound' /\ CallsKeep'
  BY <1>2 DEF VerifyBegin, IInv, TypeOK, WindowsSound, CallsKeep, Sound, Settled, Watched
<1>3. ASSUME NEW t \in Callers, VerifyUnavailable(t) PROVE WindowsSound' /\ CallsKeep'
  BY <1>3, WindowFacts
  DEF VerifyUnavailable, IInv, TypeOK, WindowsSound, CallsKeep, Sound, Settled, Watched
<1>4. ASSUME NEW t \in Callers, Record(t) PROVE WindowsSound' /\ CallsKeep'
  <2>1. window' \in {window, verdict[t].window, seen[t]}
    BY <1>4 DEF Record
  <2>2. /\ pc'[t] = "idle" /\ seen'[t] = NoWindow /\ verdict'[t] = NoVerdict
        /\ \A u \in Callers \ {t} :
             pc'[u] = pc[u] /\ seen'[u] = seen[u] /\ verdict'[u] = verdict[u]
        /\ UNCHANGED <<action, restarts, sinceExecuted, sinceRestart>>
    BY <1>4 DEF Record, IInv, TypeOK
  <2>3. WindowsSound'
    BY <2>1, <2>2, WindowFacts DEF IInv, WindowsSound, Sound, Settled, Watched
  <2>4. CallsKeep'
    BY <2>2 DEF IInv, CallsKeep
  <2> QED
    BY <2>3, <2>4
<1>5. ASSUME ContainerRestarts PROVE WindowsSound' /\ CallsKeep'
  <2>1. /\ restarts' = restarts + 1 /\ restarts \in Nat
        /\ UNCHANGED <<window, seen, verdict, sinceExecuted>>
    BY <1>5 DEF ContainerRestarts, IInv, TypeOK
  <2>2. WindowsSound'
    <3>1. ASSUME NEW w \in Window, Sound(w)
          PROVE  w.open => /\ w.age <= sinceExecuted
                           /\ w.lost \/ (w.count < restarts' /\ w.count # restarts')
      BY <2>1, <3>1 DEF Window, Sound, Settled, Watched
    <3>2. Sound(window)'
      BY <2>1, <3>1 DEF IInv, TypeOK, WindowsSound, Sound, Settled, Watched, Window
    <3>3. ASSUME NEW t \in Callers
          PROVE  Sound(seen[t])' /\ Sound(verdict[t].window)'
      <4>1. /\ seen[t] \in Window /\ Sound(seen[t])
            /\ verdict[t].window \in Window /\ Sound(verdict[t].window)
        BY DEF IInv, TypeOK, WindowsSound, Verdict
      <4> QED
        BY <2>1, <3>1, <4>1 DEF Sound, Settled, Watched, Window
    <3> QED
      BY <3>2, <3>3 DEF WindowsSound
  <2>3. CallsKeep'
    BY <1>5 DEF ContainerRestarts, IInv, CallsKeep
  <2> QED
    BY <2>2, <2>3
<1>6. ASSUME ReplacePods PROVE WindowsSound' /\ CallsKeep'
  BY <1>6, ReplaceStep
<1>7. ASSUME UNCHANGED <<plan, calls, restarts, sinceRestart>>
      PROVE  WindowsSound' /\ CallsKeep'
  BY <1>7 DEF IInv, WindowsSound, CallsKeep, Sound, Settled, Watched
<1>8. ASSUME RolloutProgress \/ TrafficChanges \/ OutageChanges \/ UNCHANGED vars
      PROVE  WindowsSound' /\ CallsKeep'
  BY <1>7, <1>8 DEF RolloutProgress, TrafficChanges, OutageChanges, vars
<1> QED
  BY <1>1, <1>2, <1>3, <1>4, <1>5, <1>6, <1>8, CheckStep, TickStep DEF Next, HandlerStep, IInv

(* The invariant holds of every behaviour. *)
THEOREM Invariance == Spec => []IInv
<1>1. Init => IInv
  BY IInvInit
<1>2. IInv /\ [Next]_vars => IInv'
  BY IInvStep
<1> QED
  BY <1>1, <1>2, PTL DEF Spec

--------------------------------------------------------------------------------
(* The verdicts.                                                             *)

(* Only a step of the call itself takes it to its verdict. *)
LEMMA OwnStep ==
  ASSUME TypeOK, Next, NEW t \in Callers, pc[t] # "record", pc'[t] = "record"
  PROVE  CheckWorkload(t) \/ QueryErrorRate(t) \/ QuerySuccessRate(t)
<1> USE DEF TypeOK
<1>1. ASSUME NEW u \in Callers, VerifyBegin(u) \/ VerifyUnavailable(u) \/ Record(u)
      PROVE  FALSE
  BY <1>1 DEF VerifyBegin, VerifyUnavailable, Record
<1>2. ASSUME NEW u \in Callers, u # t, CheckWorkload(u) \/ QueryErrorRate(u) \/ QuerySuccessRate(u)
      PROVE  FALSE
  BY <1>2 DEF CheckWorkload, QueryErrorRate, QuerySuccessRate, Conclude
<1>3. ~(Tick \/ ContainerRestarts \/ ReplacePods \/ RolloutProgress \/ TrafficChanges \/ OutageChanges)
  BY DEF Tick, ContainerRestarts, ReplacePods, RolloutProgress, TrafficChanges, OutageChanges, calls
<1> QED
  BY <1>1, <1>2, <1>3 DEF Next, HandlerStep

(* The verdict of a check is what its last step concludes. *)
LEMMA VerdictOf ==
  ASSUME TypeOK, NEW t \in Callers, pc[t] # "record", pc'[t] = "record",
         CheckWorkload(t) \/ QueryErrorRate(t) \/ QuerySuccessRate(t)
  PROVE  \/ verdict'[t].kind = "pending"
         \/ /\ action \in {"restore_memory_mode", "restart"}
            /\ verdict'[t] = RestartRule(seen[t])
         \/ /\ action = "scale" /\ verdict'[t].kind = "recovered"
         \/ /\ pc[t] = "successRate"
            /\ verdict'[t] = ResponseRule(seen[t], sample[t])
<1>1. \A v : Conclude(t, v) => verdict'[t] = v
  BY DEF Conclude, TypeOK
<1>2. Pending(NoWindow).kind = "pending" /\ \A w : Recovered(w).kind = "recovered"
  BY DEF Pending, Recovered
<1>3. CASE CheckWorkload(t)
  <2>1. CASE pc' = [pc EXCEPT ![t] = "errorRate"]
    BY <2>1 DEF TypeOK
  <2> QED
    BY <1>1, <1>2, <1>3, <2>1 DEF CheckWorkload
<1>4. CASE QueryErrorRate(t)
  <2>1. CASE pc' = [pc EXCEPT ![t] = "successRate"]
    BY <2>1 DEF TypeOK
  <2> QED
    BY <1>1, <1>2, <1>4, <2>1 DEF QueryErrorRate
<1>5. CASE QuerySuccessRate(t)
  BY <1>1, <1>2, <1>5 DEF QuerySuccessRate
<1> QED
  BY <1>3, <1>4, <1>5

(* When each rule concludes. *)
LEMMA RuleKinds ==
  ASSUME NEW w \in Window, NEW tooMany \in BOOLEAN
  PROVE  /\ RestartRule(w).kind # "refuted"
         /\ RestartRule(w).kind = "recovered" =>
              w.open /\ w.count = restarts /\ w.age >= RestartWindow
         /\ ResponseRule(w, tooMany).kind = "refuted" =>
              tooMany /\ w.open /\ w.age >= ResponseWindow
BY DEF RestartRule, ResponseRule, ResponseObservation, Pending, Recovered, Refuted, Window, Age

(* Nothing is given up on before its traffic had a whole window to settle,   *)
(* whatever overlapping checks stored and however often windows were opened. *)
THEOREM RefutedInTime == Spec => RefutedOnlyAfterSettling
<1>1. ASSUME IInv, Next, NEW t \in Callers, Concludes(t, "refuted")
      PROVE  action = "restore_response_mode" /\ sample[t] /\ sinceExecuted >= ResponseWindow
  <2>1. pc[t] # "record" /\ pc'[t] = "record" /\ verdict'[t].kind = "refuted"
    BY <1>1 DEF Concludes
  <2>2. seen[t] \in Window /\ sample[t] \in BOOLEAN /\ Sound(seen[t]) /\ sinceExecuted \in Age
    BY <1>1 DEF IInv, TypeOK, WindowsSound
  <2>3. pc[t] = "successRate" /\ ResponseRule(seen[t], sample[t]).kind = "refuted"
    BY <1>1, <2>1, <2>2, OwnStep, VerdictOf, RuleKinds DEF IInv
  <2>4. sample[t] /\ seen[t].open /\ seen[t].age >= ResponseWindow
    BY <2>2, <2>3, RuleKinds
  <2>5. seen[t].age <= sinceExecuted /\ seen[t].age \in Age
    BY <2>2, <2>4 DEF Sound, Settled, Window
  <2> QED
    BY <1>1, <2>2, <2>3, <2>4, <2>5, HorizonFacts DEF IInv, CallsKeep, Age
<1>2. IInv /\ [Next]_vars =>
        [\A t \in Callers :
           Concludes(t, "refuted")
             => action = "restore_response_mode" /\ sample[t] /\ sinceExecuted >= ResponseWindow]_vars
  BY <1>1
<1> QED
  BY <1>2, Invariance, PTL DEF Spec, RefutedOnlyAfterSettling

(* A memory or restart action is found recovered only after a whole window   *)
(* without a restart, or over a window in which a pod took its restarts with *)
(* it: whatever overlapping checks stored and whenever pods come and go.     *)
THEOREM StableInTime == Spec => StableUnlessReplaced
<1>1. ASSUME IInv, Next, NEW t \in Callers, Concludes(t, "recovered"), CountsRestarts
      PROVE  sinceRestart >= RestartWindow \/ seen[t].lost
  <2>1. pc[t] # "record" /\ pc'[t] = "record" /\ verdict'[t].kind = "recovered"
    BY <1>1 DEF Concludes
  <2>2. seen[t] \in Window /\ Sound(seen[t]) /\ sinceRestart \in Age
    BY <1>1 DEF IInv, TypeOK, WindowsSound
  <2>3. pc[t] # "successRate" /\ action # "scale"
    BY <1>1 DEF IInv, CallsKeep, CountsRestarts
  <2>4. RestartRule(seen[t]).kind = "recovered"
    BY <1>1, <2>1, <2>3, OwnStep, VerdictOf DEF IInv
  <2>5. seen[t].open /\ seen[t].count = restarts /\ seen[t].age >= RestartWindow
    BY <2>2, <2>4, RuleKinds
  <2>6. (seen[t].lost \/ seen[t].age <= sinceRestart) /\ seen[t].age \in Age
    BY <2>2, <2>5 DEF Sound, Watched, Window
  <2> QED
    BY <2>2, <2>5, <2>6, HorizonFacts DEF Age
<1>2. IInv /\ [Next]_vars =>
        [\A t \in Callers :
           Concludes(t, "recovered") /\ CountsRestarts
             => sinceRestart >= RestartWindow \/ seen[t].lost]_vars
  BY <1>1
<1> QED
  BY <1>2, Invariance, PTL DEF Spec, StableUnlessReplaced

--------------------------------------------------------------------------------
(* The verifier implements the verdict's contract.  It takes one more        *)
(* invariant, from the rules: no check is about to refute a plan of another  *)
(* action than the response action.                                          *)

RefutesResponse == \A t \in Callers : verdict[t].kind = "refuted" => ReadsMetrics

(* The executed plan's action never changes. *)
LEMMA SameAction ==
  ASSUME Next
  PROVE  action' = action
BY DEF Next, HandlerStep, VerifyBegin, CheckWorkload, QueryErrorRate, QuerySuccessRate,
       VerifyUnavailable, Record, Tick, ContainerRestarts, ReplacePods, RolloutProgress,
       TrafficChanges, OutageChanges, plan

(* The kind of a verdict that waits to be stored stays. *)
LEMMA VerdictStays ==
  ASSUME TypeOK, Next, NEW t \in Callers, pc[t] = "record", pc'[t] = "record"
  PROVE  verdict'[t].kind = verdict[t].kind
<1>1. ASSUME NEW u \in Callers, VerifyBegin(u) \/ VerifyUnavailable(u)
      PROVE  verdict' = verdict
  BY <1>1 DEF VerifyBegin, VerifyUnavailable
<1>2. ASSUME NEW u \in Callers, Record(u)
      PROVE  verdict'[t] = verdict[t]
  BY <1>2 DEF TypeOK, Record
<1>3. ASSUME NEW u \in Callers, CheckWorkload(u) \/ QueryErrorRate(u) \/ QuerySuccessRate(u)
      PROVE  verdict'[t] = verdict[t]
  <2>1. u # t
    BY <1>3 DEF CheckWorkload, QueryErrorRate, QuerySuccessRate
  <2>2. \A v : Conclude(u, v) => verdict'[t] = verdict[t]
    BY <2>1 DEF TypeOK, Conclude
  <2> QED
    BY <1>3, <2>2 DEF CheckWorkload, QueryErrorRate, QuerySuccessRate
<1>4. CASE Tick
  <2>1. verdict'[t] = [verdict[t] EXCEPT !.window = Aged(@)] /\ verdict[t] \in Verdict
    BY <1>4 DEF TypeOK, Tick
  <2> QED
    BY <2>1 DEF Verdict
<1>5. CASE ReplacePods
  <2>1. verdict'[t] = [verdict[t] EXCEPT !.window = Lose(@)] /\ verdict[t] \in Verdict
    BY <1>5 DEF TypeOK, ReplacePods
  <2> QED
    BY <2>1 DEF Verdict
<1>6. CASE ContainerRestarts \/ RolloutProgress \/ TrafficChanges \/ OutageChanges
  BY <1>6 DEF ContainerRestarts, RolloutProgress, TrafficChanges, OutageChanges, calls
<1> QED
  BY <1>1, <1>2, <1>3, <1>4, <1>5, <1>6 DEF Next, HandlerStep

LEMMA RefutesResponseStep ==
  ASSUME IInv, IInv', RefutesResponse, [Next]_vars
  PROVE  RefutesResponse'
<1>1. CASE UNCHANGED vars
  BY <1>1 DEF vars, plan, calls, RefutesResponse, ReadsMetrics
<1>2. CASE Next
  <2>1. SUFFICES ASSUME NEW t \in Callers, verdict'[t].kind = "refuted"
                 PROVE  action = "restore_response_mode"
    BY <1>2, SameAction DEF RefutesResponse, ReadsMetrics
  <2>2. pc'[t] = "record"
    BY <2>1 DEF IInv, CallsKeep, NoVerdict
  <2>3. CASE pc[t] = "record"
    BY <1>2, <2>1, <2>2, <2>3, VerdictStays DEF IInv, RefutesResponse, ReadsMetrics
  <2>4. CASE pc[t] # "record"
    <3>1. seen[t] \in Window /\ sample[t] \in BOOLEAN
      BY DEF IInv, TypeOK
    <3>2. pc[t] = "successRate"
      BY <1>2, <2>1, <2>2, <2>4, <3>1, OwnStep, VerdictOf, RuleKinds DEF IInv
    <3> QED
      BY <3>2 DEF IInv, CallsKeep
  <2> QED
    BY <2>3, <2>4
<1> QED
  BY <1>1, <1>2

(* No check is ever about to refute another action. *)
LEMMA RefutesResponseAlways == Spec => [](IInv /\ RefutesResponse)
<1>1. Init => RefutesResponse
  BY WindowFacts DEF Init, RefutesResponse, NoVerdict
<1>2. IInv /\ IInv' /\ RefutesResponse /\ [Next]_vars => RefutesResponse'
  BY RefutesResponseStep
<1> QED
  BY <1>1, <1>2, Invariance, PTL DEF Spec

(* The plan, and who checks it, as the contract sees them. *)
Decided == [p \in {"plan"} |-> DecisionOf(status)]
Checks == [t \in Callers |-> IF pc[t] = "idle" THEN "none" ELSE "plan"]

(* One step of the contract. *)
ContractStep == [Contract!VerificationNext]_(Contract!verificationVars)

(* What neither decides, begins nor ends a check does not show. *)
LEMMA SilentStep ==
  ASSUME UNCHANGED <<action, status>>, \A t \in Callers : pc'[t] = "idle" <=> pc[t] = "idle"
  PROVE  ContractStep
<1>1. UNCHANGED Checks
  BY DEF Checks
<1> QED
  BY <1>1 DEF Checks, ReadsMetrics, ContractStep, Contract!verificationVars

(* A check begins while the plan is undecided. *)
LEMMA BeginStep ==
  ASSUME TypeOK, NEW t \in Callers, VerifyBegin(t)
  PROVE  ContractStep
<1>1. pc[t] = "idle" /\ status = "Executed" /\ pc' = [pc EXCEPT ![t] = "workload"]
      /\ UNCHANGED <<action, status>>
  BY DEF VerifyBegin, plan
<1>2. Checks[t] = "none" /\ Checks' = [Checks EXCEPT ![t] = "plan"]
  BY <1>1 DEF TypeOK, Checks
<1>3. Contract!Begin(t, "plan")
  BY <1>1, <1>2 DEF Contract!Begin, Checks, DecisionOf, ReadsMetrics
<1> QED
  BY <1>3 DEF ContractStep, Contract!VerificationNext

(* A check that ends with the plan as it was is given up. *)
LEMMA GiveUpStep ==
  ASSUME TypeOK, NEW t \in Callers, pc' = [pc EXCEPT ![t] = "idle"],
         UNCHANGED <<action, status>>
  PROVE  ContractStep
<1>1. Checks' = [u \in Callers |-> IF u \in {t} THEN "none" ELSE Checks[u]]
  BY DEF TypeOK, Checks
<1>2. Contract!GiveUp({t})
  BY <1>1 DEF Contract!GiveUp, Checks, ReadsMetrics
<1>3. {t} \in SUBSET Callers
  OBVIOUS
<1> QED
  BY <1>2, <1>3 DEF ContractStep, Contract!VerificationNext

(* A conclusion decides the plan; a pending result leaves it as it is. *)
LEMMA RecordStep ==
  ASSUME IInv, RefutesResponse, NEW t \in Callers, Record(t)
  PROVE  ContractStep
<1>1. /\ pc[t] = "record" /\ pc' = [pc EXCEPT ![t] = "idle"] /\ UNCHANGED action
      /\ verdict[t] \in Verdict /\ TypeOK
  BY DEF IInv, TypeOK, Record
<1>2. CASE verdict[t].kind = "pending"
  <2>1. UNCHANGED status
    BY <1>2 DEF Record, StatusAfter
  <2> QED
    BY <1>1, <2>1, GiveUpStep
<1>3. CASE verdict[t].kind # "pending"
  <2>0. PICK result \in {"verified", "failed"} :
          result = IF verdict[t].kind = "refuted" THEN "failed" ELSE "verified"
    OBVIOUS
  <2>1. status' = StatusAfter(verdict[t]) /\ verdict[t].kind \in {"recovered", "refuted"}
    BY <1>1, <1>3 DEF Record, Verdict
  <2>2. DecisionOf(status)' = result /\ DecisionOf(status) # "before"
    BY <1>1, <2>0, <2>1 DEF StatusAfter, DecisionOf, TypeOK
  <2>3. Decided' = [Decided EXCEPT !["plan"] = result] /\ Decided["plan"] # "before"
    BY <2>2 DEF Decided
  <2>4. Checks[t] = "plan" /\ Checks' = [Checks EXCEPT ![t] = "none"]
    BY <1>1 DEF TypeOK, Checks
  <2>5. result = "failed" => "plan" \in {p \in {"plan"} : ReadsMetrics}
    BY <2>0 DEF RefutesResponse
  <2>6. Contract!Decide(t, "plan", result)
    BY <1>1, <2>3, <2>4, <2>5 DEF Contract!Decide, Decided, Checks, ReadsMetrics
  <2> QED
    BY <2>6 DEF ContractStep, Contract!VerificationNext
<1> QED
  BY <1>2, <1>3

(* Every step of the checks, the cluster and the clock is one of the         *)
(* contract, or none.                                                        *)
LEMMA ContractStepOf ==
  ASSUME IInv, RefutesResponse, [Next]_vars
  PROVE  ContractStep
<1>1. ASSUME NEW t \in Callers, VerifyBegin(t) PROVE ContractStep
  BY <1>1, BeginStep DEF IInv
<1>2. ASSUME NEW t \in Callers, CheckWorkload(t) \/ QueryErrorRate(t) \/ QuerySuccessRate(t)
      PROVE  ContractStep
  <2>1. UNCHANGED <<action, status>> /\ pc[t] # "idle"
    BY <1>2 DEF CheckWorkload, QueryErrorRate, QuerySuccessRate, plan
  <2>2. PICK step \in {"errorRate", "successRate", "record"} : pc' = [pc EXCEPT ![t] = step]
    BY <1>2 DEF CheckWorkload, QueryErrorRate, QuerySuccessRate, Conclude
  <2> QED
    BY <2>1, <2>2, SilentStep DEF IInv, TypeOK
<1>3. ASSUME NEW t \in Callers, VerifyUnavailable(t) PROVE ContractStep
  BY <1>3, GiveUpStep DEF IInv, VerifyUnavailable, plan
<1>4. ASSUME NEW t \in Callers, Record(t) PROVE ContractStep
  BY <1>4, RecordStep
<1>5. CASE \/ Tick \/ ContainerRestarts \/ ReplacePods \/ RolloutProgress
           \/ TrafficChanges \/ OutageChanges \/ UNCHANGED vars
  <2>1. UNCHANGED <<action, status, pc>>
    BY <1>5 DEF Tick, ContainerRestarts, ReplacePods, RolloutProgress, TrafficChanges,
                OutageChanges, vars, plan, calls
  <2> QED
    BY <2>1, SilentStep
<1> QED
  BY <1>1, <1>2, <1>3, <1>4, <1>5 DEF Next, HandlerStep

LEMMA ContractOpens == Init => Contract!VerificationInit
BY DEF Init, DecisionOf, Contract!VerificationInit

(* The verifier keeps the contract the workflow relies on: a verdict comes   *)
(* from a check begun while the plan was undecided, a check gives one at     *)
(* most, and no pending result, however late, takes one back.                *)
THEOREM ContractImplemented == Spec => ImplementsContract
<1>1. Init => Contract!VerificationInit
  BY ContractOpens
<1>2. IInv /\ RefutesResponse /\ [Next]_vars =>
        [Contract!VerificationNext]_(Contract!verificationVars)
  BY ContractStepOf DEF ContractStep
<1> QED
  BY <1>1, <1>2, RefutesResponseAlways, PTL
  DEF Spec, ImplementsContract, Contract!VerificationSpec

================================================================================
