------------------------- MODULE InvestigationProofs -------------------------
(***************************************************************************)
(* Proofs about Investigation: types, and the invariant from which it      *)
(* follows that a fact is stored twice only when two collectors raced, that *)
(* the snapshot is in the store before the model is asked, and that reports *)
(* cite evidence of their own incident.                                    *)
(***************************************************************************)
EXTENDS Investigation, TLAPS

(* The kinds of facts there are. *)
LEMMA FactFacts ==
  /\ Alert \in Fact
  /\ Lasting \subseteq Fact
  /\ Stamps \subseteq Fact
BY DEF Fact

(* Whatever part of a snapshot was read, it is a set of facts. *)
LEMMA ReadsAreFacts ==
  ASSUME calls \in 0 .. MaxCalls, calls < MaxCalls,
         NEW k \in KubernetesReads(calls + 1), NEW t \in TelemetryReads(calls + 1)
  PROVE  k \cup t \in SUBSET Fact
<1>1. calls + 1 \in 1 .. MaxCalls
  BY BoundsAssumption
<1>2. Stamped("workload", calls + 1) \in Stamps /\ Stamped("telemetry", calls + 1) \in Stamps
  BY <1>1 DEF Stamps
<1> QED
  BY <1>2, FactFacts DEF KubernetesReads, TelemetryReads

(* Ending a request leaves every worker's locals in their types. *)
LEMMA EndsTyped ==
  ASSUME TypeOK, NEW w \in Workers, Ends(w), UNCHANGED <<copies, world, raced>>,
         newest' \in Report \cup {None}
  PROVE  TypeOK'
BY BoundsAssumption, NoneAssumption DEF TypeOK, Ends, world, Step

(* The ids a report may cite are those of rows of its incident. *)
LEMMA KnownIdsFacts ==
  ASSUME NEW i \in Incidents
  PROVE  \A id \in KnownIds(i) : id \in RecordId /\ id[1] = i /\ copies[i][id[2]] > 0
BY DEF KnownIds

(* Every step preserves the types: one step of the proof per action. *)
LEMMA TypeStep ==
  ASSUME TypeOK, [Next]_vars
  PROVE  TypeOK'
<1> USE BoundsAssumption, NoneAssumption
<1>1. ASSUME NEW w \in Workers, NEW i \in Incidents, Start(w, i) PROVE TypeOK'
  <2>1. PICK k \in KubernetesReads(calls + 1), t \in TelemetryReads(calls + 1) :
          /\ seen' = [seen EXCEPT ![w] = k \cup t]
          /\ todo' = [todo EXCEPT ![w] = k \cup t]
    BY <1>1 DEF Start
  <2>2. k \cup t \in SUBSET Fact
    BY <1>1, ReadsAreFacts DEF TypeOK, Start
  <2> QED
    BY <1>1, <2>1, <2>2 DEF TypeOK, Start, Step
<1>2. ASSUME NEW w \in Workers, LookupFinds(w) PROVE TypeOK'
  BY <1>2 DEF TypeOK, LookupFinds, world, Step
<1>3. ASSUME NEW w \in Workers, LookupMisses(w) PROVE TypeOK'
  <2>1. PICK f \in todo[w] :
          /\ storing' = [storing EXCEPT ![w] = f]
          /\ raced' = raced \cup {id \in {<<about[w], f>>} : Overlaps(w, f)}
    BY <1>3 DEF LookupMisses
  <2>2. f \in Fact /\ about[w] \in Incidents
    BY <1>3 DEF TypeOK, LookupMisses
  <2>3. raced' \subseteq RecordId
    BY <2>1, <2>2 DEF TypeOK, RecordId
  <2> QED
    BY <1>3, <2>1, <2>2, <2>3 DEF TypeOK, LookupMisses, world, Step
<1>4. ASSUME NEW w \in Workers, Insert(w) PROVE TypeOK'
  <2>1. about[w] \in Incidents /\ storing[w] \in Fact
    BY <1>4 DEF TypeOK, Insert
  <2>2. copies' \in [Incidents -> [Fact -> Nat]]
    BY <1>4, <2>1 DEF TypeOK, Insert
  <2> QED
    BY <1>4, <2>1, <2>2 DEF TypeOK, Insert, world, Step
<1>5. ASSUME NEW w \in Workers, Collected(w) PROVE TypeOK'
  BY <1>5 DEF TypeOK, Collected, world, Step
<1>6. ASSUME NEW w \in Workers, CallsTools(w) PROVE TypeOK'
  <2>1. turns' \in [Workers -> 0 .. MaxToolTurns]
    BY <1>6 DEF TypeOK, CallsTools
  <2> QED
    BY <1>6, <2>1 DEF TypeOK, CallsTools, world, Step
<1>7. ASSUME NEW w \in Workers, GivesUp(w) \/ AnswerRefused(w) \/ Raises(w) PROVE TypeOK'
  <2>1. Ends(w) /\ UNCHANGED <<copies, newest, world, raced>>
    BY <1>7 DEF GivesUp, AnswerRefused, Raises
  <2> QED
    BY <2>1, EndsTyped DEF TypeOK
<1>8. ASSUME NEW w \in Workers, NEW cites \in SUBSET RecordId, cites # {},
             pc[w] \in {"asked", "rehearse"}, Passes(w, cites)
      PROVE  TypeOK'
  <2>1. cited' \in [Workers -> SUBSET RecordId]
    BY <1>8 DEF TypeOK, Passes
  <2> QED
    BY <1>8, <2>1 DEF TypeOK, Passes, world, Step
<1>9. ASSUME NEW w \in Workers, Answers(w) PROVE TypeOK'
  <2>1. PICK cites \in Citations : Passes(w, cites)
    BY <1>9 DEF Answers
  <2>2. cites \in SUBSET RecordId /\ cites # {}
    BY <2>1, CitationsAssumption
  <2> QED
    BY <1>8, <1>9, <2>1, <2>2 DEF Answers
<1>10. ASSUME NEW w \in Workers, Rehearses(w) PROVE TypeOK'
  <2>1. about[w] \in Incidents
    BY <1>10 DEF TypeOK, Rehearses
  <2>2. PICK id \in KnownIds(about[w]) : Passes(w, {<<about[w], Alert>>, id})
    BY <1>10 DEF Rehearses
  <2>3. {<<about[w], Alert>>, id} \in SUBSET RecordId
    BY <2>1, <2>2, KnownIdsFacts, FactFacts DEF RecordId
  <2> QED
    BY <1>8, <1>10, <2>2, <2>3 DEF Rehearses
<1>13. ASSUME NEW w \in Workers, RecordsReport(w) PROVE TypeOK'
  <2>1. newest' \in Report
    BY <1>13 DEF TypeOK, RecordsReport, Report
  <2> QED
    BY <1>13, <2>1, EndsTyped DEF RecordsReport
<1>11. CASE Restart
  BY <1>11 DEF TypeOK, Restart, world, Step
<1>12. CASE UNCHANGED vars
  BY <1>12 DEF TypeOK, vars, world, call
<1> QED
  BY <1>1, <1>2, <1>3, <1>4, <1>5, <1>6, <1>7, <1>9, <1>10, <1>11, <1>12, <1>13
  DEF Next, Proceeds

(* The initial state is well typed, whatever the bounds. *)
LEMMA TypeInit == Init => TypeOK
BY BoundsAssumption, NoneAssumption, FactFacts DEF Init, TypeOK, Step

(* Every reachable state has the declared types: the collector's locals, the *)
(* tool-turn counter and the rows of both tables.                            *)
THEOREM TypeCorrect == Spec => []TypeOK
<1>1. Init => TypeOK
  BY TypeInit
<1>2. TypeOK /\ [Next]_vars => TypeOK'
  BY TypeStep
<1> QED
  BY <1>1, <1>2, PTL DEF Spec

--------------------------------------------------------------------------------
(* The inductive invariant.  A collector that missed a fact inserts the     *)
(* first row of it unless another one missed it as well, and what a         *)
(* collector has dealt with and what a checked report cites is in the       *)
(* store; rows are never taken away.                                        *)

Missed(w) ==
  pc[w] = "store" =>
    copies[about[w]][storing[w]] = 0 \/ <<about[w], storing[w]>> \in raced

MissedOnce(v, w) ==
  /\ pc[v] = "store" /\ pc[w] = "store"
  /\ about[v] = about[w] /\ storing[v] = storing[w]
  => v = w \/ <<about[w], storing[w]>> \in raced

DealtWith(w) ==
  pc[w] # "idle" =>
    \A f \in seen[w] : f \in todo[w] \/ copies[about[w]][f] > 0

AskedAfter(w) == pc[w] \in {"asked", "rehearse", "report"} => todo[w] = {}

CitesKnown(w) ==
  \A id \in cited[w] : id[1] = about[w] /\ copies[about[w]][id[2]] > 0

AlertStored == \A i \in Incidents : copies[i][Alert] > 0

Collecting ==
  \A w \in Workers :
    /\ Missed(w) /\ DealtWith(w) /\ AskedAfter(w) /\ CitesKnown(w)
    /\ \A v \in Workers : MissedOnce(v, w)

IInv == TypeOK /\ Collecting /\ OnceUnlessRaced /\ CitesOwnEvidence /\ AlertStored

(* Every step but Insert leaves the rows and, RecordsReport excepted, the    *)
(* newest report alone; most leave the collectors as they are.               *)
LEMMA SameCollecting ==
  ASSUME Collecting, UNCHANGED <<copies, about, seen, todo, storing, cited, raced, pc>>
  PROVE  Collecting'
BY DEF Collecting, Missed, MissedOnce, DealtWith, AskedAfter, CitesKnown

(* While no row is added, what holds of the rows goes on holding. *)
LEMMA SameRows ==
  ASSUME OnceUnlessRaced, AlertStored, CitesOwnEvidence, UNCHANGED copies,
         raced \subseteq raced'
  PROVE  OnceUnlessRaced' /\ AlertStored' /\ (newest' = newest => CitesOwnEvidence')
BY DEF OnceUnlessRaced, AlertStored, CitesOwnEvidence

(* A request that ends leaves the other collectors as they are. *)
LEMMA EndsCollecting ==
  ASSUME TypeOK, Collecting, NEW w \in Workers, Ends(w), UNCHANGED <<copies, raced>>
  PROVE  Collecting'
<1>1. pc'[w] = "idle" /\ cited'[w] = {}
  BY DEF TypeOK, Ends
<1>2. ASSUME NEW v \in Workers, v # w
      PROVE  /\ pc'[v] = pc[v] /\ about'[v] = about[v] /\ seen'[v] = seen[v]
             /\ todo'[v] = todo[v] /\ storing'[v] = storing[v] /\ cited'[v] = cited[v]
  BY <1>2 DEF TypeOK, Ends
<1>3. ASSUME NEW v \in Workers
      PROVE  (Missed(v) /\ DealtWith(v) /\ AskedAfter(v) /\ CitesKnown(v))'
  BY <1>1, <1>2 DEF Collecting, Missed, DealtWith, AskedAfter, CitesKnown
<1>4. ASSUME NEW v \in Workers, NEW u \in Workers
      PROVE  MissedOnce(u, v)'
  BY <1>1, <1>2 DEF Collecting, MissedOnce
<1> QED
  BY <1>3, <1>4 DEF Collecting

(* A request begins with everything it has seen still to be dealt with. *)
LEMMA StartStep ==
  ASSUME IInv, NEW w \in Workers, NEW i \in Incidents, Start(w, i)
  PROVE  Collecting'
<1>1. PICK s : seen' = [seen EXCEPT ![w] = s] /\ todo' = [todo EXCEPT ![w] = s]
  BY DEF Start
<1>2. /\ pc'[w] = "append" /\ seen'[w] = todo'[w]
      /\ \A v \in Workers \ {w} :
           /\ pc'[v] = pc[v] /\ about'[v] = about[v]
           /\ seen'[v] = seen[v] /\ todo'[v] = todo[v]
      /\ cited[w] = {}
      /\ UNCHANGED <<copies, storing, cited, raced>>
  BY <1>1 DEF IInv, TypeOK, Start
<1>3. ASSUME NEW v \in Workers
      PROVE  (Missed(v) /\ DealtWith(v) /\ AskedAfter(v) /\ CitesKnown(v))'
  BY <1>2 DEF IInv, Collecting, Missed, DealtWith, AskedAfter, CitesKnown
<1>4. ASSUME NEW v \in Workers, NEW u \in Workers
      PROVE  MissedOnce(u, v)'
  BY <1>2 DEF IInv, Collecting, MissedOnce
<1> QED
  BY <1>3, <1>4 DEF Collecting

(* A fact that is passed over has a row already. *)
LEMMA LookupFindsStep ==
  ASSUME IInv, NEW w \in Workers, LookupFinds(w)
  PROVE  Collecting'
<1>1. PICK f \in todo[w] : Recorded(about[w], f) /\ todo' = [todo EXCEPT ![w] = @ \ {f}]
  BY DEF LookupFinds
<1>2. /\ todo'[w] = todo[w] \ {f} /\ copies[about[w]][f] > 0
      /\ \A v \in Workers \ {w} : todo'[v] = todo[v]
      /\ UNCHANGED <<copies, pc, about, seen, storing, cited, raced>>
  BY <1>1 DEF IInv, TypeOK, LookupFinds, Recorded
<1> QED
  BY <1>2 DEF IInv, Collecting, Missed, MissedOnce, DealtWith, AskedAfter, CitesKnown

(* A missed fact has no row yet, and whoever missed it before is a race. *)
LEMMA LookupMissesStep ==
  ASSUME IInv, NEW w \in Workers, LookupMisses(w)
  PROVE  Collecting'
<1>1. PICK f \in todo[w] :
        /\ ~Recorded(about[w], f)
        /\ storing' = [storing EXCEPT ![w] = f]
        /\ raced' = raced \cup {id \in {<<about[w], f>>} : Overlaps(w, f)}
  BY DEF LookupMisses
<1>2. /\ storing'[w] = f /\ pc'[w] = "store"
      /\ \A v \in Workers \ {w} : storing'[v] = storing[v] /\ pc'[v] = pc[v]
      /\ UNCHANGED <<copies, about, seen, todo>>
  BY <1>1 DEF IInv, TypeOK, LookupMisses
<1>3. copies[about[w]][f] = 0
  BY <1>1 DEF IInv, TypeOK, LookupMisses, Recorded
<1>4. raced \subseteq raced'
  BY <1>1
<1>5. ASSUME NEW v \in Workers
      PROVE  (Missed(v) /\ DealtWith(v) /\ AskedAfter(v) /\ CitesKnown(v))'
  <2>1. Missed(v)'
    BY <1>2, <1>3, <1>4 DEF IInv, Collecting, Missed
  <2>2. DealtWith(v)'
    BY <1>2 DEF IInv, Collecting, DealtWith, LookupMisses
  <2> QED
    BY <1>2, <2>1, <2>2 DEF IInv, Collecting, AskedAfter, CitesKnown, LookupMisses
<1>6. ASSUME NEW v \in Workers, v # w, pc[v] = "store", about[v] = about[w], storing[v] = f
      PROVE  <<about[w], f>> \in raced'
  BY <1>1, <1>6 DEF Overlaps
<1>7. ASSUME NEW v \in Workers, NEW u \in Workers
      PROVE  MissedOnce(u, v)'
  BY <1>2, <1>4, <1>6 DEF IInv, Collecting, MissedOnce
<1> QED
  BY <1>5, <1>7 DEF Collecting

(* The only step that adds a row. *)
LEMMA InsertStep ==
  ASSUME IInv, NEW w \in Workers, Insert(w)
  PROVE  Collecting' /\ OnceUnlessRaced' /\ AlertStored' /\ CitesOwnEvidence'
<1> DEFINE i == about[w]
           f == storing[w]
<1>1. i \in Incidents /\ f \in Fact
  BY DEF IInv, TypeOK, Insert
<1>2. /\ copies'[i][f] = copies[i][f] + 1
      /\ \A j \in Incidents, g \in Fact : j # i \/ g # f => copies'[j][g] = copies[j][g]
      /\ \A j \in Incidents, g \in Fact : copies[j][g] \in Nat /\ copies'[j][g] >= copies[j][g]
  BY <1>1 DEF IInv, TypeOK, Insert
<1>3. /\ pc[w] = "store" /\ pc'[w] = "append" /\ todo'[w] = todo[w] \ {f}
      /\ \A v \in Workers \ {w} :
           pc'[v] = pc[v] /\ todo'[v] = todo[v] /\ storing'[v] = storing[v]
      /\ UNCHANGED <<newest, about, seen, raced>>
  BY DEF IInv, TypeOK, Insert
<1>4. ASSUME NEW v \in Workers
      PROVE  Missed(v)'
  <2>1. CASE v = w
    BY <1>3, <2>1 DEF Missed
  <2>2. CASE v # w
    <3>1. SUFFICES ASSUME pc[v] = "store"
                   PROVE  \/ copies'[about[v]][storing[v]] = 0
                          \/ <<about[v], storing[v]>> \in raced
      BY <1>3, <2>2 DEF Missed
    <3>2. about[v] \in Incidents /\ storing[v] \in Fact
      BY <3>1 DEF IInv, TypeOK
    <3>3. CASE about[v] = i /\ storing[v] = f
      BY <1>3, <2>2, <3>1, <3>3 DEF IInv, Collecting, MissedOnce
    <3>4. CASE ~(about[v] = i /\ storing[v] = f)
      BY <1>2, <3>1, <3>2, <3>4 DEF IInv, Collecting, Missed
    <3> QED
      BY <3>3, <3>4
  <2> QED
    BY <2>1, <2>2
<1>5. ASSUME NEW v \in Workers
      PROVE  DealtWith(v)'
  <2>1. SUFFICES ASSUME pc'[v] # "idle", NEW g \in seen[v]
                 PROVE  g \in todo'[v] \/ copies'[about[v]][g] > 0
    BY <1>3 DEF DealtWith
  <2>2. g \in Fact /\ about[v] \in Incidents
    BY <1>3, <2>1 DEF IInv, TypeOK
  <2>3. g \in todo[v] \/ copies[about[v]][g] > 0
    BY <1>3, <2>1 DEF IInv, Collecting, DealtWith
  <2>4. copies[about[v]][g] > 0 => copies'[about[v]][g] > 0
    BY <1>2, <2>2
  <2>5. copies'[i][f] > 0
    BY <1>1, <1>2
  <2> QED
    BY <1>3, <2>3, <2>4, <2>5
<1>6. ASSUME NEW v \in Workers
      PROVE  AskedAfter(v)' /\ \A u \in Workers : MissedOnce(u, v)'
  BY <1>3 DEF IInv, Collecting, AskedAfter, MissedOnce
<1>10. ASSUME NEW v \in Workers
       PROVE  CitesKnown(v)'
  <2>1. SUFFICES ASSUME NEW id \in cited[v]
                 PROVE  id[1] = about[v] /\ copies'[about[v]][id[2]] > 0
    BY <1>3 DEF CitesKnown, Insert
  <2>2. about[v] \in Incidents /\ id[2] \in Fact
    BY <2>1 DEF IInv, TypeOK, RecordId, Step
  <2> QED
    BY <1>2, <2>1, <2>2 DEF IInv, Collecting, CitesKnown
<1>7. OnceUnlessRaced'
  <2>1. SUFFICES ASSUME NEW j \in Incidents, NEW g \in Fact, copies'[j][g] > 1
                 PROVE  <<j, g>> \in raced
    BY <1>3 DEF OnceUnlessRaced
  <2>2. CASE j = i /\ g = f
    BY <1>1, <1>2, <1>3, <2>1, <2>2 DEF IInv, Collecting, Missed
  <2>3. CASE ~(j = i /\ g = f)
    BY <1>2, <2>1, <2>3 DEF IInv, OnceUnlessRaced
  <2> QED
    BY <2>2, <2>3
<1>8. AlertStored'
  BY <1>2, FactFacts DEF IInv, AlertStored
<1>9. CitesOwnEvidence'
  <2>1. SUFFICES ASSUME newest # None, NEW id \in newest.cites
                 PROVE  copies'[newest.incident][id[2]] > 0
    BY <1>3 DEF IInv, CitesOwnEvidence
  <2>2. newest.incident \in Incidents /\ id[2] \in Fact
    BY <2>1 DEF IInv, TypeOK, Report, RecordId
  <2> QED
    BY <1>2, <2>1, <2>2 DEF IInv, CitesOwnEvidence
<1> QED
  BY <1>4, <1>5, <1>6, <1>7, <1>8, <1>9, <1>10 DEF Collecting

(* What passes the check is known from then on. *)
LEMMA PassesStep ==
  ASSUME IInv, NEW w \in Workers, pc[w] \in {"asked", "rehearse"}, about[w] \in Incidents,
         NEW cites, cites \subseteq KnownIds(about[w]), Passes(w, cites)
  PROVE  Collecting' /\ OnceUnlessRaced' /\ AlertStored' /\ CitesOwnEvidence'
<1>1. /\ pc'[w] = "report" /\ cited'[w] = cites
      /\ \A v \in Workers \ {w} : pc'[v] = pc[v] /\ cited'[v] = cited[v]
      /\ UNCHANGED <<copies, newest, about, seen, todo, storing, raced>>
  BY DEF IInv, TypeOK, Passes
<1>2. CitesKnown(w)'
  BY <1>1, KnownIdsFacts DEF CitesKnown
<1>3. \A v \in Workers \ {w} : CitesKnown(v)'
  BY <1>1 DEF IInv, Collecting, CitesKnown
<1>4. ASSUME NEW v \in Workers
      PROVE  (Missed(v) /\ DealtWith(v) /\ AskedAfter(v))'
  BY <1>1 DEF IInv, Collecting, Missed, DealtWith, AskedAfter
<1>5. ASSUME NEW v \in Workers, NEW u \in Workers
      PROVE  MissedOnce(u, v)'
  BY <1>1 DEF IInv, Collecting, MissedOnce
<1>6. Collecting'
  BY <1>2, <1>3, <1>4, <1>5 DEF Collecting
<1> QED
  BY <1>1, <1>6, SameRows DEF IInv

(* A checked report cites its own incident's rows when it is stored. *)
LEMMA RecordsStep ==
  ASSUME IInv, NEW w \in Workers, RecordsReport(w)
  PROVE  Collecting' /\ OnceUnlessRaced' /\ AlertStored' /\ CitesOwnEvidence'
<1>1. Collecting'
  BY EndsCollecting DEF IInv, RecordsReport
<1>2. OnceUnlessRaced' /\ AlertStored'
  BY SameRows DEF IInv, RecordsReport
<1>3. newest' = [incident |-> about[w], simulated |-> simulated, cites |-> cited[w]]
  BY DEF RecordsReport
<1>4. cited[w] # {} /\ \A id \in cited[w] : id[1] = about[w] /\ copies[about[w]][id[2]] > 0
  BY DEF IInv, TypeOK, Collecting, CitesKnown, RecordsReport
<1>5. CitesOwnEvidence'
  BY <1>3, <1>4 DEF CitesOwnEvidence, RecordsReport
<1> QED
  BY <1>1, <1>2, <1>5

(* Every step preserves the invariant: one step of the proof per action. *)
LEMMA IInvStep ==
  ASSUME IInv, [Next]_vars
  PROVE  IInv'
<1> DEFINE Rest == Collecting /\ OnceUnlessRaced /\ AlertStored /\ CitesOwnEvidence
<1>1. TypeOK'
  BY TypeStep DEF IInv
<1>2. ASSUME NEW w \in Workers, NEW i \in Incidents, Start(w, i) PROVE Rest'
  BY <1>2, StartStep, SameRows DEF IInv, Start
<1>3. ASSUME NEW w \in Workers, LookupFinds(w) PROVE Rest'
  BY <1>3, LookupFindsStep, SameRows DEF IInv, LookupFinds
<1>4. ASSUME NEW w \in Workers, LookupMisses(w) PROVE Rest'
  <2>1. raced \subseteq raced'
    BY <1>4 DEF LookupMisses
  <2> QED
    BY <1>4, <2>1, LookupMissesStep, SameRows DEF IInv, LookupMisses
<1>5. ASSUME NEW w \in Workers, Insert(w) PROVE Rest'
  BY <1>5, InsertStep
<1>6. ASSUME NEW w \in Workers, Collected(w) PROVE Rest'
  <2>1. Collecting'
    BY <1>6 DEF IInv, TypeOK, Collecting, Missed, MissedOnce, DealtWith, AskedAfter, CitesKnown, Collected
  <2> QED
    BY <1>6, <2>1, SameRows DEF IInv, Collected
<1>7. ASSUME NEW w \in Workers, CallsTools(w) PROVE Rest'
  BY <1>7, SameCollecting, SameRows DEF IInv, CallsTools
<1>8. ASSUME NEW w \in Workers, GivesUp(w) \/ AnswerRefused(w) \/ Raises(w) PROVE Rest'
  <2>1. Ends(w) /\ UNCHANGED <<copies, newest, raced>>
    BY <1>8 DEF GivesUp, AnswerRefused, Raises
  <2> QED
    BY <2>1, EndsCollecting, SameRows DEF IInv
<1>9. ASSUME NEW w \in Workers, Answers(w) \/ Rehearses(w) PROVE Rest'
  <2>1. PICK cites : Passes(w, cites) /\ cites \subseteq KnownIds(about[w])
    <3>1. about[w] \in Incidents
      BY <1>9 DEF IInv, TypeOK, Answers, Rehearses
    <3>2. <<about[w], Alert>> \in KnownIds(about[w])
      BY <3>1, FactFacts DEF IInv, AlertStored, KnownIds, RecordId
    <3> QED
      BY <1>9, <3>2 DEF Answers, Rehearses
  <2>2. about[w] \in Incidents /\ pc[w] \in {"asked", "rehearse"}
    BY <1>9 DEF IInv, TypeOK, Answers, Rehearses
  <2> QED
    BY <2>1, <2>2, PassesStep
<1>10. ASSUME NEW w \in Workers, RecordsReport(w) PROVE Rest'
  BY <1>10, RecordsStep
<1>11. CASE Restart
  <2>1. Collecting'
    BY <1>11 DEF Restart, Collecting, Missed, MissedOnce, DealtWith, AskedAfter, CitesKnown
  <2>2. UNCHANGED <<copies, newest, raced>>
    BY <1>11 DEF Restart
  <2> QED
    BY <1>1, <2>1, <2>2, SameRows DEF IInv
<1>12. CASE UNCHANGED vars
  BY <1>1, <1>12, SameCollecting, SameRows DEF IInv, vars, call
<1> QED
  BY <1>1, <1>2, <1>3, <1>4, <1>5, <1>6, <1>7, <1>8, <1>9, <1>10, <1>11, <1>12
  DEF Next, Proceeds, IInv

(* At first only the alerts have rows, one each. *)
LEMMA IInvInit == Init => IInv
<1> SUFFICES ASSUME Init PROVE IInv
  OBVIOUS
<1>1. \A i \in Incidents, f \in Fact : copies[i][f] = IF f = Alert THEN 1 ELSE 0
  BY DEF Init
<1>2. OnceUnlessRaced /\ AlertStored
  BY <1>1, FactFacts DEF OnceUnlessRaced, AlertStored
<1>3. Collecting /\ CitesOwnEvidence
  BY DEF Init, Collecting, Missed, MissedOnce, DealtWith, AskedAfter, CitesKnown, CitesOwnEvidence
<1> QED
  BY <1>2, <1>3, TypeInit DEF IInv

(* The invariant holds of every behaviour. *)
THEOREM CollectingInvariant == Spec => []IInv
<1>1. Init => IInv
  BY IInvInit
<1>2. IInv /\ [Next]_vars => IInv'
  BY IInvStep
<1> QED
  BY <1>1, <1>2, PTL DEF Spec

(* However many collectors overlap, a fact has a second row only when two of *)
(* them looked it up before either inserted it.                              *)
THEOREM RowsOnce == Spec => []OnceUnlessRaced
<1>1. IInv => OnceUnlessRaced
  BY DEF IInv
<1> QED
  BY <1>1, CollectingInvariant, PTL

(* What the snapshot showed is in the store, under the incident asked about, *)
(* when the model or the rehearsal report reads it.                          *)
THEOREM SnapshotStored == Spec => []SnapshotPersisted
<1>1. IInv => SnapshotPersisted
  BY DEF IInv, Collecting, DealtWith, AskedAfter, SnapshotPersisted
<1> QED
  BY <1>1, CollectingInvariant, PTL

(* No answer of a model puts a report in the store that cites nothing, or a  *)
(* record that is missing or another incident's.                             *)
THEOREM ReportsCiteOwn == Spec => []CitesOwnEvidence
<1>1. IInv => CitesOwnEvidence
  BY DEF IInv
<1> QED
  BY <1>1, CollectingInvariant, PTL

--------------------------------------------------------------------------------
(* The investigation implements the evidence ledger.  Besides the invariant *)
(* it takes where the facts come from: a collector has nothing to do and    *)
(* nothing to store but what its own snapshot showed.                       *)

FromSnapshot ==
  \A w \in Workers : todo[w] \subseteq seen[w] /\ (pc[w] = "store" => storing[w] \in seen[w])

(* Locals that stay, or are emptied together, still come from the snapshot. *)
LEMMA EndsFromSnapshot ==
  ASSUME TypeOK, FromSnapshot, NEW w \in Workers, Ends(w)
  PROVE  FromSnapshot'
BY DEF TypeOK, FromSnapshot, Ends

LEMMA FromSnapshotStep ==
  ASSUME TypeOK, FromSnapshot, [Next]_vars
  PROVE  FromSnapshot'
<1>1. ASSUME NEW w \in Workers, NEW i \in Incidents, Start(w, i) PROVE FromSnapshot'
  <2>1. PICK s : seen' = [seen EXCEPT ![w] = s] /\ todo' = [todo EXCEPT ![w] = s]
    BY <1>1 DEF Start
  <2> QED
    BY <1>1, <2>1 DEF TypeOK, FromSnapshot, Start
<1>2. ASSUME NEW w \in Workers, LookupFinds(w) PROVE FromSnapshot'
  BY <1>2 DEF TypeOK, FromSnapshot, LookupFinds
<1>3. ASSUME NEW w \in Workers, LookupMisses(w) PROVE FromSnapshot'
  BY <1>3 DEF TypeOK, FromSnapshot, LookupMisses
<1>4. ASSUME NEW w \in Workers, Insert(w) PROVE FromSnapshot'
  BY <1>4 DEF TypeOK, FromSnapshot, Insert
<1>5. ASSUME NEW w \in Workers, Collected(w) PROVE FromSnapshot'
  BY <1>5 DEF TypeOK, FromSnapshot, Collected
<1>6. ASSUME NEW w \in Workers, CallsTools(w) PROVE FromSnapshot'
  BY <1>6 DEF FromSnapshot, CallsTools
<1>7. ASSUME NEW w \in Workers, GivesUp(w) \/ AnswerRefused(w) \/ Raises(w) PROVE FromSnapshot'
  BY <1>7, EndsFromSnapshot DEF GivesUp, AnswerRefused, Raises
<1>8. ASSUME NEW w \in Workers, Answers(w) \/ Rehearses(w) PROVE FromSnapshot'
  <2>1. PICK cites : Passes(w, cites)
    BY <1>8 DEF Answers, Rehearses
  <2> QED
    BY <2>1 DEF TypeOK, FromSnapshot, Passes
<1>11. ASSUME NEW w \in Workers, RecordsReport(w) PROVE FromSnapshot'
  BY <1>11, EndsFromSnapshot DEF RecordsReport
<1>9. CASE Restart
  BY <1>9 DEF FromSnapshot, Restart
<1>10. CASE UNCHANGED vars
  BY <1>10 DEF FromSnapshot, vars, call
<1> QED
  BY <1>1, <1>2, <1>3, <1>4, <1>5, <1>6, <1>7, <1>8, <1>9, <1>10, <1>11 DEF Next, Proceeds

(* A collector stores only what its snapshot showed. *)
LEMMA FromSnapshotAlways == Spec => [](IInv /\ FromSnapshot)
<1>1. Init => FromSnapshot
  BY DEF Init, FromSnapshot
<1>2. IInv /\ FromSnapshot /\ [Next]_vars => FromSnapshot'
  BY FromSnapshotStep DEF IInv
<1> QED
  BY <1>1, <1>2, CollectingInvariant, PTL DEF Spec

(* The facts that have a row, per incident, as the ledger sees them. *)
StoredFacts == [i \in Incidents |-> {f \in Fact : copies[i][f] > 0}]

(* One step of the ledger. *)
LedgerStep == [Ledger!LedgerNext]_(Ledger!ledgerVars)

(* Rows that stay leave the stored facts as they are. *)
LEMMA SameFacts ==
  ASSUME UNCHANGED copies
  PROVE  StoredFacts' = StoredFacts
BY DEF StoredFacts

(* Steps of the collector and the model that store and answer nothing. *)
LEMMA SilentStep ==
  ASSUME UNCHANGED <<copies, about, seen, newest>>
  PROVE  LedgerStep
BY SameFacts DEF LedgerStep, Ledger!ledgerVars, StoredFacts

(* A snapshot asks, for one incident and with the facts it shows. *)
LEMMA StartAsks ==
  ASSUME TypeOK, NEW w \in Workers, NEW i \in Incidents, Start(w, i)
  PROVE  LedgerStep
<1>1. PICK k \in KubernetesReads(calls + 1), t \in TelemetryReads(calls + 1) :
        seen' = [seen EXCEPT ![w] = k \cup t]
  BY DEF Start
<1>2. k \cup t \in SUBSET Fact
  BY <1>1, ReadsAreFacts DEF TypeOK, Start
<1>3. about[w] = None /\ about' = [about EXCEPT ![w] = i] /\ UNCHANGED <<copies, newest>>
  BY DEF TypeOK, Start
<1>4. Ledger!Ask(w, i)
  BY <1>1, <1>2, <1>3, SameFacts DEF Ledger!Ask, StoredFacts
<1> QED
  BY <1>4 DEF LedgerStep, Ledger!LedgerNext

(* An insert stores a fact the request has read with its own incident. *)
LEMMA InsertStores ==
  ASSUME TypeOK, FromSnapshot, NEW w \in Workers, Insert(w)
  PROVE  LedgerStep
<1>1. PICK i \in Incidents, f \in Fact : i = about[w] /\ f = storing[w] /\ f \in seen[w]
  BY DEF TypeOK, FromSnapshot, Insert
<1>2. copies' = [copies EXCEPT ![i][f] = @ + 1] /\ UNCHANGED <<newest, about, seen>>
  BY <1>1 DEF Insert
<1>3. /\ copies'[i][f] > 0
      /\ \A j \in Incidents, g \in Fact : j # i \/ g # f => copies'[j][g] = copies[j][g]
  BY <1>2 DEF TypeOK
<1>4. {g \in Fact : copies'[i][g] > 0} = {g \in Fact : copies[i][g] > 0} \cup {f}
  BY <1>3
<1>5. \A j \in Incidents \ {i} :
        {g \in Fact : copies'[j][g] > 0} = {g \in Fact : copies[j][g] > 0}
  BY <1>3
<1>6. StoredFacts' = [StoredFacts EXCEPT ![i] = @ \cup {f}]
  BY <1>4, <1>5 DEF StoredFacts
<1>7. i # None
  BY NoneAssumption
<1>8. Ledger!Store(w, f)
  BY <1>1, <1>2, <1>6, <1>7 DEF Ledger!Store, StoredFacts
<1> QED
  BY <1>8 DEF LedgerStep, Ledger!LedgerNext

(* A request that ends takes nothing with it. *)
LEMMA EndsOver ==
  ASSUME TypeOK, NEW w \in Workers, Ends(w)
  PROVE  Ledger!Over({w})
BY DEF TypeOK, Ends, Ledger!Over

(* An exception or a refusal abandons the request. *)
LEMMA EndsAbandons ==
  ASSUME TypeOK, NEW w \in Workers, Ends(w), UNCHANGED <<copies, newest>>
  PROVE  LedgerStep
<1>1. Ledger!Abandon({w})
  BY EndsOver, SameFacts DEF Ledger!Abandon, StoredFacts
<1>2. {w} \in SUBSET Workers
  OBVIOUS
<1> QED
  BY <1>1, <1>2 DEF LedgerStep, Ledger!LedgerNext

(* A report is filed when all the request has read is stored, and rests on  *)
(* rows of its own incident.                                                *)
LEMMA RecordsAnswers ==
  ASSUME IInv, NEW w \in Workers, RecordsReport(w)
  PROVE  LedgerStep
<1> DEFINE cites == cited[w]
<1>1. PICK i \in Incidents : i = about[w] /\ i # None
  BY NoneAssumption DEF IInv, TypeOK, RecordsReport
<1>2. StoredFacts[i] = {f \in Fact : copies[i][f] > 0}
  BY DEF StoredFacts
<1>3. seen[w] \subseteq StoredFacts[i]
  BY <1>1, <1>2 DEF IInv, TypeOK, Collecting, DealtWith, AskedAfter, RecordsReport
<1>4. /\ cites # {}
      /\ \A id \in cites : id \in RecordId /\ id[1] = i /\ copies[i][id[2]] > 0
  BY <1>1 DEF IInv, TypeOK, Collecting, CitesKnown, RecordsReport
<1>5. \A id \in cites : id[1] = i /\ id[2] \in StoredFacts[i]
  BY <1>2, <1>4 DEF RecordId
<1>6. newest' = [incident |-> i, simulated |-> simulated, cites |-> cites]
  BY <1>1 DEF RecordsReport
<1>7. /\ newest' \in Report /\ newest'.incident = i /\ newest'.cites = cites
  BY <1>4, <1>6 DEF IInv, TypeOK, Report
<1>8. Ends(w) /\ UNCHANGED copies
  BY DEF RecordsReport
<1>9. Ledger!Over({w}) /\ StoredFacts' = StoredFacts
  BY <1>8, EndsOver, SameFacts DEF IInv
<1>10. Ledger!Answer(w)
  BY <1>1, <1>3, <1>4, <1>5, <1>7, <1>9 DEF Ledger!Answer, StoredFacts
<1> QED
  BY <1>10 DEF LedgerStep, Ledger!LedgerNext

(* Every step of an investigation is one of the ledger, or none. *)
LEMMA LedgerStepOf ==
  ASSUME IInv, FromSnapshot, [Next]_vars
  PROVE  LedgerStep
<1>1. ASSUME NEW w \in Workers, NEW i \in Incidents, Start(w, i) PROVE LedgerStep
  BY <1>1, StartAsks DEF IInv
<1>2. ASSUME NEW w \in Workers,
             LookupFinds(w) \/ LookupMisses(w) \/ Collected(w) \/ CallsTools(w)
      PROVE  LedgerStep
  BY <1>2, SilentStep DEF LookupFinds, LookupMisses, Collected, CallsTools
<1>3. ASSUME NEW w \in Workers, Insert(w) PROVE LedgerStep
  BY <1>3, InsertStores DEF IInv
<1>4. ASSUME NEW w \in Workers, GivesUp(w) \/ AnswerRefused(w) \/ Raises(w) PROVE LedgerStep
  BY <1>4, EndsAbandons DEF IInv, GivesUp, AnswerRefused, Raises
<1>5. ASSUME NEW w \in Workers, Answers(w) \/ Rehearses(w) PROVE LedgerStep
  <2>1. PICK cites : Passes(w, cites)
    BY <1>5 DEF Answers, Rehearses
  <2> QED
    BY <2>1, SilentStep DEF Passes
<1>6. ASSUME NEW w \in Workers, RecordsReport(w) PROVE LedgerStep
  BY <1>6, RecordsAnswers
<1>7. CASE Restart
  <2>1. Ledger!Abandon(Workers)
    BY <1>7, SameFacts DEF Restart, Ledger!Abandon, Ledger!Over, StoredFacts
  <2> QED
    BY <2>1 DEF LedgerStep, Ledger!LedgerNext
<1>8. CASE UNCHANGED vars
  BY <1>8, SilentStep DEF vars, call
<1> QED
  BY <1>1, <1>2, <1>3, <1>4, <1>5, <1>6, <1>7, <1>8 DEF Next, Proceeds

LEMMA LedgerOpens == Init => Ledger!LedgerInit
<1> SUFFICES ASSUME Init PROVE Ledger!LedgerInit
  OBVIOUS
<1>1. \A i \in Incidents, f \in Fact : copies[i][f] = IF f = Alert THEN 1 ELSE 0
  BY DEF Init
<1>2. \A i \in Incidents, f \in Fact : copies[i][f] > 0 <=> f = Alert
  BY <1>1
<1>3. \A i \in Incidents : {f \in Fact : copies[i][f] > 0} = {Alert}
  BY <1>2, FactFacts
<1> QED
  BY <1>3 DEF Init, Ledger!LedgerInit

(* Every behaviour of overlapping investigations is one of the ledger:      *)
(* facts enter the store only from a snapshot of their own incident and     *)
(* never leave it, and a report is filed once per request, about its own    *)
(* incident, after all that was read is stored.                             *)
THEOREM LedgerImplemented == Spec => ImplementsLedger
<1>1. Init => Ledger!LedgerInit
  BY LedgerOpens
<1>2. IInv /\ FromSnapshot /\ [Next]_vars => [Ledger!LedgerNext]_(Ledger!ledgerVars)
  BY LedgerStepOf DEF LedgerStep
<1> QED
  BY <1>1, <1>2, FromSnapshotAlways, PTL DEF Spec, ImplementsLedger, Ledger!LedgerSpec

================================================================================
