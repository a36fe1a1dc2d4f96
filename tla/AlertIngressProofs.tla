-------------------------- MODULE AlertIngressProofs --------------------------
(***************************************************************************)
(* Proofs about AlertIngress, for any number of incidents, alert groups,   *)
(* deliveries and demo starts.  The store's half of the invariant is kept  *)
(* by each of the four transactions, whoever runs them; the calls' half    *)
(* says what a demo start knows of the incident it drives.                 *)
(***************************************************************************)
EXTENDS AlertIngress, TLAPS

StoreTyped ==
  /\ state \in [Incidents -> LifecycleState \cup {"Absent"}]
  /\ keyOf \in [Incidents -> Keys \cup {None}]
  /\ \A i \in Incidents : keyOf[i] = None <=> state[i] = "Absent"
  /\ received \in [Deliveries -> Incidents \cup {"unseen", "unmatched"}]
  /\ evidence \in [Deliveries -> Seq(Incidents)]

CallsTyped ==
  /\ pc \in [Starters -> {"idle", "Classified", "Enriched", "Triaging"}]
  /\ driving \in [Starters -> Incidents \cup {None}]

StoreInv == StoreTyped /\ OneOpenPerKey /\ RecordedOnce /\ OpenedByFiring

(* What a demo start drives is an incident there is. *)
DrivesRow ==
  \A t \in Starters : pc[t] # "idle" => driving[t] \in Incidents /\ state[driving[t]] # "Absent"

CallsInv == CallsTyped /\ DrivesRow /\ OneDriver

IInv == StoreInv /\ CallsInv

(* Rows are never deleted. *)
RowsStay == \A i \in Incidents : state[i] # "Absent" => state'[i] # "Absent"

(* The type invariant is its store half and its calls half. *)
LEMMA TypeSplit == TypeOK <=> StoreTyped /\ CallsTyped
BY DEF TypeOK, StoreTyped, CallsTyped

(* The table moves incidents there are, to states that are states. *)
LEMMA MoveFacts ==
  ASSUME NEW current, NEW goal, CanMove(current, goal)
  PROVE  current \in LifecycleState /\ goal \in LifecycleState
BY DEF CanMove, AllowedTransitions, LifecycleState

LEMMA DeliveryFacts ==
  ASSUME NEW d \in Deliveries
  PROVE  d.key \in Keys /\ d.key # None /\ d.status \in {"firing", "resolved"}
BY DeliveriesAssumption, NoneAssumption DEF Delivery

--------------------------------------------------------------------------------
(* The store's transactions. *)

(* A delivery that is only remembered touches no incident. *)
LEMMA UnmatchedStep ==
  ASSUME StoreInv, NEW d \in Deliveries, Unmatched(d)
  PROVE  StoreInv' /\ RowsStay
<1>1. StoreTyped' /\ RowsStay
  BY DEF StoreInv, StoreTyped, Unmatched, RowsStay
<1>2. OneOpenPerKey'
  BY DEF StoreInv, OneOpenPerKey, Unmatched, OpenStates
<1>3. RecordedOnce'
  BY DEF StoreInv, StoreTyped, RecordedOnce, Unmatched, Fresh
<1>4. OpenedByFiring'
  BY NoneAssumption DEF StoreInv, StoreTyped, OpenedByFiring, Unmatched, Fresh
<1> QED
  BY <1>1, <1>2, <1>3, <1>4 DEF StoreInv

(* The evidence of a delivery that was new is one row. *)
LEMMA RecordedWithFacts ==
  ASSUME StoreInv, NEW d \in Deliveries, NEW i \in Incidents, Fresh(d), RecordedWith(d, i)
  PROVE  /\ received' \in [Deliveries -> Incidents \cup {"unseen", "unmatched"}]
         /\ evidence' \in [Deliveries -> Seq(Incidents)]
         /\ received'[d] = i /\ evidence'[d] = <<i>>
         /\ \A e \in Deliveries \ {d} : received'[e] = received[e] /\ evidence'[e] = evidence[e]
<1>1. evidence[d] = <<>>
  BY DEF StoreInv, RecordedOnce, Fresh
<1>2. Append(evidence[d], i) = <<i>> /\ <<i>> \in Seq(Incidents)
  BY <1>1
<1> QED
  BY <1>2 DEF StoreInv, StoreTyped, RecordedWith

(* A delivery for the incident that is open changes neither state nor key. *)
LEMMA UpdatesStep ==
  ASSUME StoreInv, NEW d \in Deliveries, NEW i \in Incidents, Updates(d, i)
  PROVE  StoreInv' /\ RowsStay
<1>1. Fresh(d) /\ RecordedWith(d, i) /\ UNCHANGED <<state, keyOf>>
  BY DEF Updates
<1>2. state[i] \in OpenStates /\ keyOf[i] = d.key
  BY DEF Updates, OpenFor
<1>3. StoreTyped' /\ RowsStay
  BY <1>1, RecordedWithFacts DEF StoreInv, StoreTyped, RowsStay
<1>4. OneOpenPerKey'
  BY <1>1 DEF StoreInv, OneOpenPerKey
<1>5. RecordedOnce'
  <2>1. ASSUME NEW e \in Deliveries, e # d
        PROVE  IF received'[e] \in {"unseen", "unmatched"}
               THEN evidence'[e] = <<>>
               ELSE evidence'[e] = <<received'[e]>> /\ keyOf'[received'[e]] = e.key
    BY <1>1, <2>1, RecordedWithFacts DEF StoreInv, RecordedOnce
  <2>2. received'[d] = i /\ evidence'[d] = <<i>> /\ keyOf'[i] = d.key
    BY <1>1, <1>2, RecordedWithFacts
  <2>3. i \notin {"unseen", "unmatched"}
    BY NoneAssumption
  <2> QED
    BY <2>1, <2>2, <2>3 DEF RecordedOnce
<1>6. OpenedByFiring'
  <2>1. SUFFICES ASSUME NEW j \in Incidents, state[j] # "Absent"
                 PROVE  \E e \in Deliveries : e.status = "firing" /\ received'[e] = j
    BY <1>1 DEF OpenedByFiring
  <2>2. PICK e \in Deliveries : e.status = "firing" /\ received[e] = j
    BY <2>1 DEF StoreInv, OpenedByFiring
  <2>3. e # d
    BY <1>1, <2>2, NoneAssumption DEF Fresh
  <2> QED
    BY <1>1, <2>2, <2>3, RecordedWithFacts
<1> QED
  BY <1>3, <1>4, <1>5, <1>6 DEF StoreInv

(* A new incident gets the key nothing open has. *)
LEMMA OpensStep ==
  ASSUME StoreInv, NEW d \in Deliveries, NEW i \in Incidents, Opens(d, i)
  PROVE  StoreInv' /\ RowsStay /\ state[i] = "Absent" /\ state'[i] # "Absent"
<1>1. /\ Fresh(d) /\ RecordedWith(d, i) /\ d.status = "firing"
      /\ OpenFor(d.key) = {} /\ state[i] = "Absent"
  BY DEF Opens
<1>2. /\ state' = [state EXCEPT ![i] = "Received"]
      /\ keyOf' = [keyOf EXCEPT ![i] = d.key]
  BY DEF Opens
<1>3. /\ state'[i] = "Received" /\ keyOf'[i] = d.key
      /\ \A j \in Incidents \ {i} : state'[j] = state[j] /\ keyOf'[j] = keyOf[j]
  BY <1>2 DEF StoreInv, StoreTyped
<1>4. StoreTyped' /\ RowsStay
  <2>1. "Received" \in LifecycleState
    BY DEF LifecycleState
  <2>2. /\ state' \in [Incidents -> LifecycleState \cup {"Absent"}]
        /\ keyOf' \in [Incidents -> Keys \cup {None}]
    BY <1>2, <2>1, DeliveryFacts DEF StoreInv, StoreTyped
  <2> QED
    BY <1>1, <1>3, <2>2, DeliveryFacts, RecordedWithFacts DEF StoreInv, StoreTyped, RowsStay
<1>5. OneOpenPerKey'
  <2>1. SUFFICES ASSUME NEW j \in Incidents, NEW k \in Incidents,
                        state'[j] \in OpenStates, state'[k] \in OpenStates,
                        keyOf'[j] = keyOf'[k], j # k
                 PROVE  FALSE
    BY DEF OneOpenPerKey
  <2>2. \A h \in Incidents \ {i} : state'[h] \in OpenStates => keyOf'[h] # d.key
    BY <1>1, <1>3 DEF OpenFor
  <2>3. j # i /\ k # i
    BY <1>3, <2>1, <2>2
  <2> QED
    BY <1>3, <2>1, <2>3 DEF StoreInv, OneOpenPerKey
<1>6. RecordedOnce'
  <2>1. ASSUME NEW e \in Deliveries, e # d
        PROVE  IF received'[e] \in {"unseen", "unmatched"}
               THEN evidence'[e] = <<>>
               ELSE evidence'[e] = <<received'[e]>> /\ keyOf'[received'[e]] = e.key
    <3>1. received'[e] = received[e] /\ evidence'[e] = evidence[e]
      BY <1>1, <2>1, RecordedWithFacts
    <3>2. CASE received[e] \in {"unseen", "unmatched"}
      BY <3>1, <3>2 DEF StoreInv, RecordedOnce
    <3>3. CASE received[e] \notin {"unseen", "unmatched"}
      <4>1. evidence[e] = <<received[e]>> /\ keyOf[received[e]] = e.key
        BY <3>3 DEF StoreInv, RecordedOnce
      <4>2. received[e] \in Incidents
        BY <3>3 DEF StoreInv, StoreTyped
      <4>3. received[e] # i
        BY <1>1, <4>1, <4>2, DeliveryFacts DEF StoreInv, StoreTyped
      <4> QED
        BY <1>3, <3>1, <3>3, <4>1, <4>2, <4>3
    <3> QED
      BY <3>2, <3>3
  <2>2. received'[d] = i /\ evidence'[d] = <<i>>
    BY <1>1, RecordedWithFacts
  <2>3. i \notin {"unseen", "unmatched"}
    BY NoneAssumption
  <2> QED
    BY <1>3, <2>1, <2>2, <2>3 DEF RecordedOnce
<1>7. OpenedByFiring'
  <2>1. SUFFICES ASSUME NEW j \in Incidents, state'[j] # "Absent"
                 PROVE  \E e \in Deliveries : e.status = "firing" /\ received'[e] = j
    BY DEF OpenedByFiring
  <2>2. CASE j = i
    BY <1>1, <2>2, RecordedWithFacts
  <2>3. CASE j # i
    <3>1. PICK e \in Deliveries : e.status = "firing" /\ received[e] = j
      BY <1>3, <2>1, <2>3 DEF StoreInv, OpenedByFiring
    <3>2. e # d
      BY <1>1, <3>1, NoneAssumption DEF Fresh
    <3> QED
      BY <1>1, <3>1, <3>2, RecordedWithFacts
  <2> QED
    BY <2>2, <2>3
<1> QED
  BY <1>1, <1>3, <1>4, <1>5, <1>6, <1>7 DEF StoreInv

(* A transition keeps keys, and the index keeps them apart. *)
LEMMA MovesStep ==
  ASSUME StoreInv, NEW i \in Incidents, NEW goal, Moves(i, goal)
  PROVE  StoreInv' /\ RowsStay
<1>1. /\ state' = [state EXCEPT ![i] = goal] /\ UNCHANGED <<keyOf, received, evidence>>
      /\ goal \in LifecycleState /\ state[i] \in LifecycleState
      /\ goal \in OpenStates => OpenFor(keyOf[i]) \subseteq {i}
  BY MoveFacts DEF Moves, IndexAdmits
<1>2. "Absent" \notin LifecycleState
  BY DEF LifecycleState
<1>3. StoreTyped' /\ RowsStay
  BY <1>1, <1>2 DEF StoreInv, StoreTyped, RowsStay
<1>4. OneOpenPerKey'
  <2>1. SUFFICES ASSUME NEW j \in Incidents, NEW k \in Incidents,
                        state'[j] \in OpenStates, state'[k] \in OpenStates,
                        keyOf[j] = keyOf[k], j # k
                 PROVE  FALSE
    BY <1>1 DEF OneOpenPerKey
  <2>2. state'[i] = goal /\ \A h \in Incidents \ {i} : state'[h] = state[h]
    BY <1>1 DEF StoreInv, StoreTyped
  <2>3. CASE j # i /\ k # i
    BY <2>1, <2>2, <2>3 DEF StoreInv, OneOpenPerKey
  <2>4. CASE j = i
    BY <1>1, <2>1, <2>2, <2>4 DEF OpenFor
  <2>5. CASE k = i
    BY <1>1, <2>1, <2>2, <2>5 DEF OpenFor
  <2> QED
    BY <2>3, <2>4, <2>5
<1>5. RecordedOnce'
  BY <1>1 DEF StoreInv, RecordedOnce
<1>6. OpenedByFiring'
  BY <1>1, <1>2 DEF StoreInv, StoreTyped, OpenedByFiring
<1> QED
  BY <1>3, <1>4, <1>5, <1>6 DEF StoreInv

--------------------------------------------------------------------------------
(* The calls. *)

(* Calls that do not step go on driving what they drove. *)
LEMMA SameCalls ==
  ASSUME CallsInv, RowsStay, UNCHANGED calls
  PROVE  CallsInv'
BY DEF CallsInv, CallsTyped, DrivesRow, OneDriver, RowsStay, calls

(* A start that stops driving leaves the others to their incidents. *)
LEMMA StopsDriving ==
  ASSUME CallsInv, RowsStay, NEW t \in Starters,
         pc' = [pc EXCEPT ![t] = "idle"], driving' = [driving EXCEPT ![t] = None]
  PROVE  CallsInv'
BY DEF CallsInv, CallsTyped, DrivesRow, OneDriver, RowsStay

(* Only the start whose ingest opened the incident drives it: nobody can     *)
(* have driven a row that was not there.                                     *)
LEMMA StartIngestStep ==
  ASSUME IInv, NEW t \in Starters, NEW d \in Deliveries, StartIngest(t, d)
  PROVE  IInv'
<1>1. PICK i \in Incidents :
        \/ /\ Opens(d, i)
           /\ pc' = [pc EXCEPT ![t] = "Classified"]
           /\ driving' = [driving EXCEPT ![t] = i]
        \/ Updates(d, i) /\ UNCHANGED calls
  BY DEF StartIngest
<1>2. CASE Updates(d, i) /\ UNCHANGED calls
  BY <1>2, UpdatesStep, SameCalls DEF IInv
<1>3. CASE /\ Opens(d, i)
           /\ pc' = [pc EXCEPT ![t] = "Classified"]
           /\ driving' = [driving EXCEPT ![t] = i]
  <2>1. StoreInv' /\ RowsStay /\ state[i] = "Absent" /\ state'[i] # "Absent"
    BY <1>3, OpensStep DEF IInv
  <2>2. /\ pc'[t] = "Classified" /\ driving'[t] = i
        /\ \A u \in Starters \ {t} : pc'[u] = pc[u] /\ driving'[u] = driving[u]
    BY <1>3 DEF IInv, CallsInv, CallsTyped
  <2>3. CallsTyped'
    BY <1>3 DEF IInv, CallsInv, CallsTyped
  <2>4. DrivesRow'
    BY <2>1, <2>2 DEF IInv, CallsInv, DrivesRow, RowsStay
  <2>5. \A u \in Starters \ {t} : pc[u] # "idle" => driving[u] # i
    BY <2>1 DEF IInv, CallsInv, DrivesRow
  <2>6. OneDriver'
    BY <2>2, <2>5 DEF IInv, CallsInv, OneDriver
  <2> QED
    BY <2>1, <2>3, <2>4, <2>6 DEF IInv, CallsInv
<1> QED
  BY <1>1, <1>2, <1>3

(* The last transition ends the call, the others go to the next. *)
LEMMA StartMoveStep ==
  ASSUME IInv, NEW t \in Starters, StartMove(t)
  PROVE  IInv'
<1>1. driving[t] \in Incidents
  BY DEF IInv, CallsInv, DrivesRow, StartMove
<1>2. StoreInv' /\ RowsStay
  BY <1>1, MovesStep DEF IInv, StartMove
<1>3. CASE pc[t] = "Triaging"
  <2>1. pc' = [pc EXCEPT ![t] = "idle"] /\ driving' = [driving EXCEPT ![t] = None]
    BY <1>3 DEF StartMove, Follows
  <2> QED
    BY <1>2, <2>1, StopsDriving DEF IInv
<1>4. CASE pc[t] # "Triaging"
  <2>1. Follows(pc[t]) \in {"Enriched", "Triaging"}
    BY <1>4 DEF IInv, CallsInv, CallsTyped, StartMove, Follows
  <2>2. pc' = [pc EXCEPT ![t] = Follows(pc[t])] /\ UNCHANGED driving /\ pc[t] # "idle"
    BY <1>4 DEF StartMove
  <2>3. CallsInv'
    BY <1>2, <2>1, <2>2 DEF IInv, CallsInv, CallsTyped, DrivesRow, OneDriver, RowsStay
  <2> QED
    BY <1>2, <2>3 DEF IInv
<1> QED
  BY <1>3, <1>4

LEMMA IInvInit == Init => IInv
<1> SUFFICES ASSUME Init PROVE IInv
  OBVIOUS
<1>1. StoreTyped /\ CallsTyped
  BY DEF Init, StoreTyped, CallsTyped
<1>2. \A i \in Incidents : state[i] = "Absent"
  BY DEF Init
<1>3. "Absent" \notin OpenStates
  BY DEF OpenStates, LifecycleState
<1>4. OneOpenPerKey /\ OpenedByFiring
  BY <1>2, <1>3 DEF OneOpenPerKey, OpenedByFiring
<1>5. RecordedOnce /\ DrivesRow /\ OneDriver
  BY DEF Init, RecordedOnce, DrivesRow, OneDriver
<1> QED
  BY <1>1, <1>4, <1>5 DEF IInv, StoreInv, CallsInv

LEMMA IInvStep ==
  ASSUME IInv, [Next]_vars
  PROVE  IInv'
<1>1. ASSUME NEW d \in Deliveries, Ingest(d) PROVE IInv'
  BY <1>1, UnmatchedStep, UpdatesStep, OpensStep, SameCalls DEF IInv, Ingest
<1>2. ASSUME NEW i \in Incidents, Transition(i) PROVE IInv'
  BY <1>2, MovesStep, SameCalls DEF IInv, Transition
<1>3. ASSUME NEW t \in Starters, StartRefused(t) PROVE IInv'
  <2>1. StoreInv' /\ RowsStay
    BY <1>3 DEF IInv, StartRefused, store, RowsStay, StoreInv, StoreTyped,
                OneOpenPerKey, RecordedOnce, OpenedByFiring
  <2> QED
    BY <1>3, <2>1, StopsDriving DEF IInv, StartRefused
<1>4. CASE Crash
  <2>1. StoreInv'
    BY <1>4 DEF IInv, Crash, store, StoreInv, StoreTyped, OneOpenPerKey, RecordedOnce,
                OpenedByFiring
  <2>2. CallsInv'
    BY <1>4 DEF Crash, CallsInv, CallsTyped, DrivesRow, OneDriver
  <2> QED
    BY <2>1, <2>2 DEF IInv
<1>5. CASE UNCHANGED vars
  <2>1. StoreInv' /\ RowsStay
    BY <1>5 DEF IInv, vars, store, RowsStay, StoreInv, StoreTyped, OneOpenPerKey,
                RecordedOnce, OpenedByFiring
  <2> QED
    BY <1>5, <2>1, SameCalls DEF IInv, vars
<1> QED
  BY <1>1, <1>2, <1>3, <1>4, <1>5, StartIngestStep, StartMoveStep DEF Next

(* The store's and the calls' invariant hold of every behaviour. *)
THEOREM Invariance == Spec => []IInv
<1>1. Init => IInv
  BY IInvInit
<1>2. IInv /\ [Next]_vars => IInv'
  BY IInvStep
<1> QED
  BY <1>1, <1>2, PTL DEF Spec

(* Incidents, deliveries and demo starts stay within their types, and a row *)
(* without a key is a row that is not there.                                *)
THEOREM TypeCorrect == Spec => []TypeOK
<1>1. IInv => TypeOK
  BY TypeSplit DEF IInv, StoreInv, CallsInv
<1> QED
  BY <1>1, Invariance, PTL

(* No interleaving of deliveries, transitions and demo starts, and no crash, *)
(* leaves an alert group with two open incidents.                            *)
THEOREM OneOpenAlways == Spec => []OneOpenPerKey
<1>1. IInv => OneOpenPerKey
  BY DEF IInv, StoreInv
<1> QED
  BY <1>1, Invariance, PTL

(* A delivery leaves one evidence row, with an incident of its own group,   *)
(* however often it is retried.                                             *)
THEOREM RecordedOnceAlways == Spec => []RecordedOnce
<1>1. IInv => RecordedOnce
  BY DEF IInv, StoreInv
<1> QED
  BY <1>1, Invariance, PTL

(* Every incident there is was opened by a firing alert. *)
THEOREM OpenedByFiringAlways == Spec => []OpenedByFiring
<1>1. IInv => OpenedByFiring
  BY DEF IInv, StoreInv
<1> QED
  BY <1>1, Invariance, PTL

(* However many demo starts overlap, an incident has one of them driving it. *)
THEOREM OneDriverAlways == Spec => []OneDriver
<1>1. IInv => OneDriver
  BY DEF IInv, CallsInv
<1> QED
  BY <1>1, Invariance, PTL

--------------------------------------------------------------------------------
(* The ingress implements the alert book: each transaction is one entry of  *)
(* the book, or none.                                                       *)

(* One step of the book as the rows show it. *)
BookStep == [Book!BookNext]_(Book!bookVars)

(* What is open for a group is open alone. *)
LEMMA OpenAlone ==
  ASSUME StoreInv, NEW k, NEW i \in OpenFor(k)
  PROVE  OpenFor(k) = {i}
BY DEF StoreInv, OneOpenPerKey, OpenFor

(* An incident there is was opened by a notification of its own group. *)
LEMMA OwnNotice ==
  ASSUME StoreInv, NEW i \in Incidents, state[i] # "Absent"
  PROVE  /\ keyOf[i] \in Keys
         /\ \E d \in Deliveries : d.key = keyOf[i] /\ received[d] = i
<1>1. PICK d \in Deliveries : received[d] = i
  BY DEF StoreInv, OpenedByFiring
<1>2. i \notin {"unseen", "unmatched"}
  BY NoneAssumption
<1>3. keyOf[i] = d.key
  BY <1>1, <1>2 DEF StoreInv, RecordedOnce
<1> QED
  BY <1>1, <1>3, DeliveryFacts

(* Nothing was ever filed with an incident that is not there. *)
LEMMA AbsentUnused ==
  ASSUME StoreInv, NEW i \in Incidents, state[i] = "Absent"
  PROVE  ~Book!Used(i)
<1>1. SUFFICES ASSUME NEW d \in Deliveries, received[d] = i
               PROVE  FALSE
  BY DEF Book!Used
<1>2. i \notin {"unseen", "unmatched"}
  BY NoneAssumption
<1>3. keyOf[i] = d.key
  BY <1>1, <1>2 DEF StoreInv, RecordedOnce
<1> QED
  BY <1>3, DeliveryFacts DEF StoreInv, StoreTyped

(* Rows that keep state and key leave every group what it had open. *)
LEMMA SameOpen ==
  ASSUME UNCHANGED <<state, keyOf>>
  PROVE  [k \in Keys |-> OpenFor(k)]' = [k \in Keys |-> OpenFor(k)]
BY DEF OpenFor

(* The end of an alert nobody recorded is ignored. *)
LEMMA UnmatchedEntry ==
  ASSUME NEW d \in Deliveries, Unmatched(d)
  PROVE  Book!Ignore(d)
<1>1. d.key \in Keys
  BY DeliveryFacts
<1>2. [k \in Keys |-> OpenFor(k)]' = [k \in Keys |-> OpenFor(k)]
  BY SameOpen DEF Unmatched
<1>3. [k \in Keys |-> OpenFor(k)][d.key] = {}
  BY <1>1 DEF Unmatched
<1> QED
  BY <1>2, <1>3 DEF Unmatched, Fresh, Book!Ignore

(* An update or a resolution signal is attached to what is open. *)
LEMMA UpdatesEntry ==
  ASSUME StoreInv, NEW d \in Deliveries, NEW i \in Incidents, Updates(d, i)
  PROVE  Book!Attach(d, i)
<1>1. d.key \in Keys
  BY DeliveryFacts
<1>2. [k \in Keys |-> OpenFor(k)]' = [k \in Keys |-> OpenFor(k)]
  BY SameOpen DEF Updates
<1>3. [k \in Keys |-> OpenFor(k)][d.key] = {i}
  BY <1>1, OpenAlone DEF Updates
<1> QED
  BY <1>2, <1>3 DEF Updates, Fresh, RecordedWith, Book!Attach

(* A new row opens its group's incident. *)
LEMMA OpensEntry ==
  ASSUME StoreInv, NEW d \in Deliveries, NEW i \in Incidents, Opens(d, i)
  PROVE  Book!Open(d, i)
<1>1. /\ Fresh(d) /\ d.status = "firing" /\ OpenFor(d.key) = {} /\ state[i] = "Absent"
      /\ received' = [received EXCEPT ![d] = i]
  BY DEF Opens, RecordedWith
<1>2. d.key \in Keys /\ ~Book!Used(i)
  BY <1>1, DeliveryFacts, AbsentUnused
<1>3. /\ state'[i] = "Received" /\ keyOf'[i] = d.key
      /\ \A j \in Incidents \ {i} : state'[j] = state[j] /\ keyOf'[j] = keyOf[j]
  BY DEF StoreInv, StoreTyped, Opens
<1>4. "Received" \in OpenStates /\ "Absent" \notin OpenStates
  BY DEF OpenStates, LifecycleState
<1>5. OpenFor(d.key)' = {i}
  BY <1>1, <1>3, <1>4 DEF OpenFor
<1>6. \A k \in Keys \ {d.key} : OpenFor(k)' = OpenFor(k)
  BY <1>1, <1>3, <1>4 DEF OpenFor
<1>7. [k \in Keys |-> OpenFor(k)]' = [[k \in Keys |-> OpenFor(k)] EXCEPT ![d.key] = {i}]
  BY <1>2, <1>5, <1>6
<1>8. [k \in Keys |-> OpenFor(k)][d.key] = {}
  BY <1>1, <1>2
<1> QED
  BY <1>1, <1>2, <1>7, <1>8 DEF Fresh, Book!Open

(* A transition closes its group's incident, gives the group one back, or    *)
(* does not show in the book.                                                *)
LEMMA MovesEntry ==
  ASSUME StoreInv, NEW i \in Incidents, NEW goal, Moves(i, goal)
  PROVE  BookStep
<1>0. PICK key : key = keyOf[i]
  OBVIOUS
<1>1. /\ state' = [state EXCEPT ![i] = goal] /\ UNCHANGED <<keyOf, received>>
      /\ state[i] \in LifecycleState
      /\ goal \in OpenStates => OpenFor(key) \subseteq {i}
  BY <1>0, MoveFacts DEF Moves, IndexAdmits
<1>2. state'[i] = goal /\ \A j \in Incidents \ {i} : state'[j] = state[j]
  BY <1>1 DEF StoreInv, StoreTyped
<1>3. key \in Keys /\ \E d \in Deliveries : d.key = key /\ received[d] = i
  <2>1. state[i] # "Absent"
    BY <1>1 DEF LifecycleState
  <2> QED
    BY <1>0, <2>1, OwnNotice
<1>4. \A k \in Keys \ {key} : OpenFor(k)' = OpenFor(k)
  BY <1>0, <1>1, <1>2 DEF OpenFor
<1>5. CASE (state[i] \in OpenStates) <=> (goal \in OpenStates)
  <2>1. \A k \in Keys : OpenFor(k)' = OpenFor(k)
    BY <1>1, <1>2, <1>5 DEF OpenFor
  <2>2. [k \in Keys |-> OpenFor(k)]' = [k \in Keys |-> OpenFor(k)]
    BY <2>1
  <2> QED
    BY <1>1, <2>2 DEF BookStep, Book!bookVars
<1>6. CASE state[i] \in OpenStates /\ goal \notin OpenStates
  <2>1. OpenFor(key) = {i}
    BY <1>0, <1>6, OpenAlone DEF OpenFor
  <2>2. OpenFor(key)' = {}
    BY <1>0, <1>1, <1>2, <1>6, <2>1 DEF OpenFor
  <2>3. [k \in Keys |-> OpenFor(k)]' = [[k \in Keys |-> OpenFor(k)] EXCEPT ![key] = {}]
    BY <1>3, <1>4, <2>2
  <2>4. [k \in Keys |-> OpenFor(k)][key] # {}
    BY <1>3, <2>1
  <2>5. Book!Close(key)
    BY <1>1, <2>3, <2>4 DEF Book!Close
  <2> QED
    BY <1>3, <2>5 DEF BookStep, Book!BookNext
<1>7. CASE state[i] \notin OpenStates /\ goal \in OpenStates
  <2>1. OpenFor(key) = {}
    BY <1>1, <1>7 DEF OpenFor
  <2>2. OpenFor(key)' = {i}
    BY <1>0, <1>1, <1>2, <1>7, <2>1 DEF OpenFor
  <2>3. [k \in Keys |-> OpenFor(k)]' = [[k \in Keys |-> OpenFor(k)] EXCEPT ![key] = {i}]
    BY <1>3, <1>4, <2>2
  <2>4. [k \in Keys |-> OpenFor(k)][key] = {}
    BY <1>3, <2>1
  <2>5. Book!Reopen(key, i)
    BY <1>1, <1>3, <2>3, <2>4 DEF Book!Reopen
  <2> QED
    BY <1>3, <2>5 DEF BookStep, Book!BookNext
<1> QED
  BY <1>5, <1>6, <1>7

(* What a call keeps to itself is not in the book. *)
LEMMA SilentEntry ==
  ASSUME UNCHANGED store
  PROVE  BookStep
<1>1. [k \in Keys |-> OpenFor(k)]' = [k \in Keys |-> OpenFor(k)]
  BY SameOpen DEF store
<1> QED
  BY <1>1 DEF store, BookStep, Book!bookVars

LEMMA BookOpens == Init => Book!BookInit
<1> SUFFICES ASSUME Init PROVE Book!BookInit
  OBVIOUS
<1>1. \A k \in Keys : OpenFor(k) = {}
  BY DEF Init, OpenFor, OpenStates, LifecycleState
<1> QED
  BY <1>1 DEF Init, Book!BookInit

LEMMA BookStepOf ==
  ASSUME StoreInv, DrivesRow, [Next]_vars
  PROVE  BookStep
<1>1. ASSUME NEW d \in Deliveries, Unmatched(d) PROVE BookStep
  BY <1>1, UnmatchedEntry DEF BookStep, Book!BookNext
<1>2. ASSUME NEW d \in Deliveries, NEW i \in Incidents, Updates(d, i) PROVE BookStep
  BY <1>2, UpdatesEntry DEF BookStep, Book!BookNext
<1>3. ASSUME NEW d \in Deliveries, NEW i \in Incidents, Opens(d, i) PROVE BookStep
  BY <1>3, OpensEntry DEF BookStep, Book!BookNext
<1>4. ASSUME NEW d \in Deliveries, Ingest(d) PROVE BookStep
  BY <1>1, <1>2, <1>3, <1>4 DEF Ingest
<1>5. ASSUME NEW i \in Incidents, Transition(i) PROVE BookStep
  BY <1>5, MovesEntry DEF Transition
<1>6. ASSUME NEW t \in Starters, NEW d \in Deliveries, StartIngest(t, d) PROVE BookStep
  BY <1>2, <1>3, <1>6 DEF StartIngest
<1>7. ASSUME NEW t \in Starters, StartMove(t) PROVE BookStep
  <2>1. driving[t] \in Incidents
    BY <1>7 DEF DrivesRow, StartMove
  <2> QED
    BY <1>7, <2>1, MovesEntry DEF StartMove
<1>8. ASSUME NEW t \in Starters, StartRefused(t) PROVE BookStep
  BY <1>8, SilentEntry DEF StartRefused
<1>9. CASE Crash \/ UNCHANGED vars
  BY <1>9, SilentEntry DEF Crash, vars, store
<1> QED
  BY <1>4, <1>5, <1>6, <1>7, <1>8, <1>9 DEF Next

(* Every behaviour of the ingress, with its overlapping deliveries, demo    *)
(* starts and transitions, is one of the alert book: a notification is dealt *)
(* with once and for good, by the incident open for its group at that       *)
(* moment, and a group goes from one incident to another through none.      *)
THEOREM BookImplemented == Spec => ImplementsBook
<1>1. Init => Book!BookInit
  BY BookOpens
<1>2. IInv /\ [Next]_vars => [Book!BookNext]_(Book!bookVars)
  BY BookStepOf DEF IInv, CallsInv, BookStep
<1> QED
  BY <1>1, <1>2, Invariance, PTL DEF Spec, ImplementsBook, Book!BookSpec

================================================================================
