----------------------------- MODULE AlertIngress -----------------------------
(***************************************************************************)
(* How alert notifications become incident records: the ingest             *)
(* transaction with its retry and open-incident lookups, the demo          *)
(* controller that drives the incident it opened through three further     *)
(* transitions, the lifecycle moves other requests make meanwhile, and the *)
(* partial unique index all of them are subject to.                        *)
(*                                                                         *)
(* A notification stands for its canonical JSON: two deliveries with the   *)
(* same delivery hash are the same member of Deliveries.                   *)
(***************************************************************************)
EXTENDS Naturals, Sequences, Lifecycle

CONSTANTS
  Incidents,   (* identifiers incident rows can get (uuid4)                 *)
  Keys,        (* incident keys: version, group key and fingerprints        *)
  Deliveries,  (* webhook payloads, each with its key and its status        *)
  Starters,    (* worker threads serving a demo start                       *)
  CanCrash,    (* may the server process die and restart?                   *)
  None         (* no key, no incident                                       *)

Delivery == [key: Keys, status: {"firing", "resolved"}, serial: Nat]

ASSUME DeliveriesAssumption == Deliveries \subseteq Delivery
ASSUME CrashAssumption == CanCrash \in BOOLEAN
ASSUME NoneAssumption ==
  /\ None \notin Incidents /\ None \notin Keys
  /\ {"unseen", "unmatched"} \cap Incidents = {}

VARIABLES
  state,     (* incidents.lifecycle_state; "Absent" before the insert      *)
  keyOf,     (* incidents.incident_key                                     *)
  received,  (* alert_deliveries: the incident a delivery was stored with  *)
  evidence,  (* per delivery, the incidents an evidence row was added to   *)
  pc,        (* how far each demo start is                                 *)
  driving    (* the incident a demo start is moving to Triaging            *)

store == <<state, keyOf, received, evidence>>
calls == <<pc, driving>>
vars == <<store, calls>>

(* What the unique index and the ingest lookup call open.  The triage queue
   is narrower: it leaves RCA out as well. *)
OpenStates == LifecycleState \ {"Resolved", "RCAPublished"}

OpenFor(k) == {i \in Incidents : state[i] \in OpenStates /\ keyOf[i] = k}

TypeOK ==
  /\ state \in [Incidents -> LifecycleState \cup {"Absent"}]
  /\ keyOf \in [Incidents -> Keys \cup {None}]
  /\ \A i \in Incidents : keyOf[i] = None <=> state[i] = "Absent"
  /\ received \in [Deliveries -> Incidents \cup {"unseen", "unmatched"}]
  /\ evidence \in [Deliveries -> Seq(Incidents)]
  /\ pc \in [Starters -> {"idle", "Classified", "Enriched", "Triaging"}]
  /\ driving \in [Starters -> Incidents \cup {None}]

Init ==
  /\ state = [i \in Incidents |-> "Absent"]
  /\ keyOf = [i \in Incidents |-> None]
  /\ received = [d \in Deliveries |-> "unseen"]
  /\ evidence = [d \in Deliveries |-> <<>>]
  /\ pc = [t \in Starters |-> "idle"]
  /\ driving = [t \in Starters |-> None]

--------------------------------------------------------------------------------
(* store.ingest: one IMMEDIATE transaction.  A retry changes nothing; the   *)
(* other outcomes follow.                                                   *)

Fresh(d) == received[d] = "unseen"

(* A resolved notification nothing is open for is remembered, no more. *)
Unmatched(d) ==
  /\ Fresh(d)
  /\ d.status = "resolved"
  /\ OpenFor(d.key) = {}
  /\ received' = [received EXCEPT ![d] = "unmatched"]
  /\ UNCHANGED <<state, keyOf, evidence>>

(* Both rows an accepted delivery leaves: the delivery and its evidence. *)
RecordedWith(d, i) ==
  /\ received' = [received EXCEPT ![d] = i]
  /\ evidence' = [evidence EXCEPT ![d] = Append(@, i)]

(* Variant: the lookup takes any incident of the group, closed ones included. *)
UpdatesAnyOfGroup(d, i) ==
  /\ Fresh(d)
  /\ keyOf[i] = d.key
  /\ RecordedWith(d, i)
  /\ UNCHANGED <<state, keyOf>>

(* Variant: instead of a lookup, the delivery's row is inserted unless it is
   there (INSERT OR IGNORE); a retry then gets as far as the evidence. *)
UpdatesOrIgnores(d, i) ==
  /\ i \in OpenFor(d.key)
  /\ received' = [received EXCEPT ![d] = IF Fresh(d) THEN i ELSE @]
  /\ evidence' = [evidence EXCEPT ![d] = Append(@, i)]
  /\ UNCHANGED <<state, keyOf>>

(* A resolution signal or an alert update for the incident that is open. *)
Updates(d, i) ==
  /\ Fresh(d)
  /\ i \in OpenFor(d.key)
  /\ RecordedWith(d, i)
  /\ UNCHANGED <<state, keyOf>>

(* Variant: a resolved notification opens an incident as well. *)
OpensOnAnyStatus(d, i) ==
  /\ Fresh(d)
  /\ OpenFor(d.key) = {}
  /\ state[i] = "Absent"
  /\ state' = [state EXCEPT ![i] = "Received"]
  /\ keyOf' = [keyOf EXCEPT ![i] = d.key]
  /\ RecordedWith(d, i)

(* Variant: the row is inserted without its key. *)
OpensWithoutKey(d, i) ==
  /\ Fresh(d)
  /\ d.status = "firing"
  /\ OpenFor(d.key) = {}
  /\ state[i] = "Absent"
  /\ state' = [state EXCEPT ![i] = "Received"]
  /\ RecordedWith(d, i)
  /\ UNCHANGED keyOf

(* A firing alert nothing is open for opens an incident. *)
Opens(d, i) ==
  /\ Fresh(d)
  /\ d.status = "firing"
  /\ OpenFor(d.key) = {}
  /\ state[i] = "Absent"
  /\ state' = [state EXCEPT ![i] = "Received"]
  /\ keyOf' = [keyOf EXCEPT ![i] = d.key]
  /\ RecordedWith(d, i)

(* POST /ingress/alertmanager *)
Ingest(d) ==
  /\ Unmatched(d) \/ \E i \in Incidents : Updates(d, i) \/ Opens(d, i)
  /\ UNCHANGED calls

--------------------------------------------------------------------------------
(* store.transition, as every other request uses it.                        *)

(* Variant: the schema without the partial unique index. *)
NoIndexAdmits(i, goal) == goal \in LifecycleState

(* The index refuses a second open row for a key. *)
IndexAdmits(i, goal) ==
  goal \in OpenStates => OpenFor(keyOf[i]) \subseteq {i}

Moves(i, goal) ==
  /\ CanMove(state[i], goal)
  /\ IndexAdmits(i, goal)
  /\ state' = [state EXCEPT ![i] = goal]
  /\ UNCHANGED <<keyOf, received, evidence>>

(* Triage, remediation (see Remediation) and the RCA requests. *)
Transition(i) ==
  /\ \E goal \in LifecycleState : Moves(i, goal)
  /\ UNCHANGED calls

--------------------------------------------------------------------------------
(* POST /demo/scenarios/{scenario}.  The payload carries the present time,  *)
(* so its delivery is a new one.  The deployment's fault modes, patched     *)
(* first, are part of the world Remediation calls drift.                    *)

Follows(step) ==
  CASE step = "Classified" -> "Enriched"
    [] step = "Enriched"   -> "Triaging"
    [] step = "Triaging"   -> "idle"

(* Variant: the disposition is not looked at, every start moves what it got. *)
StartIngestAlwaysDrives(t, d) ==
  /\ pc[t] = "idle"
  /\ d.status = "firing"
  /\ \E i \in Incidents :
       /\ Opens(d, i) \/ Updates(d, i)
       /\ pc' = [pc EXCEPT ![t] = "Classified"]
       /\ driving' = [driving EXCEPT ![t] = i]

(* Only the start that created the incident goes on to move it. *)
StartIngest(t, d) ==
  /\ pc[t] = "idle"
  /\ \E i \in Incidents :
       \/ /\ Opens(d, i)
          /\ pc' = [pc EXCEPT ![t] = "Classified"]
          /\ driving' = [driving EXCEPT ![t] = i]
       \/ /\ Updates(d, i)
          /\ d.status = "firing"
          /\ UNCHANGED calls

(* One transition each; the last one ends the call. *)
StartMove(t) ==
  /\ pc[t] # "idle"
  /\ Moves(driving[t], pc[t])
  /\ pc' = [pc EXCEPT ![t] = Follows(pc[t])]
  /\ driving' = IF pc[t] = "Triaging" THEN [driving EXCEPT ![t] = None] ELSE driving

(* Somebody else moved the incident first: the transition raises, and the
   incident stays where it is. *)
StartRefused(t) ==
  /\ pc[t] # "idle"
  /\ ~CanMove(state[driving[t]], pc[t])
  /\ pc' = [pc EXCEPT ![t] = "idle"]
  /\ driving' = [driving EXCEPT ![t] = None]
  /\ UNCHANGED store

Crash ==
  /\ CanCrash
  /\ \E t \in Starters : pc[t] # "idle"
  /\ pc' = [t \in Starters |-> "idle"]
  /\ driving' = [t \in Starters |-> None]
  /\ UNCHANGED store

Next ==
  \/ \E d \in Deliveries : Ingest(d)
  \/ \E i \in Incidents : Transition(i)
  \/ \E t \in Starters :
       (\E d \in Deliveries : StartIngest(t, d)) \/ StartMove(t) \/ StartRefused(t)
  \/ Crash

Spec == Init /\ [][Next]_vars

--------------------------------------------------------------------------------

(* An alert group never has two open incidents, however deliveries, demo    *)
(* starts and the reopening of a Resolved record as RCA interleave          *)
(* (ARCHITECTURE.md: "it never opens a duplicate incident").                *)
OneOpenPerKey ==
  \A i, j \in Incidents :
    state[i] \in OpenStates /\ state[j] \in OpenStates /\ keyOf[i] = keyOf[j] => i = j

(* Every accepted delivery left exactly one evidence row, with an incident  *)
(* of its own alert group, however often it was delivered; a delivery that  *)
(* was never matched left none.                                             *)
RecordedOnce ==
  \A d \in Deliveries :
    IF received[d] \in {"unseen", "unmatched"}
    THEN evidence[d] = <<>>
    ELSE evidence[d] = <<received[d]>> /\ keyOf[received[d]] = d.key

(* Incidents are opened by firing alerts only: a resolved notification that *)
(* overtakes its firing one does not open a record.                         *)
OpenedByFiring ==
  \A i \in Incidents : state[i] # "Absent" =>
    \E d \in Deliveries : d.status = "firing" /\ received[d] = i

(* Two demo starts of a scenario never drive the same incident: the one     *)
(* that finds it open leaves the moves to the one that created it.          *)
OneDriver ==
  \A t, u \in Starters :
    pc[t] # "idle" /\ pc[u] # "idle" /\ driving[t] = driving[u] => t = u

(* "Recovery is verified. Draft the factual RCA from the persisted audit    *)
(* trail" (dashboard.py): a Resolved incident can be drafted.               *)
DraftAvailable ==
  \A i \in Incidents : state[i] = "Resolved" => IndexAdmits(i, "RCA")

(* The ingress implements the alert book.  The open incident of a group is  *)
(* read off the rows, what became of a notification off alert_deliveries.   *)
Book == INSTANCE AlertBook WITH
          Groups <- Keys, Notices <- Deliveries, Records <- Incidents,
          open <- [k \in Keys |-> OpenFor(k)], filed <- received

(* A notification is dealt with once and for good, by the incident that is  *)
(* open for its group at that moment; a group goes from one open incident   *)
(* to another only through having none; only a firing notification opens    *)
(* one, and only while none is open (store.ingest and the partial index).   *)
ImplementsBook == Book!BookSpec

================================================================================
