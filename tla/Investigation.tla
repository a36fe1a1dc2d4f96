---------------------------- MODULE Investigation ----------------------------
(***************************************************************************)
(* An engineer's question about an incident: the dashboard snapshot, the   *)
(* evidence records the collector makes of it, the bounded conversation    *)
(* with the model (or the deterministic rehearsal report) and the report   *)
(* that is persisted.  Requests run in worker threads and overlap, any of  *)
(* them may fail, and the process may die with all of them.                *)
(*                                                                         *)
(* A fact is a source reference with its payload: two records with one     *)
(* content hash hold one fact.  Workload status and telemetry carry the    *)
(* time they were read at, so every request reads a new fact; events and   *)
(* deployment revisions carry their own, so they are read again and again. *)
(* The id of a record stands for its incident and its fact.                *)
(***************************************************************************)
EXTENDS Naturals

CONSTANTS
  Incidents,     (* incident rows; they are never deleted                    *)
  Workers,       (* threads serving POST /incidents/{id}/investigate         *)
  Events,        (* Kubernetes events of the workload                        *)
  Revisions,     (* its deployment revisions                                 *)
  MaxCalls,      (* bound: investigations started                            *)
  MaxToolTurns,  (* MAX_TOOL_TURNS                                           *)
  Citations,     (* the sets of records a model's report may cite            *)
  None           (* no incident, no fact, no report                          *)

ASSUME BoundsAssumption == MaxCalls \in Nat /\ MaxToolTurns \in Nat \ {0}

Alert == [source |-> "alert", key |-> 0]
Lasting == [source : {"event"}, key : Events] \cup [source : {"revision"}, key : Revisions]
Stamped(source, n) == [source |-> source, key |-> n]
Stamps == {Stamped(source, n) : source \in {"telemetry", "workload"}, n \in 1 .. MaxCalls}
Fact == {Alert} \cup Lasting \cup Stamps

RecordId == Incidents \X Fact
Report == [incident : Incidents, simulated : BOOLEAN, cites : SUBSET RecordId]

ASSUME NoneAssumption == None \notin Incidents /\ None \notin Fact /\ None \notin Report

(* The report schema: a hypothesis cites one record at least. *)
ASSUME CitationsAssumption == Citations \subseteq (SUBSET RecordId) \ {{}}

VARIABLES
  copies,    (* evidence_records: the rows that hold a fact of an incident   *)
  newest,    (* investigation_runs: the report inserted last                 *)
  simulated, (* settings.simulation_investigation_enabled                    *)
  calls,     (* investigations started                                       *)
  pc,        (* how far each worker's investigation is                       *)
  about,     (* the incident it is about                                     *)
  seen,      (* the facts of its dashboard snapshot                          *)
  todo,      (* those the collector has not dealt with                       *)
  storing,   (* the fact it found no row for and is about to insert          *)
  turns,     (* tool turns taken                                             *)
  cited,     (* the records its report cites, once they are checked          *)
  raced      (* history: facts two collectors missed before either stored it *)

world == <<simulated, calls>>
call == <<pc, about, seen, todo, storing, turns, cited>>
vars == <<copies, newest, world, call, raced>>

Step == {"append", "store", "asked", "rehearse", "report"}

TypeOK ==
  /\ copies \in [Incidents -> [Fact -> Nat]]
  /\ newest \in Report \cup {None}
  /\ simulated \in BOOLEAN
  /\ calls \in 0 .. MaxCalls
  /\ pc \in [Workers -> Step \cup {"idle"}]
  /\ about \in [Workers -> Incidents \cup {None}]
  /\ \A w \in Workers : pc[w] = "idle" <=> about[w] = None
  /\ seen \in [Workers -> SUBSET Fact]
  /\ todo \in [Workers -> SUBSET Fact]
  /\ storing \in [Workers -> Fact \cup {None}]
  /\ \A w \in Workers : pc[w] = "store" <=> storing[w] # None
  /\ turns \in [Workers -> 0 .. MaxToolTurns]
  /\ cited \in [Workers -> SUBSET RecordId]
  /\ \A w \in Workers : pc[w] = "report" <=> cited[w] # {}
  /\ raced \subseteq RecordId

(* Ingest stored the alert record with the incident (see AlertIngress). *)
Init ==
  /\ copies = [i \in Incidents |-> [f \in Fact |-> IF f = Alert THEN 1 ELSE 0]]
  /\ newest = None
  /\ simulated \in BOOLEAN
  /\ calls = 0
  /\ pc = [w \in Workers |-> "idle"]
  /\ about = [w \in Workers |-> None]
  /\ seen = [w \in Workers |-> {}]
  /\ todo = [w \in Workers |-> {}]
  /\ storing = [w \in Workers |-> None]
  /\ turns = [w \in Workers |-> 0]
  /\ cited = [w \in Workers |-> {}]
  /\ raced = {}

(* The request of w is over, with a report or with an exception. *)
Ends(w) ==
  /\ pc' = [pc EXCEPT ![w] = "idle"]
  /\ about' = [about EXCEPT ![w] = None]
  /\ seen' = [seen EXCEPT ![w] = {}]
  /\ todo' = [todo EXCEPT ![w] = {}]
  /\ storing' = [storing EXCEPT ![w] = None]
  /\ turns' = [turns EXCEPT ![w] = 0]
  /\ cited' = [cited EXCEPT ![w] = {}]

--------------------------------------------------------------------------------
(* POST /incidents/{id}/investigate: DashboardService.snapshot.  The reads  *)
(* change nothing, so they are one step.  An unknown incident or a blank    *)
(* question is refused.                                                     *)

(* Workload, history and events share one try block: a failure keeps what
   was read before it and skips the rest.  Events and revisions come and go
   in the cluster, and the snapshot keeps the newest of them: any set of them
   may be read. *)
KubernetesReads(n) ==
  {{}} \cup {{Stamped("workload", n)} \cup found : found \in SUBSET Lasting}

(* Every query answers, or the telemetry is unavailable as a whole. *)
TelemetryReads(n) == {{}, {Stamped("telemetry", n)}}

(* The snapshot is taken and the collector makes a record of each fact. *)
Start(w, i) ==
  /\ pc[w] = "idle"
  /\ calls < MaxCalls
  /\ calls' = calls + 1
  /\ \E k \in KubernetesReads(calls + 1), t \in TelemetryReads(calls + 1) :
       /\ seen' = [seen EXCEPT ![w] = k \cup t]
       /\ todo' = [todo EXCEPT ![w] = k \cup t]
  /\ pc' = [pc EXCEPT ![w] = "append"]
  /\ about' = [about EXCEPT ![w] = i]
  /\ UNCHANGED <<copies, newest, simulated, storing, turns, cited, raced>>

--------------------------------------------------------------------------------
(* LiveEvidenceCollector.collect: append_evidence_if_new for one record     *)
(* after the other.  The lookup holds no lock: the insert is a transaction  *)
(* of its own.                                                              *)

(* The order _records puts the sources in. *)
Rank == [telemetry |-> 1, workload |-> 2, event |-> 3, revision |-> 4]

IsNext(w, f) == f \in todo[w] /\ \A g \in todo[w] : Rank[f.source] <= Rank[g.source]

(* Variant: every record is appended. *)
NeverRecorded(i, f) == i \notin Incidents /\ f \notin Fact

(* Variant: the lookup matches the source and the hash, not the incident. *)
RecordedAnywhere(i, f) == \E j \in Incidents : copies[j][f] > 0

Recorded(i, f) == copies[i][f] > 0

LookupFinds(w) ==
  /\ pc[w] = "append"
  /\ \E f \in todo[w] :
       /\ IsNext(w, f)
       /\ Recorded(about[w], f)
       /\ todo' = [todo EXCEPT ![w] = @ \ {f}]
  /\ UNCHANGED <<copies, newest, world, pc, about, seen, storing, turns, cited, raced>>

(* Another worker that is about to insert the same fact for the incident. *)
Overlaps(w, f) == \E v \in Workers \ {w} : about[v] = about[w] /\ storing[v] = f

LookupMisses(w) ==
  /\ pc[w] = "append"
  /\ \E f \in todo[w] :
       /\ IsNext(w, f)
       /\ ~Recorded(about[w], f)
       /\ storing' = [storing EXCEPT ![w] = f]
       /\ raced' = raced \cup {id \in {<<about[w], f>>} : Overlaps(w, f)}
  /\ pc' = [pc EXCEPT ![w] = "store"]
  /\ UNCHANGED <<copies, newest, world, about, seen, todo, turns, cited>>

Insert(w) ==
  /\ pc[w] = "store"
  /\ copies' = [copies EXCEPT ![about[w]][storing[w]] = @ + 1]
  /\ todo' = [todo EXCEPT ![w] = @ \ {storing[w]}]
  /\ storing' = [storing EXCEPT ![w] = None]
  /\ pc' = [pc EXCEPT ![w] = "append"]
  /\ UNCHANGED <<newest, world, about, seen, turns, cited, raced>>

(* Variant: what could not be stored is skipped, and the model asked all the same. *)
CollectsWhatItCan(w) ==
  /\ pc[w] = "append"
  /\ pc' = [pc EXCEPT ![w] = IF simulated THEN "rehearse" ELSE "asked"]
  /\ todo' = [todo EXCEPT ![w] = {}]
  /\ UNCHANGED <<copies, newest, world, about, seen, storing, turns, cited, raced>>

(* Every record is dealt with: the report comes next. *)
Collected(w) ==
  /\ pc[w] = "append"
  /\ todo[w] = {}
  /\ pc' = [pc EXCEPT ![w] = IF simulated THEN "rehearse" ELSE "asked"]
  /\ UNCHANGED <<copies, newest, world, about, seen, todo, storing, turns, cited, raced>>

--------------------------------------------------------------------------------
(* InvestigationWorkflow.investigate.  The model is asked once more after   *)
(* every tool turn.                                                         *)

(* Variant: one turn too many. *)
CallsToolsOnceMore(w) ==
  /\ pc[w] = "asked"
  /\ turns' = [turns EXCEPT ![w] = @ + 1]
  /\ UNCHANGED <<copies, newest, world, pc, about, seen, todo, storing, cited, raced>>

(* The response asks for tools; they read the incident's own rows. *)
CallsTools(w) ==
  /\ pc[w] = "asked"
  /\ turns[w] < MaxToolTurns
  /\ turns' = [turns EXCEPT ![w] = @ + 1]
  /\ UNCHANGED <<copies, newest, world, pc, about, seen, todo, storing, cited, raced>>

(* Variant: the request starts over rather than being given up. *)
StartsOver(w) ==
  /\ pc[w] = "asked"
  /\ turns[w] = MaxToolTurns
  /\ turns' = [turns EXCEPT ![w] = 0]
  /\ UNCHANGED <<copies, newest, world, pc, about, seen, todo, storing, cited, raced>>

(* After the last turn the loop raises, whatever the response to it is. *)
GivesUp(w) ==
  /\ pc[w] = "asked"
  /\ turns[w] = MaxToolTurns
  /\ Ends(w)
  /\ UNCHANGED <<copies, newest, world, raced>>

(* Variant: the ids are looked up among the records of every incident. *)
KnownAnywhere(i) == {id \in RecordId : i \in Incidents /\ copies[id[1]][id[2]] > 0}

(* The ids of list_evidence. *)
KnownIds(i) == {id \in RecordId : id[1] = i /\ copies[i][id[2]] > 0}

(* Checked citations are held until the report is stored: the rows may have
   changed by then. *)
Passes(w, cites) ==
  /\ pc' = [pc EXCEPT ![w] = "report"]
  /\ cited' = [cited EXCEPT ![w] = cites]
  /\ UNCHANGED <<copies, newest, world, about, seen, todo, storing, turns, raced>>

(* The response is a report.  _validate_evidence_references lets it pass when
   it cites records of the incident only. *)
Answers(w) ==
  /\ pc[w] = "asked"
  /\ turns[w] < MaxToolTurns
  /\ \E cites \in Citations : cites \subseteq KnownIds(about[w]) /\ Passes(w, cites)

(* It cites a record of another incident, or one there is not. *)
AnswerRefused(w) ==
  /\ pc[w] = "asked"
  /\ turns[w] < MaxToolTurns
  /\ \E cites \in Citations : ~(cites \subseteq KnownIds(about[w]))
  /\ Ends(w)
  /\ UNCHANGED <<copies, newest, world, raced>>

(* _controlled_simulation_report: the alert and the last records, which one
   of the incident's stands for. *)
Rehearses(w) ==
  /\ pc[w] = "rehearse"
  /\ \E id \in KnownIds(about[w]) : Passes(w, {<<about[w], Alert>>, id})

(* record_investigation, a transaction of its own.  Reports are only ever
   added: what holds of the newest one whenever there is one holds of all. *)
RecordsReport(w) ==
  /\ pc[w] = "report"
  /\ newest' = [incident |-> about[w], simulated |-> simulated, cites |-> cited[w]]
  /\ Ends(w)
  /\ UNCHANGED <<copies, world, raced>>

(* The store is locked, the model does not answer, answers no report, or
   asks for another incident or tool: the exception ends the request and the
   records appended so far stay. *)
Raises(w) ==
  /\ pc[w] # "idle"
  /\ Ends(w)
  /\ UNCHANGED <<copies, newest, world, raced>>

--------------------------------------------------------------------------------
(* The process dies with every request in it; the rows stay. *)
Restart ==
  /\ \E w \in Workers : pc[w] # "idle"
  /\ pc' = [w \in Workers |-> "idle"]
  /\ about' = [w \in Workers |-> None]
  /\ seen' = [w \in Workers |-> {}]
  /\ todo' = [w \in Workers |-> {}]
  /\ storing' = [w \in Workers |-> None]
  /\ turns' = [w \in Workers |-> 0]
  /\ cited' = [w \in Workers |-> {}]
  /\ UNCHANGED <<copies, newest, world, raced>>

(* The steps a thread takes by itself, once its calls return. *)
Proceeds(w) ==
  \/ LookupFinds(w) \/ LookupMisses(w) \/ Insert(w) \/ Collected(w)
  \/ CallsTools(w) \/ GivesUp(w) \/ Answers(w)
  \/ AnswerRefused(w) \/ Rehearses(w) \/ RecordsReport(w)

Next ==
  \/ \E w \in Workers : (\E i \in Incidents : Start(w, i)) \/ Proceeds(w) \/ Raises(w)
  \/ Restart

Fairness == \A w \in Workers : WF_vars(Proceeds(w))

Spec == Init /\ [][Next]_vars /\ Fairness

--------------------------------------------------------------------------------

(* Every persisted report cites, and cites only, evidence of its own        *)
(* incident that is in the store (_validate_evidence_references), however   *)
(* requests about different incidents overlap between the check and the     *)
(* insert, and whatever a model answers.                                    *)
CitesOwnEvidence ==
  newest # None =>
    /\ newest.cites # {}
    /\ \A id \in newest.cites :
         id[1] = newest.incident /\ copies[newest.incident][id[2]] > 0

(* "Fresh ... data is persisted as evidence immediately before this         *)
(* investigation" (_INSTRUCTIONS): once the model is asked, every fact of   *)
(* the snapshot has a row with the incident, whoever inserted it.           *)
SnapshotPersisted ==
  \A w \in Workers : pc[w] \in {"asked", "rehearse", "report"} =>
    \A f \in seen[w] : copies[about[w]][f] > 0

(* "Append a fact only once when its source payload has not changed"        *)
(* (append_evidence_if_new) holds of every fact but one two collectors      *)
(* looked up before either inserted it: later requests, restarts and facts  *)
(* that come back add no further row.                                       *)
OnceUnlessRaced ==
  \A i \in Incidents, f \in Fact : copies[i][f] > 1 => <<i, f>> \in raced

(* An investigation comes to an end, with a report or an error, however     *)
(* often the model asks for tools, as long as every call returns.           *)
InvestigationEnds == \A w \in Workers : pc[w] # "idle" ~> pc[w] = "idle"

(* The investigation implements the evidence ledger: what is stored are the *)
(* facts that have a row.                                                   *)
Ledger == INSTANCE EvidenceLedger WITH
            Cases <- Incidents, Askers <- Workers, Facts <- Fact, Reports <- Report,
            First <- Alert, Nothing <- None,
            stored <- [i \in Incidents |-> {f \in Fact : copies[i][f] > 0}],
            shows <- seen, report <- newest

(* Evidence comes first and stays: an incident is given only facts that a   *)
(* request about it has read, never loses one, and a request is answered at *)
(* most once, about its own incident, when all it has read is stored, by a  *)
(* report that rests on what is stored then (the order of investigate in    *)
(* api/main.py, append-only evidence, _validate_evidence_references).       *)
ImplementsLedger == Ledger!LedgerSpec

================================================================================
