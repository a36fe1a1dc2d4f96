# OpsPilot, specified

TLA+ modules for the parts of OpsPilot that decide something: how alerts become
incidents, how one is investigated, how a proposed change is previewed,
approved, executed and verified, when recovery is believed, and what the console
puts on an incident's page. TLC checks small instances; TLAPS proves the safety
of ingress, investigation, remediation and recovery for every instance, and that
each of them implements an abstract specification of what it promises. Paths are
relative to `src/backend/opspilot/` unless they start with another directory.

## 1. The system

A FastAPI server (`api/main.py`) with synchronous endpoints, which FastAPI runs
on a pool of worker threads, so two requests really overlap. All state of the
program is in one SQLite file; the server keeps nothing between requests. It
talks to one Kubernetes deployment (read and patch), to Prometheus (read) and to
a language model (read-only investigation).

| Component | State | Operations | Talks to |
|---|---|---|---|
| Incident lifecycle (`domain/incidents.py`) | none; a table of 12 transitions | `validate_transition` | called by the store |
| Alert ingress (`domain/alerts.py`, `storage/incidents.py` `ingest`) | `incidents`, `alert_deliveries`, `incident_evidence`, the partial unique index `one_open_incident_per_key` | one IMMEDIATE transaction | webhook endpoint, demo controller |
| Demo controller (`simulation.py`) | none of its own | `start` (patch fault modes, ingest, three transitions), `reset` | Kubernetes, store |
| Remediation coordinator (`remediation.py`, `domain/actions.py`) | `action_plans`, `incidents.lifecycle_state` | `propose`, `approve`, `reject`, `execute`, `verify`, `list_for_incident`, lazy expiry | store, adapter, verifier |
| Kubernetes remediation adapter (`remediation.py`) | the deployment and its resourceVersion | `preview` (server dry run), `execute` (conditional patch) | Kubernetes |
| Recovery verifier (`recovery.py`) | the window a plan carries (`stability_observed_at`, `stability_restart_count`) | `verify` | Kubernetes, Prometheus |
| Store (`storage/incidents.py`) | the tables above, a timeline and two audit tables | one transaction per call | |
| Evidence collector (`evidence_collection.py`) | `evidence_records` | one record per fact of a snapshot, each by `append_evidence_if_new` | dashboard snapshot, store |
| Investigation (`investigation.py`) | `investigation_runs`, one row per report | bounded tool loop or rehearsal report, evidence-reference check | the model, store |
| Dashboard snapshot (`dashboard.py`) | none | `snapshot`: cluster and telemetry reads, parts of which may fail | Kubernetes, Prometheus |
| Event stream, post-mortem text | none (read models) | | store |
| Console (`src/frontend/src/main.tsx`) | React state: one variable per panel, one loading flag | asynchronous loads and operations, a refresh timer, an event stream | HTTP API |

What is hard, and what makes each part correct:

* **Remediation.** A request is several transactions and network calls; any
  other request runs between two of them. Only three things protect it: the
  compare-and-set of `update_action_plan`, the transition table, and the
  resourceVersion in the patch. A patch's answer can be lost, the process can
  die between any two steps, and nothing looks for unfinished work at startup.
  Correct means: what reaches the cluster is what a person approved, over the
  version they saw, once; the recorded status of a plan never misstates what
  reached the cluster; no incident is closed without a change; an incident
  always has a plan that can take it forward.
* **Recovery.** A verdict is computed from a window stored by an earlier
  check, perhaps by an overlapping one, over counters of pods that come and go,
  with outages in between. Correct means: no verdict before a full window, in
  either direction, and a verdict in the end for a deployment that stays
  healthy.
* **Ingress.** Notifications are retried and reordered, a resolved one may
  overtake the firing one, and demo starts race both. Correct means: one open
  incident per alert group, each delivery recorded once, incidents opened by
  firing alerts only and driven by the start that opened them.
* **Investigation.** One request takes a snapshot, stores its facts one by one,
  each by a lookup and an insert that share no lock, converses with the model
  for a bounded number of turns and stores a report. Requests overlap on one
  incident and run beside others, any step may fail, and the model may answer
  anything. Correct means: a report cites evidence of its own incident that is
  in the store; what the model is told was persisted has been; a fact is stored
  once; a request ends.
* **Console.** Each panel is set by the answer to its own request, answers come
  in any order, and the engineer goes on to another incident meanwhile. Correct
  means: what a page offers for approval belongs to the incident it shows.

The full list of hazards, each at its line, is in `PROJECT.json`.

## 2. Modules

| Module | Stands for |
|---|---|
| `Lifecycle` | The states, the transition table, the public endpoint's allowlist. |
| `Deployment` | The settings the adapter can write, `Patched` (what each action's patch does), `WouldChange` (the preview's no-change test). |
| `Remediation` | The coordinator, the adapter's calls, the endpoints that move an incident, drift, expiry, crash. |
| `ApprovalGate` | The abstract promise about cluster writes: preview, approve, write at most once at the previewed version, or void. |
| `Verification` | The abstract promise about verdicts, of the verifier and of the workflow: executed, then checked, then decided; a verdict is only ever replaced by that of an overlapping check. |
| `RemediationProperties` | The properties, the refinement mappings to `ApprovalGate` and `Verification`, and the inductive invariant. |
| `RemediationProofs` | `Inductive`, types, four safety properties and `OutcomeRecorded`, proved. |
| `RemediationRefinement` | The refinement of `ApprovalGate`, proved. |
| `VerificationProofs` | The refinement of `Verification` by `Remediation`, and what follows for closed incidents, proved. |
| `SerialProofs` | The properties between calls, proved for calls one at a time without a crash. |
| `Recovery` | The verifier's rules, the window across overlapping checks, the clock, the workload. |
| `RecoveryProofs` | Types, the two verdict properties and the refinement of `Verification` by `Recovery`, proved. |
| `AlertIngress` | The ingest transaction, the index, demo starts, lifecycle moves, crashes. |
| `AlertBook` | The abstract promise of the ingress: one open incident per group, each notification filed once, with the incident open at that moment. |
| `AlertIngressProofs` | Types, the four invariants and the refinement of `AlertBook`, proved. |
| `Investigation` | Snapshot, collector, tool loop, rehearsal, report, failures, crashes. |
| `EvidenceLedger` | The abstract promise of an investigation: everything shown is stored before the one answer, which rests on evidence stored with its incident. |
| `InvestigationProofs` | Types, the three invariants and the refinement of `EvidenceLedger`, proved. |
| `Console` | The panels of the page, its requests and their answers, the dialogs, the refresh timer, the event stream. |
| `ConsoleProofs` | Types of `Console`, and which step alone can break `PlanOfIncident`, proved. |
| `MCRemediation`, `MCRecovery`, `MCAlertIngress`, `MCInvestigation`, `MCConsole` | Values of the constants for TLC. |

`Remediation` composes `Lifecycle` and `Deployment`; `Recovery` and
`AlertIngress` each use one of them; `Investigation` and `Console` stand alone.
`Remediation` takes a verdict as given and
`Recovery` says when one is given; the two meet in `VerifyBegin` and
`Record`/`VerifyRecord`, which model the same lines from the two sides.
`Verification` is what both sides keep to: `Recovery` implements it for the one
plan it follows, pending results included, and `Remediation` for all its plans,
through preview, execution and crash. The abstract modules (`ApprovalGate`,
`Verification`, `AlertBook`, `EvidenceLedger`) have no locks, no compare-and-set,
no index and no lookup: that these bring about what the abstract steps say is
what a refinement claims. Their variables are read off the concrete ones by the
`WITH` clauses next to `ImplementsGate`, `ImplementsContract`, `ImplementsBook`
and `ImplementsLedger`.

### State and steps

In `Remediation`, `state`, `status`, `proposal` and `approved` are rows of the
store; `cluster` is the sequence of objects the API server stored, so that the
resourceVersion is its length; `pc`, `target` and `draft` are what a worker
thread holds between two steps. `expired` and `writes` are what the clock and
the cluster know; no guard reads `writes`. One action is one transaction or one
Kubernetes call. Where the code reads first and writes in a second transaction
the two are separate actions (`ReleaseRead`/`Release`, `ExecuteStart`/
`ExecuteClaim`, `ApproveBegin`/`ApproveCommit`, ...). They are one action only
in these cases, each with a comment at the action:

* the write repeats the test that was read (the compare-and-set of `ExpirePlan`
  and `InvalidatePlan`, the transition of `DraftPostmortem`);
* what was read cannot be undone: versions only grow and an expired plan stays
  expired, so in `ExecuteBegin` the plan that passes the last check passed the
  earlier ones, and in `ProposePreview` a dry run conditioned on the version
  saw the object the version was read from;
* the deployment and its pods, and a Kubernetes answer and the clock read after
  it, are one observation in `Recovery`.

In `Investigation` a fact is a source reference with its payload, because two
records with one content hash hold one fact. Workload status and telemetry carry
the time they were read at, so each request reads new ones; events and revisions
carry their own time and are met again. `copies` counts the rows of a fact, and
`storing` is the fact a collector has looked up and not found: the lookup and the
insert are two steps. So are the check of a report's citations and the insert of
the report, with `cited` in between. The snapshot's reads change nothing and are
one step, with every part of them that a failure leaves. `raced` is history: the facts two
collectors had both missed; no guard reads it. Alert rows that ingest adds
meanwhile would be further facts of the incident that no collector handles.

In `Recovery` a window carries `lost`, which is history: pods that had restarted
were replaced while it was open. No rule reads it.

In `Console` a panel keeps only the incident its content belongs to. A request
keeps what its closure keeps: the incident it asks about and the page it was sent
from. Requests alike in both count as one. Which buttons a lifecycle state offers
is left open; the queue and the demo buttons, which end in opening an incident
and in refreshing it, are not modelled.

Data that no property tells apart is left out: a plan's evidence citations,
fingerprints (a plan's proposal never changes after insertion, which is what the
fingerprint protects), timeline and audit rows, texts. `Verifying` is a status
the code declares and never writes.

Definitions whose comment begins with "Variant:" are plausible regressions of
the action next to them: a dropped guard, a missing reset, a lost lookup. No
specification uses them. Each is there to be put in the place of the real
action, where the property named for it in `PROJECT.json` must fail.

## 3. Runs

| Run | Question | Bounds |
|---|---|---|
| `remediation` | Do safety, the inductive invariant, the refinements and the record of outcomes hold under overlapping calls, drift, expiry, lost answers and crashes? | 2 callers, 2 plans of 1 incident, restore and restart, drift up to version 2, symmetry |
| `remediation_serial` | With calls one at a time, do incident and plans agree between calls, and does every execution finish? | 1 caller, 2 plans, all four actions and malformed requests, fairness |
| `verify_race` | violation: is a Resolved incident still Verified when verifications overlap? | 2 callers, 1 plan |
| `execute_race` | violation: does an execution finish when it loses its plan? | 2 callers, 1 plan, fairness |
| `release_crash` | violation: can a proposed incident be decided after a crash? | 1 caller, 1 plan, crash |
| `recovery` | Are verdicts never early, and does a healthy deployment get one? | 2 overlapping checks, one action of each rule, windows of 2 ticks, 1 replica, 1 restart, pods replaced, fairness |
| `pods_replaced` | violation: does "no restart for 30 seconds" survive pods being replaced? | 1 caller, 2 replicas |
| `scale_down` | violation: are ready replicas equal to the desired ones after a scale? | 1 caller, 2 replicas |
| `alert_ingress` | One open incident per group, every delivery once, one driver? | 3 incidents, 2 groups, 5 deliveries, 2 demo starts, crashes, symmetry |
| `investigation` | Are reports, evidence rows and snapshots consistent under overlap, failures and crashes, and does every request end? | 2 incidents, 2 workers, 2 requests, 2 tool turns, 1 event, 1 revision, 3 citation sets, fairness |
| `foreign_plan` | violation: does the plan on a page belong to the incident shown? | 2 incidents, 2 requests under way, symmetry |
| `draft_refused` | violation: can the RCA of a Resolved incident always be drafted? | 3 incidents, 1 start |

**Properties.** `PatchedAsApproved`, `AuditTruthful`, `OneExecutor`,
`ClosedAfterPatch`, `ClosedOnVerdict` and the refinements `ImplementsGate` and
`ImplementsContract` hold under any interleaving, with crashes.
`ClosedOnVerdict` is what overlapping verifications leave of
`ResolvedIsVerified`: a closed incident has a patched plan that is verified or,
being a response plan, was refuted since. `OutcomeRecorded` is an action property
of the call that claimed a plan: when it is done the plan is Executed or Failed,
unless the process died or the transition of a failed patch was refused. `ProposalDecidable`, `MonitoringVerifiable` and
`ResolvedIsVerified` relate the rows between calls; they hold when calls do not
overlap and the server does not die, and the violation runs show which overlap
or crash breaks two of them. `ExecutionFinishes` is liveness of the same kind.
`StableUnlessReplaced` and `RefutedOnlyAfterSettling` are action properties of the
step that reaches a verdict; the first exempts a verdict whose very window was open
when restarted pods were replaced, and `StableForWindow`, the promise without the
exemption, is what `pods_replaced` finds violated; `ImplementsContract` in `Recovery` relates the step
that stores a result to the check it comes from and to what the plan has become
since; `HealthyGetsVerified` is liveness. `OneOpenPerKey`, `RecordedOnce`,
`OpenedByFiring` and `OneDriver` are the ingress's invariants, and
`ImplementsBook` adds what no state shows: that a notification went to the
incident that was open when it arrived, and what became of it never changes.
`CitesOwnEvidence` relates a report to the rows of its incident;
`SnapshotPersisted` relates what a request read at its beginning to what the
store holds when the model is asked, whoever inserted it; `OnceUnlessRaced` says
exactly when the code stores a fact twice; `ImplementsLedger` ties these to the
order of things, that evidence comes first and a request is answered at most
once, whatever fails in between; `InvestigationEnds` is liveness.
`PlanOfIncident` relates two panels of a page. The comment above each definition
says it in words.

**Why the bounds are enough.** In `remediation` the conflicts are between two
calls about one plan or about two plans of one incident, and both patches can go
in: two callers, two plans and a restart (which changes the deployment whatever
its settings) cover them. Drift to version 2 and two patches give four versions,
so a preview is overtaken by drift and by the other plan's patch. Incidents meet
only in the deployment, where a second incident's plan acts like drift. In
`recovery` a window of 2 ticks has a moment inside, so that an event can come
before, in and after it; one restart separates a changed count from an unchanged
one, and replacing the pod takes it back to zero, at any moment. The response,
memory and scale actions stand for the three rules (a restart action is checked as
a memory action is), and the proofs hold for windows of any two lengths. In `alert_ingress` one group fires three times and
resolves once, which is enough to close an incident and open another; three
identifiers allow two generations of it and the other group's incident. In
`investigation` two requests are enough for every conflict: over one incident
they miss the same event together or one after the other, over two they tell the
incidents' rows apart, and one after the other they meet facts that are stored
already. The citation sets are both alert records together and an event record
of either incident, so a citation may be known, partly or wholly another
incident's, or of a row not there yet; the second tool turn separates "after the
first" from "after the last". In `foreign_plan` one request is overtaken by one
other. The bounds are the constants `MaxVersion` (drift only; patches are never
refused for it), `MaxReplicas`, `MaxRestarts`, `MaxCalls` and `MaxRequests`
(`MaxToolTurns` is a constant of the program); ages stop at `Horizon`, where
every window is over.

**Fairness.** `Remediation!FairSpec`: a handler that has begun takes its next
step. Worker threads are scheduled, SQLite waits are bounded by its busy
timeout and the Prometheus client times out after 5 seconds; the Kubernetes
calls carry no timeout of their own, so for them it is assumed that the API
server answers or the connection breaks. Nobody is obliged to send a request
and time need not pass.
`Recovery!FairSpec` adds that time passes and that the engineer asks for a
check again while the plan is undecided, which is what a pending result tells
them to do. `HealthyGetsVerified` also rests on the deployment staying healthy
from some point on with one restart count: neither restarts nor replaced pods go on
for ever.
`Investigation!Fairness`: a worker that has begun takes its next step. It rests
on the assumption that every outbound call returns or fails; the Kubernetes and
model calls set no timeout of their own. Nothing obliges the model to answer
rather than to ask for tools again, so `InvestigationEnds` comes from the bound
on tool turns.
`CHECK_DEADLOCK FALSE` is set because with all plans, deliveries or
investigations used, no incident open and no drift left the instances may stop.

## 4. Proofs

`RemediationProofs` proves, for any incidents, plans, callers, requests,
initial and drifted settings and any bound:

    Spec => []Inductive      (Invariance)
    Spec => []TypeOK         (TypeCorrect)
    Spec => []OneExecutor, []AuditTruthful, []PatchedAsApproved, []ClosedAfterPatch
    Spec => OutcomeRecorded  (OutcomeRecordedAlways)

`RemediationRefinement` proves `Spec => ImplementsGate` (GateImplemented), and
`VerificationProofs` proves `Spec => ImplementsContract` (ContractImplemented)
and `Spec => []ClosedOnVerdict` (ClosedOnVerdictAlways).
The assumptions are those of `Remediation`: requests and settings are of their
types, `CanCrash` is Boolean, `NoPlan` and `NoProposal` are not a plan and a
proposal. TLC evaluates them in every run.

`TypeOK` is not inductive: a call writes the proposal in its `draft` or the
status of its `target`, and these are of the right kind only where the call has
got to. `AuditTruthful` is not inductive either: the step that records Executed
relies on the caller having patched, and the step that patches relies on nobody
else having done so. The strengthening says what a caller's place implies:

* `CallsWellFormed`: where a call has a plan, and where its draft is bound to a
  version whose settings the patch changes;
* `ClaimsHeld`: between claim and outcome the plan is Executing and the call is
  alone with it;
* `CallsPatched`: before the patch the plan is not among the writes; after it,
  and throughout a verification, it is;
* `PlansWellFormed`: a row has a bound proposal, and a plan past the decision is
  approved;
* `WritesInHistory` and `BackedByPatch`: writes are over versions the
  deployment has had, and Monitoring, too, rests on a patch.

`ClaimsHeld` is the heart: only `ExecuteClaim` makes a plan Executing, only from
Approved, and every other step that takes a plan out of Executing is taken by
its executor, because the others are compare-and-sets from Previewed and
Approved or the unconditional write of `VerifyRecord`, whose caller found the
plan Executed and, by `CallsPatched`, still finds it Executed, Verified or
Failed. The proof has one lemma per action; frame lemmas (`RecordsKept`,
`CallsReturn`, `BackingKept`, ...) keep the group of conjuncts an action does not
touch. Calls about one plan share lemmas by shape: a status change, a move of
the incident, a write. `OutcomeRecorded` follows step by step: a caller's place
changes by its own steps and the crash only (`OthersStay`), and of the steps that
leave the execution one records Executed, one records Failed and one is refused.

The refinement maps a plan's gate to its status, except that a plan among the
writes is `written` whatever its row says: `Failed` after a lost answer, or
overwritten by a second verification. Each action is `Preview`, `Approve`,
`Void`, `Write`, `Drift` or a stutter, and its lemma uses `Inductive` for what
the guard of the abstract action needs: `Write` needs the plan not yet
written, and `Void` needs that a failed plan was not patched.

A plan's verdict in `Verification` is read off its status, and a caller is
checking from `VerifyBegin` until it has stored its result. `StepsSorted` sorts
the steps into those that begin a check, those that decide or execute a plan,
the crash, and those that leave decisions and checks alone. Here `Inductive`
gives that a plan being checked was executed (`CheckedPlan`), and one more
invariant is needed, `RefutesKnown`: who is about to refute a plan refutes a
response action.

`ClosedOnVerdict` is not inductive, since resolving is a step after the verdict is
stored. `VerdictInv` adds that a plan about to resolve its incident is decided
(`ResolvesOnVerdict`); that the plan's patch is in the cluster comes from
`Inductive`, and writes are never taken away (`WritesGrow`). That both stay true
is a consequence of the contract (`VerdictLasts`): none of its steps takes a
decided plan back to undecided, and only a refutable plan goes from verified to
failed. No action of `Remediation` is looked at for that part, only for who
resolves. The corollary `ResolvedIsVerifiedWithoutResponse` names the cause of the
finding in `verify_race`: as long as nobody asks for the response action,
`ResolvedIsVerified` holds under any overlap and any crash.

`SerialProofs` proves `ProposalDecidable`, `MonitoringVerifiable` and
`ResolvedIsVerified` under `Serial`: any two callers are the same one, and
`CanCrash` is false. They speak of quiet states only and say nothing of the
steps in between. `Between` does: `CallsKnow` says which status the call still
finds its plan in, and `Accounted` that an incident without such a plan is
already being moved on by the call (`releaseRead`, `releasing`, `resolving`).
Steps that change a status, move an incident or leave both alone each have one
lemma. The violation runs are what is left when either assumption is dropped.

`RecoveryProofs` proves `Spec => []TypeOK`, `Spec => RefutedOnlyAfterSettling` and
`Spec => StableUnlessReplaced`, for any window lengths, bounds and number of
overlapping checks. The strengthening, `WindowsSound`, is about every copy of a
window, in the plan, in what a check has read and in what it will store: an open
window is not older than the execution of the plan (`Settled`) and, unless it has
lost restarts, its restart count is not ahead of the present one and, where the
two are equal, it is not older than the last restart (`Watched`). Replacing pods
lowers the count and marks every open copy (`ReplaceStep`). Ageing keeps the order of ages (`OlderFacts`), each
rule hands out the window it was given, a fresh one or none (`RuleFacts`), so
which check stores its window last makes no difference. It also proves
`Spec => ImplementsContract`. A pending result maps to a check given up, which it
is only because `Record` stores it for a plan still Executed; a conclusion maps
to a decision. The extra invariant is `RefutesResponse`: only a response rule
has ever handed out a refutation.

`AlertIngressProofs` proves types, `OneOpenPerKey`, `RecordedOnce`,
`OpenedByFiring` and `OneDriver` for any incidents, alert groups, deliveries and
demo starts. `IInv` is their conjunction with `DrivesRow`: what a demo start
drives is a row. Its store half is kept by each transaction whoever runs it; its
calls half is what a start knows. `BookImplemented` maps the transactions to the
book's steps and everything else a call does to stutters. `OneOpenPerKey` makes
the open incident of a group one (`OpenAlone`), so that a move is a close, a
reopening or nothing for its group; `RecordedOnce` and `OpenedByFiring` give
that a reopened incident was opened by a notice of its own group (`OwnNotice`),
and `RecordedOnce` that nothing was filed with a row not there yet
(`AbsentUnused`).

`InvestigationProofs` proves types, `OnceUnlessRaced`, `SnapshotPersisted` and
`CitesOwnEvidence` for any incidents, workers, facts and citations.
`OnceUnlessRaced` is not inductive: an insert relies on what the lookup found a
step earlier. `Missed` says that a fact about to be inserted has no row or was
raced for, `MissedOnce` that two collectors about to insert one fact raced for
it, `DealtWith` and `AskedAfter` that what is no longer to do is in the store and
that the model is asked when nothing is to do, `CitesKnown` that what a checked
report cites stays known until it is stored, `AlertStored` that a rehearsal report
has something to cite. `LedgerImplemented` adds `FromSnapshot`, that a
collector handles nothing but what its own snapshot showed; then an insert is the
ledger's `Store`, a report its `Answer`, whose guard is `SnapshotPersisted` at the
moment of the answer, and a failure or a restart gives requests up. A fact's second
row is a stutter: the ledger knows sets.

`ConsoleProofs` proves types for any incidents and any number of requests under
way, and `ForeignPlanIsLate`: the page starts with `OwnPlan`, which implies
`PlanOfIncident`, and the one step that can end `OwnPlan` is `LateAnswer`, an answer
that arrives on another page than the one it was asked from. `OwnPlan` says that
plan and page agree and that what a page has sent is about its own incident; every
click keeps it, and so does an answer to the page that asked. So the run
`foreign_plan` shows the only way there is: as long as no answer comes late,
`PlanOfIncident` holds.

The assumptions are in every case those of the component's module, which TLC
evaluates in its runs, and the hypotheses named above.

Only checked by TLC: liveness (`ExecutionFinishes`, `HealthyGetsVerified`,
`InvestigationEnds`), which is out of the prover's reach under fairness.

## 5. What the checks found

* **`verify` writes its verdict without an expected status**
  (`remediation.py:436`). Of two overlapping verifications, the second can store
  Failed over the Verified the incident was resolved on. Run `verify_race`.
* **`execute` moves the incident before it claims the plan**
  (`remediation.py:347-354`). If another execute invalidates the plan in
  between, the incident stays Executing with nothing in execution; only a
  manual lifecycle request moves it on. Run `execute_race`.
* **Expiry and release are two transactions** (`remediation.py:471`). After a
  crash between them the plan is Expired, later reconciliations return early,
  and the incident stays ActionProposed with nothing to decide until somebody
  moves it by hand. Run `release_crash`.
* **The restart count is summed over the pods there are now**
  (`recovery.py:215`). A replaced pod can hide a restart inside the window. Run
  `pods_replaced`.
* **"Ready replicas must equal desired replicas" is tested as not fewer**
  (`recovery.py:60`). A scale-down is verified while surplus pods are ready.
  Run `scale_down`.
* **The unique index counts RCA as open and Resolved as closed**
  (`storage/incidents.py:41`). If the alert fires again before the RCA is
  drafted, drafting fails with an integrity error. Run `draft_refused`.
* **The console applies a preview's answer to whatever incident is shown**
  (`src/frontend/src/main.tsx:349`). Preview for one incident, open another
  from the queue, and the first one's plan stands on the second one's page,
  ready for review, under the words "tied to persisted records from this
  incident". Run `foreign_plan`. Server-side checks still bind the plan to its
  own incident.

Seen while modelling and not given a run:

* `docs/ARCHITECTURE.md:85` says a reset creates a new `opspilot_run_id`, while
  `simulation.py` always uses `ui-<scenario>`.
* An expiry that loses its compare-and-set makes a read endpoint fail.
* The exemption in `OnceUnlessRaced` is reachable: two investigations of one
  incident may store the same event twice (`storage/incidents.py:259`).
* A model that gives its final answer after the last allowed tool turn is told
  that it asked for too many (`investigation.py:121`).
* Of overlapping investigations the newest report is the one inserted last,
  which may be over the older snapshot.
* In the console, late answers to `openIncident` overwrite a later selection
  (`main.tsx:216`), and an answer about a post-mortem draft turns the incident
  panel back.
* `docs/USER_GUIDE.md:73` says the queue selects the highest-priority incident
  automatically; the console opens an incident only on a click, after a demo
  start or by link.

## 6. Not modelled, and the plan

Modelled first was what can damage a cluster (`Remediation`), then what can
misjudge it (`Recovery`), what starts an incident (`AlertIngress`), what advises
on it (`Investigation`) and what the engineer sees (`Console`). Left, in this
order:

1. **Ingress with remediation.** `AlertIngress` moves incidents by the bare
   table and `Remediation` has no keys. One module with both would check the
   demo start's order (fault on first, incident second, `simulation.py:79`), and
   that what `release_crash` and `draft_refused` show cannot combine into worse.
   Bounds: one key, two incidents, one plan each. It would also settle what an
   alert in the RCA state, open for the index and closed for the triage queue
   (`storage/incidents.py:134`), does to the queue.
2. **Demo `reset`** and the second of two starts winning the fault modes.
3. **The event stream's server side** and the console's queue, which orders what
   `Console` takes as any click.
4. **The safety part of the liveness properties**: the measures that only go
   down (what a collector has to do, turns left, a handler's steps to its end),
   which together with fairness, checked by TLC, bound every request.

Left out for good: the texts and figures the dashboard derives (its reads are in
`Investigation`), the post-mortem text, settings and the offline model fixture,
the telemetry adapters beyond what recovery and the snapshot read, the scripts,
the manifests and the demo workload. Liveness and `ENABLED` stay with TLC.
