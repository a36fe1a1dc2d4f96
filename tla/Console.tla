------------------------------- MODULE Console -------------------------------
(***************************************************************************)
(* The on-call console: what the page shows, and the requests it has sent  *)
(* and not heard of yet.  Every panel is stored on its own; of its content *)
(* only the incident it belongs to is kept.  An answer is applied when it  *)
(* arrives, whatever the page shows by then: answers come in any order and *)
(* the engineer goes on clicking.  Which buttons an incident's lifecycle   *)
(* state offers is left open: any of them may be there.  Not modelled: the *)
(* queue, and the demo buttons, which end in Open and Refresh.             *)
(***************************************************************************)
EXTENDS Naturals, FiniteSets

CONSTANTS
  Incidents,    (* incidents with a page                                     *)
  MaxRequests,  (* bound: requests under way; like ones count once           *)
  None          (* nothing shown, nothing under way                          *)

VARIABLES
  screen,   (* per panel, the incident its content belongs to                *)
  requests, (* what is under way: the incident asked about, the page it was
               asked from                                                    *)
  loading,  (* one flag for every operation that disables buttons            *)
  modal,    (* approvalOpen                                                  *)
  live      (* the refresh timer's request: its incident, or abandoned       *)

vars == <<screen, requests, loading, modal, live>>

Panel == {"incident", "timeline", "evidence", "dashboard", "report", "plan",
          "recovery", "postmortem"}

Op == {"open", "investigate", "preview", "decide", "execute", "verify",
       "refresh", "reopen", "settle", "draft", "reread", "publish"}

Request == [op : Op, of : Incidents, page : Incidents \cup {None}]

TypeOK ==
  /\ screen \in [Panel -> Incidents \cup {None}]
  /\ requests \subseteq Request
  /\ loading \in BOOLEAN /\ modal \in BOOLEAN
  /\ live \in Incidents \cup {"abandoned", None}

Init ==
  /\ screen = [p \in Panel |-> None]
  /\ requests = {}
  /\ loading = FALSE
  /\ modal = FALSE
  /\ live = None

Page == screen["incident"]

(* incident && dashboard: the rest of the page is drawn. *)
Drawn == Page # None /\ screen["dashboard"] # None

ModalShown == modal /\ screen["plan"] # None

(* A backdrop covers the page while a dialog is open. *)
Clickable == ~ModalShown /\ screen["postmortem"] = None

Sends(op, i) ==
  /\ Cardinality(requests) < MaxRequests
  /\ requests' = requests \cup {[op |-> op, of |-> i, page |-> Page]}

(* An operation whose finally clause clears the flag whoever set it. *)
Begins(op, i) == Sends(op, i) /\ loading' = TRUE /\ UNCHANGED <<screen, modal, live>>

(* The panels of the set get what was asked about i.  A panel change that
   takes another incident to the page abandons the timer's request. *)
Show(panels, i) ==
  /\ screen' = [p \in Panel |-> IF p \in panels THEN i ELSE screen[p]]
  /\ live' = IF "incident" \in panels /\ Page # i /\ live # None THEN "abandoned" ELSE live

Answered(r, op) == r \in requests /\ r.op = op /\ requests' = requests \ {r}

(* A multi-step operation: r is answered, its next request goes out. *)
Onwards(r, op, next) ==
  /\ r \in requests
  /\ r.op = op
  /\ requests' = (requests \ {r}) \cup {[r EXCEPT !.op = next]}

--------------------------------------------------------------------------------
(* openIncident.  The queue's buttons are never disabled. *)
Open(i) == Clickable /\ Begins("open", i)

Loaded(i) ==
  /\ \E hasPlan \in BOOLEAN, hasReport \in BOOLEAN, hasVerdict \in BOOLEAN :
       /\ hasVerdict => hasPlan
       /\ screen' = [p \in Panel |->
            IF \/ p = "postmortem"
               \/ p = "plan" /\ ~hasPlan
               \/ p = "report" /\ ~hasReport
               \/ p = "recovery" /\ ~hasVerdict
            THEN None ELSE i]
  /\ live' = IF Page # i /\ live # None THEN "abandoned" ELSE live
  /\ loading' = FALSE
  /\ UNCHANGED modal

LoadFails ==
  /\ Show({"incident", "timeline", "evidence", "dashboard"}, None)
  /\ loading' = FALSE
  /\ UNCHANGED modal

Opened(r) == Answered(r, "open") /\ (Loaded(r.of) \/ LoadFails)

CloseIncident ==
  /\ Clickable
  /\ Page # None
  /\ Show(Panel, None)
  /\ UNCHANGED <<requests, loading, modal>>

--------------------------------------------------------------------------------
(* The panels' operations.  The closure they run in keeps the incident and   *)
(* the plan that were shown at the click.                                    *)

Investigate == Clickable /\ Drawn /\ ~loading /\ Begins("investigate", Page)

Investigated(r) ==
  /\ Answered(r, "investigate")
  /\ Show({"report"}, r.of)
  /\ loading' = FALSE
  /\ UNCHANGED modal

PreviewAction ==
  Clickable /\ Drawn /\ ~loading /\ screen["evidence"] # None /\ Begins("preview", Page)

Previewed(r) ==
  /\ Answered(r, "preview")
  /\ screen' = [screen EXCEPT !["plan"] = r.of, !["recovery"] = None]
  /\ loading' = FALSE
  /\ UNCHANGED <<modal, live>>

ReviewPlan ==
  /\ Clickable /\ Drawn /\ screen["plan"] # None
  /\ modal' = TRUE
  /\ UNCHANGED <<screen, requests, loading, live>>

CancelReview ==
  /\ ModalShown
  /\ modal' = FALSE
  /\ UNCHANGED <<screen, requests, loading, live>>

(* approveAction, rejectAction *)
Decide == ModalShown /\ ~loading /\ Begins("decide", screen["plan"])

Decided(r) ==
  /\ Answered(r, "decide")
  /\ Show({"plan"}, r.of)
  /\ modal' = FALSE
  /\ loading' = FALSE

(* updateAction *)
Update(op) ==
  /\ op \in {"execute", "verify"}
  /\ Clickable /\ Drawn /\ ~loading /\ screen["plan"] # None
  /\ Begins(op, screen["plan"])

(* The plan is replaced, with the verdict when there is one.  The refresh
   awaited next is of the page the button was on. *)
Updated(r, op) ==
  /\ Onwards(r, op, "settle")
  /\ Show({"plan"} \cup {p \in {"recovery"} : op = "verify"}, r.of)
  /\ UNCHANGED <<loading, modal>>

(* A stale plan reloads that page before it is refreshed. *)
WentStale(r) ==
  /\ Onwards(r, "execute", "reopen")
  /\ loading' = TRUE
  /\ UNCHANGED <<screen, modal, live>>

Reopened(r) ==
  /\ Onwards(r, "reopen", "settle")
  /\ Loaded(r.page) \/ LoadFails

Settled(r) ==
  /\ Answered(r, "settle")
  /\ Show({"dashboard"}, r.page) \/ UNCHANGED <<screen, live>>
  /\ loading' = FALSE
  /\ UNCHANGED modal

(* An operation fails: a message, and the flag. *)
Failed(r) ==
  /\ r \in requests
  /\ r.op \in {"investigate", "preview", "decide", "execute", "verify"}
  /\ requests' = requests \ {r}
  /\ loading' = FALSE
  /\ UNCHANGED <<screen, modal, live>>

--------------------------------------------------------------------------------
(* Operations that leave the flag alone. *)

RefreshDashboard ==
  Clickable /\ Drawn /\ Sends("refresh", Page) /\ UNCHANGED <<screen, loading, modal, live>>

Refreshed(r) ==
  /\ Answered(r, "refresh")
  /\ Show({"dashboard"}, r.of) \/ UNCHANGED <<screen, live>>
  /\ UNCHANGED <<loading, modal>>

LoadPostmortem ==
  Clickable /\ Drawn /\ Sends("draft", Page) /\ UNCHANGED <<screen, loading, modal, live>>

Drafted(r) ==
  /\ Onwards(r, "draft", "reread")
  /\ Show({"postmortem"}, r.of)
  /\ UNCHANGED <<loading, modal>>

ClosePostmortem ==
  /\ screen["postmortem"] # None
  /\ Show({"postmortem"}, None)
  /\ UNCHANGED <<requests, loading, modal>>

PublishPostmortem ==
  /\ screen["postmortem"] # None /\ Page # None
  /\ Sends("publish", Page)
  /\ UNCHANGED <<screen, loading, modal, live>>

(* Only the incident panel is set: the others keep what they show. *)
Reread(r) ==
  /\ Answered(r, "reread") \/ Answered(r, "publish")
  /\ Show({"incident"}, r.of)
  /\ UNCHANGED <<loading, modal>>

Lost(r) ==
  /\ Answered(r, "draft") \/ Answered(r, "reread") \/ Answered(r, "publish")
  /\ UNCHANGED <<screen, loading, modal, live>>

--------------------------------------------------------------------------------
(* The effects bound to the incident shown: the refresh timer and the event  *)
(* stream.                                                                   *)

RefreshLiveSignals ==
  /\ Page # None
  /\ live = None
  /\ live' = Page
  /\ UNCHANGED <<screen, requests, loading, modal>>

LiveSignals ==
  /\ live # None
  /\ \/ live \in Incidents /\ screen' = [screen EXCEPT !["dashboard"] = live]
     \/ UNCHANGED screen
  /\ live' = None
  /\ UNCHANGED <<requests, loading, modal>>

StreamUpdate ==
  /\ Page # None
  /\ Show({"timeline"}, Page)
  /\ UNCHANGED <<requests, loading, modal>>

Clicks ==
  \/ \E i \in Incidents : Open(i)
  \/ CloseIncident \/ Investigate \/ PreviewAction \/ ReviewPlan \/ CancelReview
  \/ Decide \/ (\E op \in Op : Update(op))
  \/ RefreshDashboard \/ LoadPostmortem \/ ClosePostmortem \/ PublishPostmortem

Answers(r) ==
  \/ Opened(r) \/ Investigated(r) \/ Previewed(r) \/ Decided(r)
  \/ (\E op \in {"execute", "verify"} : Updated(r, op))
  \/ WentStale(r) \/ Reopened(r) \/ Settled(r) \/ Failed(r)
  \/ Refreshed(r) \/ Drafted(r) \/ Reread(r) \/ Lost(r)

Next ==
  \/ Clicks
  \/ \E r \in requests : Answers(r)
  \/ RefreshLiveSignals \/ LiveSignals \/ StreamUpdate

Spec == Init /\ [][Next]_vars

--------------------------------------------------------------------------------

(* "This plan is tied to persisted records from this incident" (the plan's  *)
(* panel): the plan a page offers for approval is the shown incident's own, *)
(* in whatever order answers arrive.                                        *)
PlanOfIncident == Drawn /\ screen["plan"] # None => screen["plan"] = Page

================================================================================
