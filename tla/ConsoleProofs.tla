----------------------------- MODULE ConsoleProofs -----------------------------
(***************************************************************************)
(* Proofs about Console: types, and what it takes for a page to offer      *)
(* another incident's plan.  Any number of requests may be under way and   *)
(* answered in any order; the run of MCConsole shows that it does happen,  *)
(* and the theorem that nothing but a late answer brings it about.         *)
(***************************************************************************)
EXTENDS Console, TLAPS

USE DEF Page

--------------------------------------------------------------------------------
(* Types.                                                                    *)

Shown == Incidents \cup {None}

LEMMA ShowTyped ==
  ASSUME TypeOK, NEW panels, NEW i \in Shown, Show(panels, i)
  PROVE  screen' \in [Panel -> Shown] /\ live' \in Incidents \cup {"abandoned", None}
BY DEF TypeOK, Show, Shown

LEMMA LoadedTyped ==
  ASSUME TypeOK, NEW i \in Shown, Loaded(i) \/ LoadFails
  PROVE  /\ screen' \in [Panel -> Shown] /\ live' \in Incidents \cup {"abandoned", None}
         /\ loading' \in BOOLEAN /\ modal' \in BOOLEAN
<1>1. CASE LoadFails
  BY <1>1, ShowTyped DEF TypeOK, LoadFails, Shown
<1>2. CASE Loaded(i)
  BY <1>2 DEF TypeOK, Loaded, Shown
<1> QED
  BY <1>1, <1>2

LEMMA SendsTyped ==
  ASSUME TypeOK, NEW op \in Op, NEW i \in Incidents, Sends(op, i)
  PROVE  requests' \subseteq Request
<1>1. Page \in Shown
  BY DEF TypeOK, Panel, Shown
<1> QED
  BY <1>1 DEF TypeOK, Sends, Request, Shown

LEMMA OnwardsTyped ==
  ASSUME TypeOK, NEW r \in Request, NEW op, NEW next \in Op, Onwards(r, op, next)
  PROVE  requests' \subseteq Request
<1>1. [r EXCEPT !.op = next] \in Request
  BY DEF Request
<1> QED
  BY <1>1 DEF TypeOK, Onwards

(* The panels are there, and hold incidents or nothing. *)
LEMMA PanelFacts ==
  ASSUME TypeOK
  PROVE  /\ Page \in Shown /\ screen["plan"] \in Shown
         /\ {"incident", "plan", "dashboard"} \subseteq Panel
BY DEF TypeOK, Panel, Shown

LEMMA ClicksTyped ==
  ASSUME TypeOK, Clicks
  PROVE  TypeOK'
<1>1. Page # None => Page \in Incidents
  BY PanelFacts DEF Shown
<1>2. screen["plan"] # None => screen["plan"] \in Incidents
  BY PanelFacts DEF Shown
<1>3. ASSUME NEW op \in Op, NEW i \in Incidents, Begins(op, i) PROVE TypeOK'
  BY <1>3, SendsTyped DEF TypeOK, Begins
<1>4. ASSUME NEW op \in Op, NEW i \in Incidents, Sends(op, i),
             UNCHANGED <<screen, loading, modal, live>>
      PROVE  TypeOK'
  BY <1>4, SendsTyped DEF TypeOK
<1>5. ASSUME NEW i \in Incidents, Open(i) PROVE TypeOK'
  BY <1>3, <1>5 DEF Open, Op
<1>6. CASE CloseIncident \/ ClosePostmortem
  BY <1>6, ShowTyped DEF CloseIncident, ClosePostmortem, TypeOK, Shown
<1>7. CASE Investigate \/ PreviewAction
  BY <1>1, <1>3, <1>7 DEF Investigate, PreviewAction, Drawn, Op
<1>8. CASE ReviewPlan \/ CancelReview
  BY <1>8 DEF ReviewPlan, CancelReview, TypeOK
<1>9. CASE Decide \/ \E op \in Op : Update(op)
  BY <1>2, <1>3, <1>9 DEF Decide, Update, ModalShown, Op
<1>10. CASE RefreshDashboard \/ LoadPostmortem \/ PublishPostmortem
  BY <1>1, <1>4, <1>10 DEF RefreshDashboard, LoadPostmortem, PublishPostmortem, Drawn, Op
<1> QED
  BY <1>5, <1>6, <1>7, <1>8, <1>9, <1>10 DEF Clicks

LEMMA AnswersTyped ==
  ASSUME TypeOK, NEW r \in requests, Answers(r)
  PROVE  TypeOK'
<1>1. r \in Request /\ r.of \in Incidents /\ r.of \in Shown /\ r.page \in Shown
  BY DEF TypeOK, Request, Shown
<1>2. \A op : Answered(r, op) => requests' \subseteq Request
  BY DEF Answered, TypeOK
<1>3. ASSUME NEW panels, Show(panels, r.of) \/ Show(panels, r.page) \/ UNCHANGED <<screen, live>>
      PROVE  screen' \in [Panel -> Shown] /\ live' \in Incidents \cup {"abandoned", None}
  BY <1>1, <1>3, ShowTyped DEF TypeOK, Shown
<1>4. CASE Opened(r)
  BY <1>1, <1>2, <1>4, LoadedTyped DEF Opened, TypeOK, Shown
<1>5. CASE Investigated(r) \/ Decided(r) \/ Settled(r) \/ Refreshed(r) \/ Reread(r)
  BY <1>2, <1>3, <1>5 DEF Investigated, Decided, Settled, Refreshed, Reread, TypeOK, Shown
<1>6. CASE Previewed(r)
  BY <1>1, <1>2, <1>6 DEF Previewed, TypeOK
<1>7. ASSUME NEW op, Updated(r, op) PROVE TypeOK'
  <2>1. requests' \subseteq Request
    BY <1>1, <1>7, OnwardsTyped DEF Updated, Op
  <2> QED
    BY <1>3, <1>7, <2>1 DEF Updated, TypeOK, Shown
<1>8. CASE WentStale(r)
  BY <1>1, <1>8, OnwardsTyped DEF WentStale, Op, TypeOK
<1>9. CASE Reopened(r)
  <2>1. requests' \subseteq Request
    BY <1>1, <1>9, OnwardsTyped DEF Reopened, Op
  <2> QED
    BY <1>1, <1>9, <2>1, LoadedTyped DEF Reopened, TypeOK, Shown
<1>10. CASE Failed(r) \/ Lost(r)
  BY <1>2, <1>10 DEF Failed, Lost, TypeOK
<1>11. CASE Drafted(r)
  <2>1. requests' \subseteq Request
    BY <1>1, <1>11, OnwardsTyped DEF Drafted, Op
  <2> QED
    BY <1>3, <1>11, <2>1 DEF Drafted, TypeOK, Shown
<1> QED
  BY <1>4, <1>5, <1>6, <1>7, <1>8, <1>9, <1>10, <1>11 DEF Answers

LEMMA TypeStep ==
  ASSUME TypeOK, [Next]_vars
  PROVE  TypeOK'
<1>1. CASE RefreshLiveSignals
  BY <1>1, PanelFacts DEF RefreshLiveSignals, TypeOK, Shown
<1>2. CASE LiveSignals
  BY <1>2 DEF LiveSignals, TypeOK
<1>3. CASE StreamUpdate
  BY <1>3, PanelFacts, ShowTyped DEF StreamUpdate, TypeOK, Shown
<1>4. CASE UNCHANGED vars
  BY <1>4 DEF vars, TypeOK
<1> QED
  BY <1>1, <1>2, <1>3, <1>4, ClicksTyped, AnswersTyped DEF Next

(* The page, its requests and its refresh timer stay within their types,     *)
(* however many requests are under way.                                      *)
THEOREM TypeCorrect == Spec => []TypeOK
<1>1. Init => TypeOK
  BY DEF Init, TypeOK
<1>2. TypeOK /\ [Next]_vars => TypeOK'
  BY TypeStep
<1> QED
  BY <1>1, <1>2, PTL DEF Spec

--------------------------------------------------------------------------------
(* The plan a page offers.  It is the page's own as long as every request is *)
(* answered on the page it was sent from.                                    *)

PlanShown == screen["plan"]

(* A request about the incident of the page it was sent from.  A plan alone  *)
(* can still be decided: the dialog stays when a page fails to load.         *)
FromOwnPage(r) == r.page = r.of \/ (r.op = "decide" /\ r.page = None)

(* The plan belongs to the page, if both are there, and what a page has sent *)
(* is about its own incident.                                                *)
OwnPlan ==
  /\ Page # None /\ PlanShown # None => PlanShown = Page
  /\ \A r \in requests : r.op # "open" => FromOwnPage(r)

(* An answer that sets the plan, or the incident alone, arrives on another   *)
(* page than the one its request was sent from.                              *)
LateAnswer ==
  \E r \in requests :
    /\ r.op \in {"preview", "decide", "execute", "verify", "reread", "publish"}
    /\ r.page # Page
    /\ r \notin requests'

(* What an answer or a click makes of the two panels. *)
LEMMA ShowPanels ==
  ASSUME NEW panels, NEW i, Show(panels, i)
  PROVE  /\ screen'["incident"] = IF "incident" \in panels THEN i ELSE Page
         /\ screen'["plan"] = IF "plan" \in panels THEN i ELSE PlanShown
BY DEF Show, Panel, PlanShown

LEMMA LoadedPanels ==
  ASSUME NEW i, Loaded(i) \/ LoadFails
  PROVE  \/ screen'["incident"] = i /\ screen'["plan"] \in {None, i}
         \/ screen'["incident"] = None
<1>1. CASE Loaded(i)
  BY <1>1 DEF Loaded, Panel
<1>2. CASE LoadFails
  BY <1>2, ShowPanels DEF LoadFails
<1> QED
  BY <1>1, <1>2

(* Both panels stay, and no request is added. *)
LEMMA SamePanels ==
  ASSUME OwnPlan, screen'["incident"] = Page, screen'["plan"] = PlanShown,
         requests' \subseteq requests
  PROVE  OwnPlan'
BY DEF OwnPlan, PlanShown

(* A request about the incident on the page, or the plan there. *)
LEMMA SendsOwn ==
  ASSUME OwnPlan, NEW op, NEW i, Sends(op, i), UNCHANGED screen,
         op # "open" => Page = i \/ (op = "decide" /\ Page = None)
  PROVE  OwnPlan'
BY DEF OwnPlan, FromOwnPage, PlanShown, Sends

(* A click never takes another incident's plan to the page. *)
LEMMA ClicksOwn ==
  ASSUME OwnPlan, Clicks
  PROVE  OwnPlan'
<1>1. ASSUME NEW op, Sends(op, Page), UNCHANGED screen PROVE OwnPlan'
  BY <1>1, SendsOwn
<1>2. ASSUME NEW op, op = "decide" \/ Page # None, PlanShown # None, Sends(op, PlanShown),
             UNCHANGED screen
      PROVE  OwnPlan'
  BY <1>2, SendsOwn DEF OwnPlan
<1>3. ASSUME NEW i \in Incidents, Open(i) PROVE OwnPlan'
  BY <1>3, SendsOwn DEF Open, Begins
<1>4. CASE CloseIncident
  <2>1. screen'["incident"] = None /\ requests' = requests
    BY <1>4, ShowPanels DEF CloseIncident, Panel
  <2> QED
    BY <2>1 DEF OwnPlan, PlanShown
<1>5. CASE ClosePostmortem
  BY <1>5, ShowPanels, SamePanels DEF ClosePostmortem
<1>6. CASE ReviewPlan \/ CancelReview
  BY <1>6, SamePanels DEF ReviewPlan, CancelReview, PlanShown
<1>7. CASE Investigate \/ PreviewAction \/ RefreshDashboard \/ LoadPostmortem \/ PublishPostmortem
  BY <1>1, <1>7
  DEF Investigate, PreviewAction, RefreshDashboard, LoadPostmortem, PublishPostmortem, Begins
<1>8. CASE Decide
  BY <1>2, <1>8 DEF Decide, ModalShown, Begins, PlanShown
<1>9. ASSUME NEW op, Update(op) PROVE OwnPlan'
  BY <1>2, <1>9 DEF Update, Drawn, Begins, PlanShown
<1> QED
  BY <1>3, <1>4, <1>5, <1>6, <1>7, <1>8, <1>9 DEF Clicks

(* An answer on the page its request was sent from keeps the plan there.     *)
LEMMA AnswersOwn ==
  ASSUME TypeOK, OwnPlan, ~LateAnswer, NEW r \in requests, Answers(r)
  PROVE  OwnPlan'
<1>1. r.op # "open" => FromOwnPage(r)
  BY DEF OwnPlan
<1>2. \A op : Answered(r, op) => r.op = op /\ requests' = requests \ {r}
  BY DEF Answered
<1>3. \A op, next :
        Onwards(r, op, next) => r.op = op /\ requests' = (requests \ {r}) \cup {[r EXCEPT !.op = next]}
  BY DEF Onwards
<1>4. \A next \in Op \ {r.op} :
        /\ [r EXCEPT !.op = next].page = r.page /\ [r EXCEPT !.op = next].of = r.of
        /\ [r EXCEPT !.op = next] # r
  BY DEF TypeOK, Request
<1>5. ASSUME screen'["incident"] # None /\ screen'["plan"] # None
               => screen'["plan"] = screen'["incident"],
             requests' \subseteq requests
      PROVE  OwnPlan'
  BY <1>5 DEF OwnPlan, PlanShown
<1>6. ASSUME screen'["incident"] # None /\ screen'["plan"] # None
               => screen'["plan"] = screen'["incident"],
             NEW next \in Op \ {r.op}, r.op \notin {"open", "decide"},
             requests' = (requests \ {r}) \cup {[r EXCEPT !.op = next]}
      PROVE  OwnPlan'
  BY <1>1, <1>4, <1>6 DEF OwnPlan, FromOwnPage, PlanShown
<1>7. ASSUME r \notin requests', r.op \in {"preview", "decide", "execute", "verify", "reread", "publish"}
      PROVE  Page \in {None, r.of}
  BY <1>1, <1>7 DEF LateAnswer, FromOwnPage
<1>8. CASE Opened(r)
  BY <1>2, <1>5, <1>8, LoadedPanels DEF Opened
<1>9. CASE Investigated(r) \/ Settled(r) \/ Refreshed(r) \/ Failed(r) \/ Lost(r)
  <2>1. requests' \subseteq requests
    BY <1>9 DEF Investigated, Settled, Refreshed, Failed, Lost, Answered
  <2>2. screen'["incident"] = Page /\ screen'["plan"] = PlanShown
    BY <1>9, ShowPanels DEF Investigated, Settled, Refreshed, Failed, Lost, PlanShown
  <2> QED
    BY <2>1, <2>2, SamePanels
<1>10. CASE Previewed(r)
  <2>1. screen'["incident"] = Page /\ screen'["plan"] = r.of
    BY <1>10 DEF Previewed, TypeOK, Panel
  <2> QED
    BY <1>2, <1>5, <1>7, <1>10, <2>1 DEF Previewed
<1>11. CASE Decided(r)
  <2>1. screen'["incident"] = Page /\ screen'["plan"] = r.of
    BY <1>11, ShowPanels DEF Decided
  <2> QED
    BY <1>2, <1>5, <1>7, <1>11, <2>1 DEF Decided
<1>12. ASSUME NEW op \in {"execute", "verify"}, Updated(r, op) PROVE OwnPlan'
  <2>1. screen'["incident"] = Page /\ screen'["plan"] = r.of
    BY <1>12, ShowPanels DEF Updated
  <2>2. r.op = op /\ requests' = (requests \ {r}) \cup {[r EXCEPT !.op = "settle"]}
    BY <1>3, <1>12 DEF Updated
  <2>3. "settle" \in Op \ {r.op} /\ r.op \notin {"open", "decide"}
    BY <2>2 DEF Op
  <2> QED
    BY <1>4, <1>6, <1>7, <2>1, <2>2, <2>3
<1>13. CASE WentStale(r)
  <2>1. r.op = "execute" /\ requests' = (requests \ {r}) \cup {[r EXCEPT !.op = "reopen"]}
        /\ "reopen" \in Op \ {r.op} /\ UNCHANGED screen
    BY <1>3, <1>13 DEF WentStale, Op
  <2> QED
    BY <1>6, <2>1 DEF OwnPlan, PlanShown
<1>14. CASE Reopened(r)
  <2>1. r.op = "reopen" /\ requests' = (requests \ {r}) \cup {[r EXCEPT !.op = "settle"]}
        /\ "settle" \in Op \ {r.op}
    BY <1>3, <1>14 DEF Reopened, Op
  <2> QED
    BY <1>6, <1>14, <2>1, LoadedPanels DEF Reopened
<1>15. CASE Drafted(r)
  <2>1. screen'["incident"] = Page /\ screen'["plan"] = PlanShown
    BY <1>15, ShowPanels DEF Drafted
  <2>2. r.op = "draft" /\ requests' = (requests \ {r}) \cup {[r EXCEPT !.op = "reread"]}
        /\ "reread" \in Op \ {r.op}
    BY <1>3, <1>15 DEF Drafted, Op
  <2> QED
    BY <1>6, <2>1, <2>2 DEF OwnPlan
<1>16. CASE Reread(r)
  <2>1. screen'["incident"] = r.of /\ screen'["plan"] = PlanShown
    BY <1>16, ShowPanels DEF Reread
  <2>2. r.op \in {"reread", "publish"} /\ requests' = requests \ {r}
    BY <1>2, <1>16 DEF Reread
  <2>3. r.page = Page /\ r.page = r.of
    BY <1>1, <2>2 DEF LateAnswer, FromOwnPage
  <2> QED
    BY <1>5, <2>1, <2>2, <2>3 DEF OwnPlan
<1> QED
  BY <1>8, <1>9, <1>10, <1>11, <1>12, <1>13, <1>14, <1>15, <1>16 DEF Answers

(* Nothing but a late answer ends it. *)
LEMMA OwnPlanStep ==
  ASSUME TypeOK, OwnPlan, [Next]_vars, ~LateAnswer
  PROVE  OwnPlan'
<1>1. CASE RefreshLiveSignals \/ UNCHANGED vars
  BY <1>1, SamePanels DEF RefreshLiveSignals, vars, PlanShown
<1>2. CASE LiveSignals
  BY <1>2, SamePanels DEF LiveSignals, TypeOK, Panel, PlanShown
<1>3. CASE StreamUpdate
  BY <1>3, ShowPanels, SamePanels DEF StreamUpdate
<1> QED
  BY <1>1, <1>2, <1>3, ClicksOwn, AnswersOwn DEF Next

(* However many requests are under way and in whatever order they are        *)
(* answered: a page starts with no plan of another incident, offers none as  *)
(* long as OwnPlan holds, and the one step that can end that is an answer    *)
(* arriving on another page than the one it was asked from.                  *)
THEOREM ForeignPlanIsLate ==
  Spec => /\ OwnPlan
          /\ [](OwnPlan => PlanOfIncident)
          /\ [][OwnPlan /\ ~OwnPlan' => LateAnswer]_vars
<1>1. Init => OwnPlan
  BY DEF Init, OwnPlan, PlanShown, Panel
<1>2. OwnPlan => PlanOfIncident
  BY DEF OwnPlan, PlanOfIncident, PlanShown, Drawn
<1>3. TypeOK /\ [Next]_vars => [OwnPlan /\ ~OwnPlan' => LateAnswer]_vars
  BY OwnPlanStep
<1> QED
  BY <1>1, <1>2, <1>3, TypeCorrect, PTL DEF Spec

================================================================================
