----------------------------- MODULE EvidenceLedger -----------------------------
(***************************************************************************)
(* What an investigation promises, with no collector, no model and no tool *)
(* turns: evidence first.  A request has an incident and shows a set of    *)
(* facts; facts are stored with the incident, for good, and only while a   *)
(* request about it shows them; a request is answered once, by a report    *)
(* about its own incident, after everything it shows has been stored, and  *)
(* the report rests on what is stored with that incident.                  *)
(***************************************************************************)
CONSTANTS
  Cases,     (* incidents                                                  *)
  Askers,    (* requests that may be under way at a time                   *)
  Facts,     (* what evidence there can be                                 *)
  Reports,   (* what there can be to answer                               *)
  First,     (* the fact every incident is opened with                     *)
  Nothing    (* no incident, no report                                     *)

VARIABLES
  stored,    (* per incident: the facts stored with it                     *)
  about,     (* per request: its incident                                  *)
  shows,     (* per request: the facts it has read                         *)
  report     (* the report filed last                                      *)

ledgerVars == <<stored, about, shows, report>>

LedgerInit ==
  /\ stored = [i \in Cases |-> {First}]
  /\ about = [a \in Askers |-> Nothing]
  /\ shows = [a \in Askers |-> {}]
  /\ report = Nothing

Ask(a, i) ==
  /\ about[a] = Nothing
  /\ about' = [about EXCEPT ![a] = i]
  /\ \E facts \in SUBSET Facts : shows' = [shows EXCEPT ![a] = facts]
  /\ UNCHANGED <<stored, report>>

Store(a, f) ==
  /\ about[a] # Nothing
  /\ f \in shows[a]
  /\ stored' = [stored EXCEPT ![about[a]] = @ \cup {f}]
  /\ UNCHANGED <<about, shows, report>>

(* Requests end, answered or not. *)
Over(done) ==
  /\ about' = [a \in Askers |-> IF a \in done THEN Nothing ELSE about[a]]
  /\ shows' = [a \in Askers |-> IF a \in done THEN {} ELSE shows[a]]

Answer(a) ==
  /\ about[a] # Nothing
  /\ shows[a] \subseteq stored[about[a]]
  /\ report' \in Reports
  /\ report'.incident = about[a]
  /\ report'.cites # {}
  /\ \A id \in report'.cites : id[1] = about[a] /\ id[2] \in stored[about[a]]
  /\ Over({a})
  /\ UNCHANGED stored

Abandon(done) ==
  /\ Over(done)
  /\ UNCHANGED <<stored, report>>

LedgerNext ==
  \/ \E a \in Askers :
       \/ \E i \in Cases : Ask(a, i)
       \/ \E f \in Facts : Store(a, f)
       \/ Answer(a)
  \/ \E done \in SUBSET Askers : Abandon(done)

LedgerSpec == LedgerInit /\ [][LedgerNext]_ledgerVars

================================================================================
