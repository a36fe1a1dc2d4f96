--------------------------- MODULE MCInvestigation ---------------------------
EXTENDS Investigation

MCEvents == {1}
MCRevisions == {1}

(* The model cites both alerts, or an event that may have been stored with
   the incident, with the other one, with both, or not at all. *)
MCCitations ==
  {{<<i, Alert>> : i \in Incidents}}
    \cup {{<<i, [source |-> "event", key |-> 1]>>} : i \in Incidents}

===============================================================================
