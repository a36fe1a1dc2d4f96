------------------------------- MODULE AlertBook -------------------------------
(***************************************************************************)
(* What the alert ingress promises, with no transactions, no index and no  *)
(* lifecycle: every alert group has at most one open incident, and every   *)
(* notification is dealt with once, by the incident that is open for its   *)
(* group at that moment.  Only a firing notification of a group with no    *)
(* open incident opens one.                                                *)
(***************************************************************************)
CONSTANTS
  Groups,      (* alert groups                                             *)
  Notices,     (* notifications, each with its group (key) and its status  *)
  Records      (* incidents there may be                                   *)

VARIABLES
  open,   (* per group: the open incident, as a set                        *)
  filed   (* per notification: the incident it went to, or what became of it *)

bookVars == <<open, filed>>

Used(i) == \E n \in Notices : filed[n] = i

BookInit ==
  /\ open = [k \in Groups |-> {}]
  /\ filed = [n \in Notices |-> "unseen"]

(* It goes to the incident open for its group. *)
Attach(n, i) ==
  /\ filed[n] = "unseen"
  /\ open[n.key] = {i}
  /\ filed' = [filed EXCEPT ![n] = i]
  /\ UNCHANGED open

(* It opens an incident nothing has been filed with before. *)
Open(n, i) ==
  /\ filed[n] = "unseen"
  /\ n.status = "firing"
  /\ open[n.key] = {}
  /\ ~Used(i)
  /\ filed' = [filed EXCEPT ![n] = i]
  /\ open' = [open EXCEPT ![n.key] = {i}]

(* The end of an alert nobody recorded. *)
Ignore(n) ==
  /\ filed[n] = "unseen"
  /\ n.status = "resolved"
  /\ open[n.key] = {}
  /\ filed' = [filed EXCEPT ![n] = "unmatched"]
  /\ UNCHANGED open

Close(k) ==
  /\ open[k] # {}
  /\ open' = [open EXCEPT ![k] = {}]
  /\ UNCHANGED filed

(* A group with nothing open gets one of its own incidents back. *)
Reopen(k, i) ==
  /\ open[k] = {}
  /\ \E n \in Notices : n.key = k /\ filed[n] = i
  /\ open' = [open EXCEPT ![k] = {i}]
  /\ UNCHANGED filed

BookNext ==
  \/ \E n \in Notices :
       Ignore(n) \/ \E i \in Records : Attach(n, i) \/ Open(n, i)
  \/ \E k \in Groups : Close(k) \/ \E i \in Records : Reopen(k, i)

BookSpec == BookInit /\ [][BookNext]_bookVars

================================================================================
