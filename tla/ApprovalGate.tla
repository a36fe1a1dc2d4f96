----------------------------- MODULE ApprovalGate -----------------------------
(***************************************************************************)
(* What the remediation workflow promises about cluster writes, with no    *)
(* HTTP calls, no store and no incidents: a plan is previewed against one  *)
(* version of the target, a person approves it, and it is then written at  *)
(* most once, only while the target is still at the previewed version.     *)
(* A plan that is voided first is never written.                           *)
(***************************************************************************)
EXTENDS Naturals

CONSTANT Plans

VARIABLES
  gate,    (* per plan: how far through the gate it is            *)
  bound,   (* per plan: the target version its preview is bound to *)
  current  (* the version of the target                            *)

gateVars == <<gate, bound, current>>

GateState == {"none", "previewed", "approved", "written", "void"}

GateInit ==
  /\ gate = [p \in Plans |-> "none"]
  /\ bound = [p \in Plans |-> 0]
  /\ current = 1

(* A plan enters the gate bound to a version the target has had. *)
Preview(p) ==
  /\ gate[p] = "none"
  /\ gate' = [gate EXCEPT ![p] = "previewed"]
  /\ \E v \in 1 .. current : bound' = [bound EXCEPT ![p] = v]
  /\ UNCHANGED current

Approve(p) ==
  /\ gate[p] = "previewed"
  /\ gate' = [gate EXCEPT ![p] = "approved"]
  /\ UNCHANGED <<bound, current>>

Write(p) ==
  /\ gate[p] = "approved"
  /\ bound[p] = current
  /\ gate' = [gate EXCEPT ![p] = "written"]
  /\ current' = current + 1
  /\ UNCHANGED bound

Void(p) ==
  /\ gate[p] \in {"previewed", "approved"}
  /\ gate' = [gate EXCEPT ![p] = "void"]
  /\ UNCHANGED <<bound, current>>

(* Someone else changes the target. *)
Drift ==
  /\ current' = current + 1
  /\ UNCHANGED <<gate, bound>>

GateNext ==
  \/ Drift
  \/ \E p \in Plans : Preview(p) \/ Approve(p) \/ Write(p) \/ Void(p)

GateSpec == GateInit /\ [][GateNext]_gateVars

===============================================================================
