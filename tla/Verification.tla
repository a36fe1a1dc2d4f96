------------------------------ MODULE Verification ------------------------------
(***************************************************************************)
(* What is promised of a plan's verdict, by the verifier, which decides    *)
(* it, and by the workflow, which executes the plan and records it: a plan *)
(* is judged only after it was executed, by checks begun while nobody had  *)
(* decided it; a check decides once; and only a plan that can be refuted   *)
(* fails by a check.  Checks that overlap may still contradict each other. *)
(***************************************************************************)
CONSTANTS
  Subjects,  (* plans                                                      *)
  Checkers,  (* worker threads                                             *)
  Nobody     (* no plan                                                    *)

VARIABLES
  decision,   (* per plan: not executed yet, open, verified or failed      *)
  refutable,  (* plans whose action has a criterion that can be refuted    *)
  checking    (* per thread: the plan it is checking                       *)

verificationVars == <<decision, refutable, checking>>

VerificationInit ==
  /\ decision \in [Subjects -> {"before", "open"}]
  /\ refutable \subseteq Subjects
  /\ checking = [t \in Checkers |-> Nobody]

(* The plan takes shape. *)
Shape(p) ==
  /\ decision[p] = "before"
  /\ refutable' \in {refutable \cup {p}, refutable \ {p}}
  /\ UNCHANGED <<decision, checking>>

(* It is executed, or its execution fails. *)
Execute(p) ==
  /\ decision[p] = "before"
  /\ decision' \in {[decision EXCEPT ![p] = result] : result \in {"open", "failed"}}
  /\ UNCHANGED <<refutable, checking>>

Begin(t, p) ==
  /\ checking[t] = Nobody
  /\ decision[p] = "open"
  /\ checking' = [checking EXCEPT ![t] = p]
  /\ UNCHANGED <<decision, refutable>>

Decide(t, p, result) ==
  /\ checking[t] = p
  /\ decision[p] # "before"
  /\ result = "failed" => p \in refutable
  /\ decision' = [decision EXCEPT ![p] = result]
  /\ checking' = [checking EXCEPT ![t] = Nobody]
  /\ UNCHANGED refutable

(* Checks that end without a decision: pending, failed, or cut off. *)
GiveUp(threads) ==
  /\ checking' = [t \in Checkers |-> IF t \in threads THEN Nobody ELSE checking[t]]
  /\ UNCHANGED <<decision, refutable>>

VerificationNext ==
  \/ \E p \in Subjects :
       \/ Shape(p) \/ Execute(p)
       \/ \E t \in Checkers :
            Begin(t, p) \/ \E result \in {"verified", "failed"} : Decide(t, p, result)
  \/ \E threads \in SUBSET Checkers : GiveUp(threads)

VerificationSpec == VerificationInit /\ [][VerificationNext]_verificationVars

=================================================================================
