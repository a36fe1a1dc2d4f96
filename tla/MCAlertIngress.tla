---------------------------- MODULE MCAlertIngress ----------------------------
EXTENDS AlertIngress, TLC

(* One alert group that fires three times and resolves once, and another
   that fires. *)
MCDeliveries ==
  {[key |-> "k1", status |-> "firing", serial |-> n] : n \in 1 .. 3}
    \cup {[key |-> "k1", status |-> "resolved", serial |-> 1]}
    \cup {[key |-> "k2", status |-> "firing", serial |-> 1]}
MCKeys == {"k1", "k2"}

Symmetry == Permutations(Incidents) \cup Permutations(Starters)

===============================================================================
