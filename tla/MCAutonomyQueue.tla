--------------------------- MODULE MCAutonomyQueue ---------------------------
(* Small instances of AutonomyQueue: the scheduler's HIGH tool and its LOW *)
(* tool, a MEDIUM task of a client, a reconcile task of ApplySpec, and a   *)
(* task a client files as a dead letter.                                   *)
EXTENDS AutonomyQueue

MCRecurring == {"backup.verify.sample", "spec.reconcile.all"}
MCFiled     == {<<"vm.create", 50, FALSE>>, <<"spec.reconcile", 80, FALSE>>,
                <<"vm.create", 50, TRUE>>}

(* Chains of one held task, overtaken by tasks of higher priority. *)
HeldRecurring == {"backup.verify.sample"}
UrgentFiled   == {<<"spec.reconcile", 80, FALSE>>}

MCInterval == [t \in Recurring |-> IF t = "spec.reconcile.all" THEN 1 ELSE 2]
MCRiskOf   == [t \in TaskTools |->
  CASE t = "backup.verify.sample" -> "HIGH"
    [] t = "vm.create"            -> "MEDIUM"
    [] OTHER                      -> "LOW"]

=============================================================================
