---------------------------- MODULE MCJobPipeline ----------------------------
(* A small instance of JobPipeline for TLC; its constants are in the cfg   *)
(* file.                                                                   *)
EXTENDS JobPipeline

MCTools == {"state.get.all", "network.apply", "mode.aggressive", "mode.guarded"}

(* The risk levels of engine.go:16-53 for the tools above. *)
MCRiskOf == [t \in MCTools |->
  CASE t = "state.get.all" -> "LOW"
    [] t = "mode.guarded"  -> "MEDIUM"
    [] OTHER -> "HIGH"]

MCToAggressive == {"mode.aggressive"}
MCToGuarded    == {"mode.guarded"}

Unapproved(tool, key) ==
  [tool |-> tool, key |-> key, approve |-> FALSE, mfa |-> FALSE, second |-> FALSE]
Reauthed(tool, key)   == [Unapproved(tool, key) EXCEPT !.approve = TRUE]
Dual(tool, key)       == [Reauthed(tool, key) EXCEPT !.mfa = TRUE, !.second = TRUE]

(* A tool of each risk level, with a key and without, unapproved and with  *)
(* the approvals each mode asks for (also under the key of an unapproved   *)
(* call); and the switches between the modes, the one to the aggressive    *)
(* mode with every approval, with one and with none.                       *)
MixedRequests ==
  {Unapproved("network.apply", k) : k \in Keys} \cup {Dual("network.apply", k) : k \in Keys}
    \cup {Reauthed("network.apply", NoKey), Dual("mode.aggressive", NoKey),
          Reauthed("mode.aggressive", NoKey), Unapproved("mode.aggressive", NoKey),
          Unapproved("mode.guarded", NoKey), Unapproved("state.get.all", NoKey)}

=============================================================================
