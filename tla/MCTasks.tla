------------------------------- MODULE MCTasks -------------------------------
(* The instance of Provisioning for TLC.                                     *)
EXTENDS Provisioning

CONSTANTS a, b, k1, k2, p, q

\* what somebody writes in the panel: a rule for another inbound, one for
\* every inbound, one under the name of the local proxy
Written(inbound, match) == [inbound |-> inbound, match |-> match, to |-> "direct"]

WrittenRules ==
  {Written("user", "any"), Written("any", "onion"), Written("local", "onion")}

\* where the behaviours start: the kernels are alike,
\* and the machine with no panel is the one with a remote exit of its own
MCInit ==
  /\ Init
  /\ section = "point" => sys.kernel = k1
  /\ section = "panel" => (sys.remote <=> sys.version = "none")

MCSpec == MCInit /\ [][Next]_vars /\ WF_vars(Step)
=============================================================================
