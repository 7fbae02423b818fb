------------------------- MODULE MCExperimentRunner -------------------------
(* Instances of ExperimentRunner for TLC. *)
EXTENDS ExperimentRunner

Solo == {"defuser"}
Pair == {"defuser", "expert"}

MCExperiments == {[style |-> "sync",  roles |-> Solo, feedback |-> TRUE],
                  [style |-> "sync",  roles |-> Pair, feedback |-> FALSE],
                  [style |-> "async", roles |-> Pair, feedback |-> FALSE]}
=============================================================================
