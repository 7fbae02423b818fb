---------------------------- MODULE MCSubmission ----------------------------
(* Two contents of the suite, of one and of two missions. *)
EXTENDS Submission, TLC

CONSTANTS small, large

MCMissionsOf == (small :> {"one"}) @@ (large :> {"one", "two"})
=============================================================================
