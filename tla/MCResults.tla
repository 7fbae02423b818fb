----------------------------- MODULE MCResults -----------------------------
(* An attempt with an expert, played in two runs. *)
EXTENDS Results, TLC

Ended(acted, bomb, crash) == [acted |-> acted, bomb |-> bomb, crash |-> crash]
MCOutcomes ==
  { Ended(Roles, "good", FALSE), Ended(Roles, "good", TRUE),
    Ended({"defuser"}, "incomplete", FALSE), Ended({"expert"}, "none", FALSE) }
=============================================================================
