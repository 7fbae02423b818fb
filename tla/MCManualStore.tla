--------------------------- MODULE MCManualStore ---------------------------
(* Two compiles and one check; two seeds of profiles with a page of each source.  The   *)
(* local one is a page with a part in a directory below it: one profile has the page,   *)
(* which refers to the part or, edited, to what the site has at its root under that     *)
(* name; the other the part, which refers back to the page, out of its directory.       *)
EXTENDS ManualStore, TLC

CONSTANTS c1, c2, doctor, first, second, wires, cover, own, inner

MCEntry ==
    LET Local(path, beside, rooted) ==
            [source |-> "local", path |-> path, pages |-> 1, seeded |-> FALSE, beside |-> beside,
             instead |-> [f \in {"page", "part"} |-> rooted]]
    IN  (wires :> [source |-> "ktanecontent", path |-> "wires.html", pages |-> 2,
                   files |-> {"wires.html", "wires.json"}, seeded |-> TRUE]) @@
        (cover :> [source |-> "official", first |-> 2, last |-> 3, seeded |-> FALSE]) @@
        (own :> Local("page", {"page", "part"}, "wires.css")) @@
        (inner :> Local("part", {"part"}, "none"))
MCProfile == (first :> <<wires, cover, own>>) @@ (second :> <<wires, cover, inner>>)
MCRuleSeed == (first :> 1) @@ (second :> 2)
MCAsked == (c1 :> <<first, second, first>>) @@ (c2 :> <<first>>) @@ (doctor :> <<first>>)

MCReferences == [f \in {"page", "part"} |-> [v \in {"one", "two"} |->
    IF f = "page" THEN {"part"} ELSE {"page"}]]
MCRooted == [f \in {"page", "part"} |-> [v \in {"one", "two"} |->
    IF f = "page" /\ v = "two" THEN {"part"} ELSE {}]]
MCTree == {"wires.html", "wires.json", "wires.css", "merger"}
MCTreeReferences == [f \in MCTree |-> IF f = "wires.html" THEN {"wires.css"} ELSE {}]
=============================================================================
