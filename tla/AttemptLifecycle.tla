-------------------------- MODULE AttemptLifecycle --------------------------
(***************************************************************************)
(* What the experiment manager promises, whatever its loops do: an attempt *)
(* goes from posted to queued to running and out again, names in flight    *)
(* are bound to one spec, and a running attempt holds one game and the     *)
(* players it names, which no other attempt holds meanwhile.               *)
(***************************************************************************)
EXTENDS FiniteSets

CONSTANTS Players, Games, Specs, AttemptName, PlayerName, DefuserName, ExpertName, NoExpert

VARIABLES
  stage,   \* [Specs -> "unknown", "queued" or "running"]
  held     \* [Specs -> the services the attempt holds]

avars == <<stage, held>>

Services == Players \cup Games

\* The services a spec asks for: one game, its defuser, its expert if it has one.
Suits(x, uuids) ==
  \E g \in Games, d \in Players :
    /\ PlayerName[d] = DefuserName[x]
    /\ \/ ExpertName[x] = NoExpert /\ uuids = {g, d}
       \/ \E e \in Players \ {d} : PlayerName[e] = ExpertName[x] /\ uuids = {g, d, e}

InFlight == {x \in Specs : stage[x] # "unknown"}

AInit == /\ stage = [x \in Specs |-> "unknown"]
         /\ held  = [x \in Specs |-> {}]

\* Specs join the queue together, and only if no name is bound twice by it.
Post(batch) ==
  /\ \A x \in batch, y \in InFlight \cup batch : AttemptName[x] = AttemptName[y] => x = y
  /\ stage' = [x \in Specs |-> IF x \in batch /\ stage[x] = "unknown" THEN "queued" ELSE stage[x]]
  /\ UNCHANGED held

\* A queued attempt starts with services that nobody holds.
Assign(x, uuids) ==
  /\ stage[x] = "queued"
  /\ Suits(x, uuids)
  /\ \A y \in Specs : held[y] \cap uuids = {}
  /\ stage' = [stage EXCEPT ![x] = "running"]
  /\ held'  = [held EXCEPT ![x] = uuids]

\* Running attempts leave, and give their services back.
Finish(finished) ==
  /\ \A x \in finished : stage[x] = "running"
  /\ stage' = [x \in Specs |-> IF x \in finished THEN "unknown" ELSE stage[x]]
  /\ held'  = [x \in Specs |-> IF x \in finished THEN {} ELSE held[x]]

ANext == \/ \E batch \in SUBSET Specs : Post(batch)
         \/ \E x \in Specs, uuids \in SUBSET Services : Assign(x, uuids)
         \/ \E finished \in SUBSET Specs : Finish(finished)

ASpec == AInit /\ [][ANext]_avars
=============================================================================
