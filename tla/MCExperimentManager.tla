------------------------ MODULE MCExperimentManager ------------------------
(***************************************************************************)
(* Small rooms for the model checker.  p1 and p3 play under one name, so   *)
(* that two single-player attempts can run at a time.                      *)
(***************************************************************************)
EXTENDS ExperimentManager, TLC

CONSTANTS p1, p2, p3, g1, g2, solo, solo2, duo, A, B

On(domain, f) == [x \in domain |-> f[x]]

MCPlayerName  == On(Players, (p1 :> A) @@ (p2 :> B) @@ (p3 :> A))
MCAttemptName == On(Specs, (solo :> solo) @@ (solo2 :> solo2) @@ (duo :> duo))
MCDefuserName == On(Specs, (solo :> A) @@ (solo2 :> A) @@ (duo :> A))
MCExpertName  ==
  On(Specs, (solo :> NoExpert) @@ (solo2 :> NoExpert) @@ (duo :> B))

\* Games are alike, and so are the two solo specs.
MCSymmetry == Permutations(Games) \cup Permutations({solo, solo2})

\* The steps left to a session in cleanup no longer depend on its crash and cancel
\* flags, and no property reads them.
MCView == <<serviceVars, registryVars, service_state, queueVars, state, step,
            {i \in cancelled : step[i] \in Body}, {i \in crashed : step[i] \in Body}>>
=============================================================================
