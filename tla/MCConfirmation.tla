--------------------------- MODULE MCConfirmation ---------------------------
(* Small instances of the confirmation of a transcript for TLC.  A budget  *)
(* is a scenario; a run takes every behaviour of each of its scenarios.    *)
EXTENDS Confirmation, TLC

Scenario(registry, prepare, ingest, confirm, act, fault) ==
    [registry |-> registry, prepare |-> prepare, ingest |-> ingest,
     fulltext |-> 0, confirm |-> confirm, act |-> act, fault |-> fault, alone |-> 0]
Alone(scenario) == [scenario EXCEPT !.alone = 1]

Withdrawals == Scenario(1, 1, 1, 2, 2, 1)
Retirement == Scenario(2, 1, 1, 1, 1, 1)
TwoRevisions == Scenario(1, 2, 2, 1, 0, 0)
Actors == Scenario(3, 1, 1, 1, 0, 0)
Ingests == Scenario(1, 2, 3, 0, 0, 1)

BackOnce == Alone(Scenario(1, 3, 3, 2, 0, 0))

Attestations == [Alone(Scenario(1, 2, 2, 1, 0, 0)) EXCEPT !.fulltext = 2]
Attesting == [Scenario(1, 1, 1, 1, 0, 0) EXCEPT !.fulltext = 1]

Registering == Scenario(4, 0, 0, 0, 0, 1)

Together == {Withdrawals, Retirement, TwoRevisions, Actors, Ingests, BackOnce,
             Attestations, Attesting}
ThereAndBack == {Scenario(1, 3, 3, 3, 0, 0)}
ToTheEnd == {Scenario(1, 1, 1, 2, 0, 1), Registering}

Symmetry ==
    Permutations(Processes) \cup Permutations(Revisions) \cup Permutations(Coders)
        \cup Permutations(Labels) \cup Permutations(Fulltexts)
=============================================================================
