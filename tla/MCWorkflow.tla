---------------------------- MODULE MCWorkflow -----------------------------
(* Small instances of one record's workflow for TLC: the chain from text to *)
(* bundle with the catalogue's middle stages left out, and the chain up to  *)
(* the adjudication with the coverage.                                      *)
EXTENDS Workflow, TLC

CONSTANTS s1, s2, m1, m2

Contracted(steps) ==
    LET g == Graph("childlux", steps, << >>)
    IN  [g EXCEPT !.contracts = [a \in Artifacts(g) |-> BaseContracts[a]]]

Suggest == Step("l1.suggest", "model", {"transcript.confirmed"}, {"l1.suggestions"})

Catalogue == Chain(Contracted(
    <<Ingest, TranscriptConfirm, Suggest,
      Step("l1.review", "human", {"l1.suggestions"}, {"l1.adjudicated"}),
      Step("metadata.derive", "deterministic", {"l1.adjudicated"}, {"metadata.draft"}),
      Step("release.approve", "human", {"metadata.draft"}, {"release.approved"}),
      Step("export", "egress", {"release.approved"}, {"export.bundle"})>>))

Coded == Chain(Contracted(
    <<Ingest, TranscriptConfirm, Suggest,
      Step("l1.coverage", "deterministic", {"l1.suggestions", "transcript.confirmed"}, {"l1.coverage"}),
      Step("l1.review", "human", {"l1.suggestions", "l1.coverage"}, {"l1.adjudicated"})>>))

(* A record whose first artifacts were made without a hitch. *)
Straight(c, text, input, made) ==
    LET after[n \in 0..made] ==
            IF n = 0 THEN Observed(NoView(c), "source", text)
            ELSE Carry(c, after[n - 1], Plan(c, after[n - 1], input, c.order[n], 0))
    IN  after[made]

Scenario(c, made, on, plan, again, stop, act, deliver, edit) ==
    [chain |-> c, view |-> Straight(c, s1, m1, made), file |-> m1,
     left |-> [on |-> on, plan |-> plan, again |-> again, stop |-> stop, act |-> act,
               deliver |-> deliver, edit |-> edit]]

(* The whole graph of the sandbox, but for the analysis, is a chain of      *)
(* steps that have a command, and they make all of it usable.              *)
Analysis == {"analysis.summarise", "analysis.confirm", "analysis.approve", "analysis.export"}
Sandbox == Chain(Contracted(SelectSeq(DefaultSteps, LAMBDA s : s.name \notin Analysis)))

ASSUME SandboxIsBound ==
    LET done == Straight(Sandbox, s1, m1, Len(Sandbox.order))
    IN  /\ ChainIsBound(Sandbox) /\ Sound(Sandbox, done) /\ Sourced(Sandbox, done)
        /\ Have(Sandbox, done) = DOMAIN Sandbox.kind

Confirmed == {"transcript.confirmed"}
Taken == {"l1.adjudicated", "release.approved", "export.bundle"}

First == Scenario(Coded, 0, {}, 3, 0, 1, 0, 2, 0)
Texted == Scenario(Coded, 1, {}, 3, 0, 1, 0, 2, 0)
Asked == Scenario(Coded, 2, Confirmed, 3, 0, 0, 2, 0, 0)
Again == Scenario(Coded, 2, {}, 3, 1, 1, 0, 0, 0)
Drawn == Scenario(Catalogue, 4, {}, 3, 0, 1, 0, 0, 1)
Leaving == Scenario(Catalogue, 7, Taken, 2, 1, 1, 2, 0, 0)

FirstText == {First}
AllScenarios == {First, Texted, Asked, Again, Drawn, Leaving}
Symmetric == Permutations(Processes)
=============================================================================
