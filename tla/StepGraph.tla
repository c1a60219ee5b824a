----------------------------- MODULE StepGraph -----------------------------
(***************************************************************************)
(* domain/step.py: the declarative step graph.  Pure: a graph is a record  *)
(* of its steps, in the order they are declared, of one contract for each  *)
(* artifact, and of the profile it was built from.                         *)
(***************************************************************************)
EXTENDS Integers, Sequences, FiniteSets, SequencesExt, FiniteSetsExt

Kinds == {"deterministic", "model", "human", "egress"}
NoText == "no text"

ArtifactContract(binding, provenance, decision) ==
    [binding |-> binding, provenance |-> provenance, decision |-> decision, text |-> FALSE]
AsText(contract) == [contract EXCEPT !.text = TRUE]

(* In every graph of the source a human step is a gate, an egress leaves   *)
(* the system, and only model and human steps cost more than "cheap".      *)
Step(name, kind, requires, produces) ==
    [name |-> name, kind |-> kind, requires |-> requires, produces |-> produces,
     human_gate |-> kind = "human", leaves_system |-> kind = "egress",
     cheap |-> kind \notin {"model", "human"}, confirms |-> NoText, reads_text |-> NoText]
Confirms(s, text) == [s EXCEPT !.confirms = text]
Reads(s, text) == [s EXCEPT !.reads_text = text]
Gated(s) == [s EXCEPT !.human_gate = TRUE]

Graph(profile, steps, contracts) ==
    [profile |-> profile, steps |-> steps, contracts |-> contracts]

StepsOf(g) == ToSet(g.steps)
Artifacts(g) == UNION {s.produces : s \in StepsOf(g)}
Producer(g, a) == CHOOSE s \in StepsOf(g) : a \in s.produces

StepType ==
    [name : STRING, kind : Kinds, requires : SUBSET STRING, produces : SUBSET STRING,
     human_gate : BOOLEAN, leaves_system : BOOLEAN, cheap : BOOLEAN,
     confirms : STRING, reads_text : STRING]

StepOK(s) ==
    /\ s.kind = "human" => s.human_gate
    /\ s.kind = "egress" <=> s.leaves_system

GraphOK(g) ==
    /\ \A s \in StepsOf(g) : StepOK(s) /\ s.requires \subseteq Artifacts(g)
    /\ \A i, j \in DOMAIN g.steps :
         i # j => /\ g.steps[i].name # g.steps[j].name
                  /\ g.steps[i].produces \cap g.steps[j].produces = {}

(* What a step rests on: its producers, theirs, and so on. *)
Producers(g, S) == {Producer(g, a) : a \in UNION {s.requires : s \in S}}
Within(g, step) ==
    LET within[n \in 0..Len(g.steps)] ==
            IF n = 0 THEN Producers(g, {step})
            ELSE LET near == within[n - 1] IN near \cup Producers(g, near)
    IN  within
Upstream(g, step) == Within(g, step)[Len(g.steps)]

(* The steps in an order in which each finds what it needs.  Passes over   *)
(* the declared order take every step that is ready, those too that the    *)
(* pass made ready: next is the first ready step behind the last one       *)
(* taken, or the first of a new pass.  What is left over lies on a cycle.  *)
Done(taken) == UNION {s.produces : s \in ToSet(taken)}
Ready(g, taken) == {i \in DOMAIN g.steps : /\ g.steps[i] \notin ToSet(taken)
                                           /\ g.steps[i].requires \subseteq Done(taken)}
Behind(g, taken) == {i \in Ready(g, taken) : \A j \in i..Len(g.steps) : g.steps[j] # Last(taken)}
TakeNext(g, taken) ==
    IF Ready(g, taken) = {} THEN taken
    ELSE IF taken = << >> \/ Behind(g, taken) = {} THEN Append(taken, g.steps[Min(Ready(g, taken))])
    ELSE Append(taken, g.steps[Min(Behind(g, taken))])
Passes(g) ==
    LET order[n \in 0..Len(g.steps)] ==
            IF n = 0 THEN << >> ELSE TakeNext(g, order[n - 1])
    IN  order
Topological(g) == Passes(g)[Len(g.steps)]

Acyclic(g) == Len(Topological(g)) = Len(g.steps)

NothingPlanned(have) == [have |-> have, steps |-> {}, gates |-> {}]

\* Mutant: a gate is passed as if it were decided
ConsiderThroughGates(p, s) ==
    IF s.produces \subseteq p.have \/ ~ (s.requires \subseteq p.have) THEN p
    ELSE [(IF s.human_gate THEN [p EXCEPT !.gates = @ \cup {s.name}]
           ELSE [p EXCEPT !.steps = @ \cup {s.name}]) EXCEPT !.have = @ \cup s.produces]

(* The plan: one pass over the order.  A gate is noted and not passed, so  *)
(* that what lies behind it finds its inputs missing.                      *)
Consider(p, s) ==
    IF s.produces \subseteq p.have \/ ~ (s.requires \subseteq p.have) THEN p
    ELSE IF s.human_gate THEN [p EXCEPT !.gates = @ \cup {s.name}]
    ELSE [p EXCEPT !.steps = @ \cup {s.name}, !.have = @ \cup s.produces]
Planned(order, have) ==
    LET plan[n \in 0..Len(order)] ==
            IF n = 0 THEN NothingPlanned(have) ELSE Consider(plan[n - 1], order[n])
    IN  plan
PlanOf(order, have) == Planned(order, have)[Len(order)]

(* Simple paths along artifacts, from src until they meet dst. *)
Follows(s, t) == s.produces \cap t.requires # {}
Longer(g, path) ==
    {Append(path, t) : t \in {t \in StepsOf(g) : Follows(Last(path), t) /\ t \notin ToSet(path)}}
Reach(g, src, dst) ==
    LET reach[n \in 0..Len(g.steps)] ==
            IF n = 0 THEN {<<src>>}
            ELSE UNION {Longer(g, path) : path \in {q \in reach[n - 1] : Last(q) # dst}}
    IN  reach
Paths(g, src, dst) ==
    {path \in UNION {Reach(g, src, dst)[n] : n \in 0..Len(g.steps)} : Last(path) = dst}

(* The model steps a step rests on, and itself if it is one. *)
Models(g, step) == {m \in StepsOf(g) : m.kind = "model" /\ (m \in Upstream(g, step) \/ m = step)}
Ungated(path) == \A i \in 2..Len(path) : ~path[i].human_gate

\* Mutant: a gate on one of the paths is enough
EgressBesideGate(g) ==
    UNION {UNION {{path \in Paths(g, m, e) : \A q \in Paths(g, m, e) : Ungated(q)} : m \in Models(g, e)} :
             e \in {e \in StepsOf(g) : e.leaves_system}}

(* check_egress_gates: on every path from a model step to a step that      *)
(* leaves the system there is a gate behind the model step.                *)
EgressViolations(g) ==
    UNION {UNION {{path \in Paths(g, m, e) : Ungated(path)} : m \in Models(g, e)} :
             e \in {e \in StepsOf(g) : e.leaves_system}}

-----------------------------------------------------------------------------
(* check_contracts: every artifact has a contract and nothing else has     *)
(* one; a confirmed text is a text a human gate takes in; a step behind    *)
(* gates that confirm a text reads exactly one of them.                    *)
TextGates(g, s) == {gate \in {Producer(g, a) : a \in s.requires} : gate.confirms # NoText}
Gates(g, s) == {a \in s.requires : Producer(g, a).human_gate}

ReadCandidates(g, s) ==
    {a \in s.requires :
        LET gate == Producer(g, a)
        IN  gate.confirms # NoText /\ s.reads_text \in {NoText, gate.confirms}}

ConfirmsText(g, s) ==
    s.confirms # NoText =>
        /\ s.kind = "human" /\ s.human_gate
        /\ s.confirms \in s.requires
        /\ s.confirms \in DOMAIN g.contracts /\ g.contracts[s.confirms].text

ReadsOneText(g, s) ==
    IF TextGates(g, s) = {} THEN s.reads_text = NoText
    ELSE /\ Cardinality(ReadCandidates(g, s)) = 1
         /\ Cardinality(Gates(g, s)) > 1 => s.reads_text # NoText

ContractsHold(g) ==
    /\ DOMAIN g.contracts = Artifacts(g)
    /\ \A s \in StepsOf(g) : ConfirmsText(g, s) /\ ReadsOneText(g, s)

(* The text a step reads: the artifact of the gate that confirmed it, and  *)
(* the text that gate confirms.                                            *)
Confirmed_text_role(g, s) == CHOOSE a \in ReadCandidates(g, s) : TRUE
Text_read(g, s) == Producer(g, Confirmed_text_role(g, s)).confirms

(* What a graph is bound by: all of it but order, cost and description. *)
Fingerprint(g) ==
    [steps |-> {[s EXCEPT !.cheap = TRUE] : s \in StepsOf(g)}, contracts |-> g.contracts]
MatchesContext(g, profile, fingerprint) ==
    profile = g.profile /\ fingerprint = Fingerprint(g)

-----------------------------------------------------------------------------
(* The graphs of the source. *)
Derived == ArtifactContract(TRUE, TRUE, FALSE)
Computed == ArtifactContract(FALSE, TRUE, FALSE)
Decided == ArtifactContract(TRUE, FALSE, TRUE)
Exported == ArtifactContract(TRUE, TRUE, TRUE)

BaseContracts ==
    [a \in {"transcript.revision"} |-> AsText(ArtifactContract(FALSE, FALSE, FALSE))]
    @@ [a \in {"l1.coverage", "release.preview"} |-> Computed]
    @@ [a \in {"metadata.draft", "abstract.draft", "l1.suggestions", "analysis.draft"} |-> Derived]
    @@ [a \in {"transcript.confirmed", "l1.adjudicated", "metadata.confirmed",
               "abstract.confirmed", "analysis.confirmed", "release.approved",
               "analysis.approved"} |-> Decided]
    @@ [a \in {"export.bundle", "analysis.bundle"} |-> Exported]

Ingest == Step("ingest", "deterministic", {}, {"transcript.revision"})
TranscriptConfirm ==
    Confirms(Step("transcript.confirm", "human", {"transcript.revision"}, {"transcript.confirmed"}),
             "transcript.revision")

DefaultSteps ==
    <<Ingest, TranscriptConfirm,
      Step("l1.suggest", "model", {"transcript.confirmed"}, {"l1.suggestions"}),
      Step("l1.coverage", "deterministic", {"l1.suggestions", "transcript.confirmed"}, {"l1.coverage"}),
      Step("l1.review", "human", {"l1.suggestions", "l1.coverage"}, {"l1.adjudicated"}),
      Step("metadata.derive", "deterministic", {"l1.adjudicated"}, {"metadata.draft"}),
      Step("metadata.confirm", "human", {"metadata.draft"}, {"metadata.confirmed"}),
      Step("abstract.derive", "deterministic", {"l1.adjudicated", "metadata.confirmed"}, {"abstract.draft"}),
      Step("abstract.confirm", "human", {"abstract.draft"}, {"abstract.confirmed"}),
      Step("analysis.summarise", "model", {"l1.adjudicated"}, {"analysis.draft"}),
      Step("analysis.confirm", "human", {"analysis.draft"}, {"analysis.confirmed"}),
      Step("release.preview", "deterministic",
           {"metadata.confirmed", "abstract.confirmed", "l1.adjudicated"}, {"release.preview"}),
      Step("release.approve", "human", {"release.preview"}, {"release.approved"}),
      Step("analysis.approve", "human", {"analysis.confirmed"}, {"analysis.approved"}),
      Step("analysis.export", "egress", {"analysis.approved"}, {"analysis.bundle"}),
      Step("export", "egress", {"release.approved"}, {"export.bundle"})>>

(* Pseudonymisation by a model that detects ... *)
ModelBlock ==
    <<Step("pii.detect", "model", {"transcript.confirmed"}, {"pii.spans"}),
      Step("pseudonymise", "deterministic", {"transcript.confirmed", "pii.spans"},
           {"transcript.pseudonymised.draft", "replacement.report"}),
      Confirms(Step("pseudonymisation.review", "human",
                    {"transcript.pseudonymised.draft", "replacement.report"},
                    {"transcript.pseudonymised.confirmed"}),
               "transcript.pseudonymised.draft")>>

ModelContracts ==
    [a \in {"pii.spans", "replacement.report"} |-> Derived]
    @@ [a \in {"transcript.pseudonymised.draft"} |-> AsText(Derived)]
    @@ [a \in {"transcript.pseudonymised.confirmed"} |-> Decided]

(* ... and by hand. *)
ManualBlock ==
    LET Base == {"transcript.confirmed", "transcript.revision"}
        OnSource(s) == Reads(s, "transcript.revision")
    IN  <<OnSource(Step("pii.mark", "human", Base, {"pii.spans"})),
          OnSource(Step("pseudonymise", "deterministic", Base \cup {"pii.spans"},
                        {"transcript.pseudonymised.draft"})),
          OnSource(Step("pseudonymisation.cases", "human",
                        Base \cup {"pii.spans", "transcript.pseudonymised.draft"},
                        {"pseudonymisation.cases"})),
          OnSource(Step("pseudonymise.finalise", "deterministic",
                        Base \cup {"pii.spans", "pseudonymisation.cases"},
                        {"transcript.pseudonymised.final", "replacement.report"})),
          OnSource(Confirms(Step("pseudonymisation.review", "human",
                        Base \cup {"pii.spans", "pseudonymisation.cases",
                                   "transcript.pseudonymised.final", "replacement.report"},
                        {"transcript.pseudonymised.confirmed"}),
                   "transcript.pseudonymised.final"))>>

ManualContracts ==
    [a \in {"pii.spans", "pseudonymisation.cases", "transcript.pseudonymised.confirmed"} |->
        ArtifactContract(FALSE, TRUE, TRUE)]
    @@ [a \in {"transcript.pseudonymised.draft", "transcript.pseudonymised.final"} |-> AsText(Computed)]
    @@ [a \in {"replacement.report"} |-> Computed]

\* Mutant: the pseudonymised text comes beside the confirmed one
RewiredBeside(s, block, manual) ==
    IF /\ "transcript.confirmed" \in s.requires
       /\ \A t \in ToSet(block) : s.produces \cap t.produces = {}
    THEN [s EXCEPT !.requires = @ \cup {"transcript.pseudonymised.confirmed"},
                   !.reads_text = IF manual THEN "transcript.pseudonymised.final"
                                  ELSE "transcript.pseudonymised.draft"]
    ELSE s

(* build_graph: a profile that asks for pseudonymisation gets its block,   *)
(* and everything behind takes the pseudonymised text in place of the      *)
(* confirmed one.                                                          *)
Rewired(s, block, manual) ==
    IF /\ "transcript.confirmed" \in s.requires
       /\ \A t \in ToSet(block) : s.produces \cap t.produces = {}
    THEN [s EXCEPT !.requires = (@ \ {"transcript.confirmed"}) \cup {"transcript.pseudonymised.confirmed"},
                   !.reads_text = IF manual THEN "transcript.pseudonymised.final" ELSE @]
    ELSE s

BuildGraph(profile) ==
    LET manual == profile = "manual"
        block == IF manual THEN ManualBlock ELSE ModelBlock
        rest == SubSeq(DefaultSteps, 3, Len(DefaultSteps))
        rewired == [i \in DOMAIN rest |-> Rewired(rest[i], block, manual)]
    IN  IF profile = "sandbox" THEN Graph(profile, DefaultSteps, BaseContracts)
        ELSE Graph(profile, <<Ingest, TranscriptConfirm>> \o block \o rewired,
                   (IF manual THEN ManualContracts ELSE ModelContracts) @@ BaseContracts)
=============================================================================
