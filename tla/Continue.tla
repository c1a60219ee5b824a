------------------------------ MODULE Continue ------------------------------
(***************************************************************************)
(* application/steps.py: continue_record, the loop that runs what is cheap *)
(* and built and names everything else, beside whatever others do to the   *)
(* record in the meantime.  What is usable is taken here as a set of       *)
(* artifacts for each contract; Evidence.tla says how the journal yields   *)
(* it.                                                                     *)
(***************************************************************************)
EXTENDS StepGraph

CONSTANTS
    Yields(_),      \* the graph a profile yields
    None            \* no value

VARIABLES
    graphs,     \* for each profile in use, the graph it yields
    have,       \* what is usable under each of them
    raw,        \* of it, what carries model output no gate stood behind
    plain,      \* of it, what carries text no pseudonymisation was reviewed for
    findings,   \* what a view of the record reports: "none", "config", "found"
    run         \* per process, the command it runs or the last it ran

recordVars == <<graphs, have, raw, plain, findings>>

(* build_graph, and what is asked of its graph again and again. *)
Built(g) ==
    [graph |-> g, order |-> Topological(g), sound |-> EgressViolations(g) = {},
     leaving |-> UNION {s.produces : s \in {s \in StepsOf(g) : s.leaves_system}},
     resting |-> [a \in Artifacts(g) |->
        {a} \cup UNION {s.produces : s \in {s \in StepsOf(g) : Producer(g, a) \in Upstream(g, s)}}]]

GraphOf(id) == graphs[id].graph
Named(id, name) == CHOOSE s \in StepsOf(GraphOf(id)) : s.name = name

(* next_steps: places of the order whose step finds what it needs and      *)
(* still has something to make.                                            *)
StepAt(id, i) == graphs[id].order[i]
Pending(id, usable) ==
    {i \in DOMAIN graphs[id].order : /\ StepAt(id, i).requires \subseteq usable
                                     /\ ~ (StepAt(id, i).produces \subseteq usable)}

-----------------------------------------------------------------------------
(* default_registry and registry_for: the handler a step has.  The analysis*)
(* path and detection by a model have none.  A graph of a test has a       *)
(* handler for each of its steps.                                          *)
Gate == {"transcript.confirm", "l1.review", "metadata.confirm", "abstract.confirm",
         "release.approve"}
Run == {"l1.suggest", "l1.coverage", "metadata.derive", "abstract.derive",
        "release.preview", "export"}
ManualGate == {"pii.mark", "pseudonymisation.cases", "pseudonymisation.review"}
ManualRun == {"pseudonymise", "pseudonymise.finalise"}

Mode(id, s) ==
    LET manual == GraphOf(id).profile = "manual"
    IN  CASE GraphOf(id).profile = "test" -> IF s.human_gate THEN "gate" ELSE "run"
          [] s.name = "ingest" -> "input"
          [] s.name \in Gate \/ (manual /\ s.name \in ManualGate) -> "gate"
          [] s.name \in Run \/ (manual /\ s.name \in ManualRun) -> "run"
          [] OTHER -> "unbuilt"

(* check_registry *)
RegistryFits(id) ==
    \A s \in StepsOf(GraphOf(id)) :
        Mode(id, s) # "unbuilt" =>
            /\ s.human_gate <=> Mode(id, s) = "gate"
            /\ Mode(id, s) = "input" => s.requires = {}
            /\ Mode(id, s) = "run" => s.kind # "human"

-----------------------------------------------------------------------------
NoRun ==
    [at |-> "idle", id |-> None, confirm |-> FALSE, step |-> None,
     attempted |-> {}, executed |-> {}, report |-> "none",
     \* history: the plan at the start, while it holds; what the outcome left
     \* unnamed; whether it is what the plan foretold
     plan |-> None, unnamed |-> {}, asPlanned |-> TRUE]

EndedAs(r, report) == [r EXCEPT !.at = "idle", !.step = None, !.plan = None, !.report = report]

(* A plan foretells a run that may do all of it. *)
Foretold(id, confirm) ==
    LET plan == PlanOf(graphs[id].order, have[id])
    IN  IF confirm /\ \A name \in plan.steps : Mode(id, Named(id, name)) = "run" THEN plan ELSE None

Running(id, confirm) ==
    [NoRun EXCEPT !.at = "view", !.id = id, !.confirm = confirm, !.plan = Foretold(id, confirm)]

(* What anybody else writes makes it void. *)
Disturbed == [p \in DOMAIN run |-> [run[p] EXCEPT !.plan = None]]

(* What the loop may run next, and what it can only name. *)
MayRun(r, s) ==
    s.name \notin r.attempted /\ Mode(r.id, s) = "run" /\ (s.cheap \/ r.confirm)

Candidates(r) == {i \in Pending(r.id, have[r.id]) : MayRun(r, StepAt(r.id, i))}

AtTheDoor(r, pending) == {s \in pending : s.human_gate /\ Mode(r.id, s) # "unbuilt"}
Inputs(r, pending) == {s \in pending : Mode(r.id, s) = "input"}
Deferred(r, pending) == {s \in pending : Mode(r.id, s) = "run" /\ ~s.cheap}

\* Mutant: what has no handler is not worth a word
UnbuiltUnnamed(r, pending) == {}

Unbuilt(r, pending) == {s \in pending : Mode(r.id, s) = "unbuilt"}

(* The outcome when nothing is left to run: a gate before an input, before *)
(* what waits for --confirm, before what is not built.                     *)
Outcome(r) ==
    LET pending == {StepAt(r.id, i) : i \in Pending(r.id, have[r.id])}
        gates == AtTheDoor(r, pending)
        inputs == Inputs(r, pending)
        deferred == Deferred(r, pending)
        unbuilt == Unbuilt(r, pending)
        report == CASE gates # {} -> "GATE"
                    [] inputs # {} -> "INPUT_REQUIRED"
                    [] deferred # {} -> "CONFIRM_REQUIRED"
                    [] unbuilt # {} -> "NOT_BUILT"
                    [] OTHER -> "COMPLETE"
    IN  [EndedAs(r, report) EXCEPT
            !.unnamed = {s.name : s \in pending \ (gates \cup inputs \cup deferred \cup unbuilt)},
            !.asPlanned = r.plan # None => /\ r.executed = r.plan.steps
                                           /\ {s.name : s \in gates} = r.plan.gates]

(* view_of(), and what follows from it: halt on findings, else the first   *)
(* step of the order that may run, else the outcome.                       *)
View(p) ==
    LET r == run[p]
    IN  /\ r.at = "view"
        /\ run' = [run EXCEPT ![p] =
               CASE findings = "config" -> EndedAs(r, "CONFIG")
                 [] findings = "found" -> EndedAs(r, "FINDINGS")
                 [] findings = "none" /\ Candidates(r) = {} -> Outcome(r)
                 [] OTHER ->
                     LET s == StepAt(r.id, Min(Candidates(r)))
                     IN  [r EXCEPT !.at = "step", !.step = s.name,
                                   !.attempted = @ \cup {s.name}]]
        /\ UNCHANGED recordVars

(* What a step puts into its products. *)
MakesRaw(s, id) ==
    s.kind = "model" \/ (~s.human_gate /\ s.requires \cap raw[id] # {})
MakesPlain(s, id) ==
    s.name = "ingest" \/ (s.name # "pseudonymisation.review" /\ s.requires \cap plain[id] # {})

Produce(s, id) ==
    /\ have' = [have EXCEPT ![id] = @ \cup s.produces]
    /\ raw' = [raw EXCEPT ![id] = (@ \ s.produces) \cup (IF MakesRaw(s, id) THEN s.produces ELSE {})]
    /\ plain' = [plain EXCEPT ![id] =
                    (@ \ s.produces) \cup (IF MakesPlain(s, id) THEN s.produces ELSE {})]

(* The handler: it writes its products if it still finds its inputs, or it *)
(* raises; those of manual pseudonymisation may return a halt instead.     *)
Handle(p) ==
    LET r == run[p]
        s == Named(r.id, r.step)
    IN  /\ r.at = "step"
        /\ \/ /\ s.requires \subseteq have[r.id]
              /\ Produce(s, r.id)
              /\ run' = [Disturbed EXCEPT ![p] = [r EXCEPT !.at = "after", !.executed = @ \cup {s.name}]]
           \/ /\ run' = [run EXCEPT ![p] = EndedAs(r, "HANDLER")]
              /\ UNCHANGED <<have, raw, plain>>
           \/ /\ s.name \in ManualRun
              /\ run' = [run EXCEPT ![p] = EndedAs(r, "HALT")]
              /\ UNCHANGED <<have, raw, plain>>
        /\ UNCHANGED <<graphs, findings>>

(* What counts is what the journal shows afterwards. *)
After(p) ==
    LET r == run[p]
        missing == Named(r.id, r.step).produces \ have[r.id]
    IN  /\ r.at = "after"
        /\ run' = [run EXCEPT ![p] = IF missing = {} THEN [r EXCEPT !.at = "view", !.step = None]
                                     ELSE EndedAs(r, "HANDLER")]
        /\ UNCHANGED recordVars

ContinueStep(p) == View(p) \/ Handle(p) \/ After(p)

(* A human acts at a gate, or gives an input. *)
Decide(id, s) ==
    /\ Mode(id, s) \in {"gate", "input"}
    /\ s.requires \subseteq have[id]
    /\ ~ (s.produces \subseteq have[id])
    /\ Produce(s, id)
    /\ UNCHANGED <<graphs, findings>>

(* An artifact stops being usable, by a withdrawal, an undo or a newer     *)
(* input, and with it everything that rests on it.                         *)
Fall(id, a) ==
    LET falls == graphs[id].resting[a]
    IN  /\ a \in have[id]
        /\ have' = [have EXCEPT ![id] = @ \ falls]
        /\ raw' = [raw EXCEPT ![id] = @ \ falls]
        /\ plain' = [plain EXCEPT ![id] = @ \ falls]
        /\ UNCHANGED <<graphs, findings>>

(* Bytes of the record go missing or come back; a protection setting is    *)
(* lost.                                                                   *)
Report(found) ==
    /\ findings # found
    /\ findings' = found
    /\ UNCHANGED <<graphs, have, raw, plain>>

-----------------------------------------------------------------------------
(* check_egress_gates judges paths of the declared graph.  A graph it has  *)
(* nothing against lets no model output leave that no gate stood behind,   *)
(* whatever runs, is decided and falls in whatever order; and once all of  *)
(* a graph was produced, one it objects to has let some out.               *)
NothingUnreviewedLeaves ==
    \A id \in DOMAIN have :
        /\ graphs[id].sound => graphs[id].leaving \cap raw[id] = {}
        /\ /\ have[id] = Artifacts(GraphOf(id)) /\ ~graphs[id].sound
           /\ \A s \in StepsOf(GraphOf(id)) : s.leaves_system => s.produces # {}
           => graphs[id].leaving \cap raw[id] # {}

(* A profile that asks for pseudonymisation has no direct edge: beyond the *)
(* block nothing is made of text whose pseudonymisation no human reviewed. *)
NoDirectEdge ==
    \A id \in DOMAIN have :
        GraphOf(id).profile \in {"model", "manual"} =>
            plain[id] \subseteq {"transcript.revision", "transcript.confirmed"} \cup
                ((UNION {s.produces : s \in ToSet(ModelBlock) \cup ToSet(ManualBlock)})
                    \ {"transcript.pseudonymised.confirmed"})

(* continue executes what is cheap and built and names everything else     *)
(* that is pending.  The one exception is a step this very run has         *)
(* executed and somebody has since undone: it is neither run again nor     *)
(* named.                                                                  *)
PendingIsNamed == \A p \in DOMAIN run : run[p].unnamed \subseteq run[p].executed

(* The plan of a graph, computed over sets of artifacts without running    *)
(* anything, is the run that follows: a confirmed continue nobody disturbs *)
(* executes the planned steps, no more and no fewer, and stops at exactly  *)
(* the planned gates.                                                      *)
PlanIsRun == \A p \in DOMAIN run : run[p].asPlanned
=============================================================================
