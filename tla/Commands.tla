------------------------------ MODULE Commands ------------------------------
(***************************************************************************)
(* What the commands on one record plan and write (application/gate.py,    *)
(* catalog.py, review.py, coverage.py, l1_suggest.py, export.py,           *)
(* ingest.py, confirmation.py): pure, from the graph's tables and a view.  *)
(* The profile is a productive one, whose guards are strictest.            *)
(***************************************************************************)
EXTENDS Evidence

StaleIn(c, v, a) == Stale(c, v, Have(c, v), a)

(* An artifact's bytes: what they were made from, and what tells two runs  *)
(* on the same inputs apart.                                               *)
Content(a, inputs, by) == [of |-> a, from |-> inputs, by |-> by]

KindOf(c, a) ==
    IF a = "transcript.revision" THEN "ingest"
    ELSE CASE c.kind[a] = "human" -> IF c.confirms[a] # NoText THEN "confirm" ELSE "gate"
           [] c.kind[a] = "egress" -> "export"
           [] c.kind[a] = "model" -> "model"
           [] OTHER -> "derive"

(* The events of a command, in the order it writes them. *)
IngestTodo == <<"receipt", "produced">>
ConfirmTodo == <<"produced", "decision", "anchor">>
GateTodo == <<"produced", "decision", "anchor", "receipt">>
ModelTodo == <<"produced", "receipt", "anchor">>
ExportTodo == <<"produced", "anchor", "receipt", "publish">>
DeriveTodo(c, a) ==
    (IF a = "metadata.draft" THEN <<"observe">> ELSE << >>)
    \o <<"produced">>
    \o (IF c.contract[a].binding THEN <<"anchor">> ELSE << >>)
    \o <<"receipt">>

Todo(c, w) ==
    CASE w.kind = "ingest" -> IngestTodo
      [] w.kind = "confirm" -> ConfirmTodo
      [] w.kind = "gate" -> GateTodo
      [] w.kind = "model" -> ModelTodo
      [] w.kind = "export" -> ExportTodo
      [] w.kind = "derive" -> DeriveTodo(c, w.artifact)

(* What a command takes in when it plans.  The model and the coverage read *)
(* the text through the gate that confirmed it.                            *)
InputRoles(c, a) ==
    CASE a = "transcript.revision" -> {"source"}
      [] a = "metadata.draft" -> c.requires[a] \cup {"metadata.input"}
      [] KindOf(c, a) \in {"model", "derive"} /\ a # "metadata.draft" -> c.roles[a]
      [] OTHER -> c.requires[a]

InputsOf(c, v, file, a) ==
    [role \in InputRoles(c, a) |->
        CASE role = "metadata.input" -> file
          [] role = "source" -> v.sources["source"].sha
          [] OTHER -> v.facts[role].sha]

(* The marker a model run appeals to: that of the text it reads. *)
MarkerOf(c, v, a) ==
    v.facts[CHOOSE role \in c.requires[a] : c.confirms[role] # NoText].sha

(* A plan, made at a time.  Only the answers of a model differ from run to *)
(* run; renew is the text's way to write evidence that has gone stale.     *)
Plan(c, v, file, a, time) ==
    LET kind == KindOf(c, a)
        inputs == InputsOf(c, v, file, a)
    IN  [kind |-> kind, artifact |-> a, inputs |-> inputs, at |-> time,
         sha |-> Content(a, inputs, IF kind = "model" THEN time ELSE 0),
         under |-> IF kind = "model" THEN MarkerOf(c, v, a) ELSE None,
         renew |-> kind = "ingest" /\ StaleIn(c, v, a)]

(* The duplicate predicates: an event is left out if the last of its kind  *)
(* says the same, one exact anchor lasts, and the decision on a text is    *)
(* never left out.                                                         *)
Repeats(v, w, event) ==
    LET f == v.facts[w.artifact]
    IN  CASE event = "observe" -> v.sources["metadata.input"].sha = w.inputs["metadata.input"]
          [] event = "produced" -> IF w.kind = "confirm" THEN w.sha \in f.history
                                   ELSE f.sha = w.sha /\ ~w.renew
          [] event = "decision" -> /\ w.kind = "gate" /\ f.verdict = "ACCEPT"
                                   /\ f.subject = w.sha /\ f.refs = w.inputs
          [] event = "anchor" -> f.anchored
          [] event = "receipt" -> /\ f.receiptFor = w.sha /\ f.receiptInputs = w.inputs
                                  /\ ~w.renew
          [] event = "publish" -> FALSE

\* Mutant: however stale the artifact
SkipRepeated(c, v, w, event) == Repeats(v, w, event)

(* receipt_duplicate, decision_duplicate: but neither is left out of an    *)
(* artifact that has gone stale.                                           *)
Skip(c, v, w, event) ==
    /\ Repeats(v, w, event)
    /\ event \in {"receipt", "decision"} /\ w.kind # "ingest" => ~StaleIn(c, v, w.artifact)

Applied(c, v, w, event) ==
    CASE event = "observe" -> Observed(v, "metadata.input", w.inputs["metadata.input"])
      [] event = "produced" -> Produced(c, v, w.artifact, w.sha)
      [] event = "decision" ->
            DecisionRecorded(c, v, w.artifact,
                [verdict |-> "ACCEPT", subject |-> w.sha, refs |-> w.inputs, undo_of |-> 0, at |-> w.at])
      [] event = "anchor" -> Anchored(v, w.artifact)
      [] event = "receipt" ->
            Receipted(c, v, w.artifact,
                [for |-> w.sha, inputs |-> w.inputs, under |-> w.under, start |-> w.at])
      [] event = "publish" -> v

(* A command carried out from its plan to its end, with nothing beside it. *)
Carry(c, v, w) ==
    LET todo == Todo(c, w)
        after[n \in 0..Len(todo)] ==
            IF n = 0 THEN v
            ELSE LET u == after[n - 1]
                 IN  IF Skip(c, u, w, todo[n]) THEN u ELSE Applied(c, u, w, todo[n])
    IN  after[Len(todo)]
=============================================================================
