------------------------------ MODULE Workflow ------------------------------
(***************************************************************************)
(* The steps and gates of one record, from the ingested text to the        *)
(* bundle that leaves the system (application/gate.py, catalog.py,         *)
(* review.py, coverage.py, l1_suggest.py, export.py, input_sources.py,     *)
(* decision_actions.py), run by several processes against one journal.     *)
(*                                                                         *)
(* Every command plans from the view it reads, then writes its events one  *)
(* by one and leaves out those that are there already.  Gates and the      *)
(* export check their plan again under the workspace lock and hold the     *)
(* journal in a transaction; ingest and confirm hold the workspace lock    *)
(* (Confirmation.tla has them in full); derivations and the model hold     *)
(* nothing.  The profile is a productive one, whose guards are strictest.  *)
(***************************************************************************)
EXTENDS Commands

CONSTANTS Processes, Texts, MetadataInputs, Scenarios

VARIABLES
    chain,      \* what the graph says of the artifacts
    view,       \* what the journal proves
    job,        \* what each process is about
    wlock,      \* the holder of the workspace lock
    file,       \* the operator's metadata file
    published,  \* the bundles put beside the data root
    lastAct,    \* the last human act on each artifact, in effect or not
    clock,      \* counts the plans whose time is recorded
    left        \* what may still happen (a bound)

vars == <<chain, view, job, wlock, file, published, lastAct, clock, left>>

Artefacts == DOMAIN chain.kind
have == Have(chain, view)

-----------------------------------------------------------------------------
Idle == [at |-> "idle", work |-> None, todo |-> << >>, seen |-> << >>, skip |-> FALSE]

\* Mutant: the anchor of a confirmation is written under the lock too
HoldsToTheEnd(w, event) == w.kind \in {"gate", "export", "ingest", "confirm"}

Holds(w, event) ==
    \/ w.kind \in {"gate", "export", "ingest"}
    \/ w.kind = "confirm" /\ event # "anchor"

(* A gate or an export is at work: nobody else's append comes through. *)
Transaction == wlock # None /\ job[wlock].work.kind \in {"gate", "export"}

(* Of each kind of event so many more; withdrawals on some artifacts. *)
Spend(item) == left[item] > 0 /\ left' = [left EXCEPT ![item] = @ - 1]

(* _release_fields, _halt_wenn_eingabe_gewandert: what is to be released   *)
(* rests on the metadata file as it is now.                                *)
FileOf(draft) == draft.from["metadata.input"]
ReleaseFileStands(w) ==
    w.artifact = "release.approved" => file = FileOf(w.inputs["metadata.draft"])
ExportFileStands(w) ==
    w.artifact = "export.bundle" => file = FileOf(w.inputs["release.approved"].from["metadata.draft"])
FileStands(w) == ReleaseFileStands(w) /\ ExportFileStands(w)

(* Planning.  What is usable is derived again by nobody; a gate or the     *)
(* export may be asked for again.                                          *)
MayIngest(w) ==
    w.inputs["source"] # None /\ (view.facts[w.artifact].sha # w.sha \/ w.renew)

MayConfirm(w) ==
    LET text == view.facts[chain.confirms[w.artifact]]
    IN  text.sha # None /\ text.receiptFor = text.sha

MayDecide(w, usable) ==
    ~view.findings /\ chain.requires[w.artifact] \subseteq usable /\ ReleaseFileStands(w)

MayExport(w, usable) ==
    ~view.findings /\ chain.requires[w.artifact] \subseteq usable /\ ExportFileStands(w)

MayDerive(w, usable) ==
    /\ ~view.findings
    /\ chain.roles[w.artifact] \subseteq usable /\ w.artifact \notin usable
    /\ w.artifact = "metadata.draft" => file # None

MayAsk(w, usable) ==
    ~view.findings /\ chain.roles[w.artifact] \subseteq usable /\ w.artifact \notin usable

MayPlan(w, usable) ==
    CASE w.kind = "ingest" -> MayIngest(w)
      [] w.kind = "confirm" -> MayConfirm(w)
      [] w.kind = "gate" -> MayDecide(w, usable)
      [] w.kind = "export" -> MayExport(w, usable)
      [] w.kind = "derive" -> MayDerive(w, usable)
      [] w.kind = "model" -> MayAsk(w, usable)

(* What the preview of a confirmation was built from. *)
Seen(a) ==
    IF chain.confirms[a] = NoText THEN << >>
    ELSE <<view.facts[chain.confirms[a]].producedAt, view.facts[a].producedAt, lastAct[a].at>>

Begin(p, a) ==
    LET w == Plan(chain, view, file, a, clock + 1)
        usable == have
    IN  /\ job[p] = Idle
        /\ MayPlan(w, usable)
        /\ Spend(IF a \in usable THEN "again" ELSE "plan")
        /\ clock' = IF w.kind \in {"confirm", "model"} THEN clock + 1 ELSE clock
        /\ job' = [job EXCEPT ![p] = [at |-> IF Holds(w, Head(Todo(chain, w))) THEN "plan" ELSE "write",
                                      work |-> w, todo |-> Todo(chain, w), seen |-> Seen(a), skip |-> FALSE]]
        /\ UNCHANGED <<chain, view, wlock, file, published, lastAct>>

\* Mutant: the plan is not checked again once the lock is held
TrustsPlan(w, seen) ==
    CASE w.kind = "ingest" -> TRUE
      [] w.kind = "confirm" -> seen = Seen(w.artifact)
      [] OTHER -> ~view.findings

(* Under the lock: check_planned_inputs and what each gate adds to it, or  *)
(* _checked_intent.                                                        *)
PlanStands(w, seen) ==
    CASE w.kind = "ingest" -> TRUE
      [] w.kind = "confirm" -> seen = Seen(w.artifact)
      [] w.kind \in {"gate", "export"} ->
            /\ ~view.findings
            /\ \A role \in DOMAIN w.inputs : role \in have /\ view.facts[role].sha = w.inputs[role]
            /\ w.kind = "gate" => view.facts[w.artifact].withdrawal = 0
            /\ FileStands(w)

Enter(p) ==
    /\ job[p].at = "plan"
    /\ wlock = None
    /\ \/ /\ PlanStands(job[p].work, job[p].seen)
          /\ wlock' = p
          /\ job' = [job EXCEPT ![p].at = "write"]
       \/ /\ ~PlanStands(job[p].work, job[p].seen)
          /\ job' = [job EXCEPT ![p] = Idle]
          /\ UNCHANGED wlock
    /\ UNCHANGED <<chain, view, file, published, lastAct, clock, left>>

(* Without a lock the predicate is worked out from one reading of the      *)
(* journal, and the append that uses it comes later.                       *)
LooksFirst(p) ==
    job[p].work.kind \in {"model", "derive"} /\ Head(job[p].todo) \in {"produced", "receipt"}

Look(p) ==
    /\ job[p].at = "write"
    /\ LooksFirst(p)
    /\ job' = [job EXCEPT ![p].at = "append", ![p].skip = Skip(chain, view, job[p].work, Head(job[p].todo))]
    /\ UNCHANGED <<chain, view, wlock, file, published, lastAct, clock, left>>

(* An observation takes both locks for itself and wants a sound record. *)
Reaches(p, event) ==
    CASE wlock = p -> TRUE
      [] wlock # p /\ event = "observe" -> wlock = None /\ ~view.findings
      [] OTHER -> ~Transaction

Write(p) ==
    LET w == job[p].work
        event == Head(job[p].todo)
        skip == IF LooksFirst(p) THEN job[p].skip ELSE Skip(chain, view, w, event)
        rest == Tail(job[p].todo)
    IN  /\ job[p].at \in {"write", "append"}
        /\ LooksFirst(p) => job[p].at = "append"
        /\ Reaches(p, event)
        /\ view' = IF skip THEN view ELSE Applied(chain, view, w, event)
        /\ lastAct' = IF event = "decision" /\ ~skip
                      THEN [lastAct EXCEPT ![w.artifact] =
                               [verdict |-> "ACCEPT", sha |-> w.sha, at |-> view'.n, time |-> w.at]]
                      ELSE lastAct
        /\ published' = IF event = "publish" THEN published \cup {[bundle |-> w.sha, at |-> view.n]} ELSE published
        /\ job' = [job EXCEPT ![p] = IF rest = << >> THEN Idle
                                     ELSE [@ EXCEPT !.at = "write", !.todo = rest, !.skip = FALSE]]
        /\ wlock' = IF wlock = p /\ (rest = << >> \/ ~Holds(w, Head(rest))) THEN None ELSE wlock
        /\ UNCHANGED <<chain, file, clock, left>>

(* A prompt refused, a model that fails, an exception, a kill: whatever    *)
(* was to be written is not, and the locks are free.                       *)
Stop(p) ==
    /\ job[p] # Idle
    /\ Spend("stop")
    /\ job' = [job EXCEPT ![p] = Idle]
    /\ wlock' = IF wlock = p THEN None ELSE wlock
    /\ UNCHANGED <<chain, view, file, published, lastAct, clock>>

-----------------------------------------------------------------------------
(* write_action: one act under both locks. *)
Act(a, verdict, undo_of) ==
    /\ wlock = None
    /\ ~view.findings
    /\ view.facts[a].sha # None
    /\ Spend("act")
    /\ view' = DecisionRecorded(chain, view, a,
                  [verdict |-> verdict, subject |-> view.facts[a].sha, refs |-> << >>,
                   undo_of |-> undo_of, at |-> clock])
    /\ lastAct' = [lastAct EXCEPT ![a] =
                     [verdict |-> verdict, sha |-> view.facts[a].sha, at |-> view'.n, time |-> clock]]
    /\ UNCHANGED <<chain, job, wlock, file, published, clock>>

Withdraw(a) == a \in left.on /\ Act(a, "WITHDRAW", 0)
Undo(a) == a \in Artefacts /\ view.facts[a].withdrawal # 0 /\ Act(a, "UNDO", view.facts[a].withdrawal)

(* language prepare: another text is to be taken in. *)
Deliver(s) ==
    /\ wlock = None
    /\ view.sources["source"].sha # s
    /\ Spend("deliver")
    /\ view' = Observed(view, "source", s)
    /\ UNCHANGED <<chain, job, wlock, file, published, lastAct, clock>>

EditFile(m) ==
    /\ file # m
    /\ Spend("edit")
    /\ file' = m
    /\ UNCHANGED <<chain, view, job, wlock, published, lastAct, clock>>

(* sources refresh *)
Refresh ==
    /\ wlock = None
    /\ ~view.findings
    /\ view.sources["metadata.input"].sha # file
    /\ view' = Observed(view, "metadata.input", file)
    /\ UNCHANGED <<chain, job, wlock, file, published, lastAct, clock, left>>

-----------------------------------------------------------------------------
(* What is true of the journal of every record of ohpipe, the empty one    *)
(* (NoView) and every one that the commands of this module have made of it,*)
(* over every chain of steps that have a command: a scenario may start     *)
(* anywhere there.                                                         *)
Verdicts == {"ACCEPT", "WITHDRAW", "UNDO"}
TextOf(s) == Content("transcript.revision", [role \in {"source"} |-> s], 0)

(* A step that must prove where its artifact comes from has a receipt, a   *)
(* human step and no other within the system a decision; a gate is about   *)
(* what its step requires, nothing stands on what leaves the system, and a *)
(* model only on the text it reads and the one gate that confirmed it.     *)
StepsAreBound(c, a) ==
    LET kind == KindOf(c, a)
    IN  /\ c.requires[a] \subseteq c.roles[a] /\ c.roles[a] \subseteq DOMAIN c.kind
        /\ c.behind[a] \subseteq c.requires[a] \cup UNION {c.behind[r] : r \in c.requires[a]}
        /\ \A r \in c.roles[a] : ~Egress(c, r)
        /\ kind \in {"derive", "model", "export"} => c.contract[a].provenance
        /\ kind \in {"confirm", "gate"} <=> c.contract[a].decision /\ kind # "export"
        /\ kind = "ingest" => ~c.contract[a].binding
        /\ kind = "confirm" => /\ ~c.contract[a].provenance
                               /\ c.confirms[a] \in c.requires[a]
                               /\ KindOf(c, c.confirms[a]) = "ingest"
        /\ kind \in {"confirm", "gate", "export"} \/ a = "metadata.draft" =>
             c.roles[a] = c.requires[a]
        /\ a = "metadata.draft" => kind = "derive"
        /\ c.confirms[a] # NoText => kind = "confirm"
        /\ kind = "ingest" => c.kind[a] = "deterministic" /\ c.roles[a] = {}
        /\ kind = "export" => c.requires[a] = {"release.approved"} /\ a = "export.bundle"
        /\ kind = "model" =>
             /\ \A b \in c.behind[a] : KindOf(c, b) \in {"ingest", "confirm"}
             /\ \E gate \in c.requires[a] : /\ c.confirms[gate] # NoText
                                           /\ \A b \in c.behind[a] \cup c.roles[a] :
                                                c.confirms[b] # NoText => b = gate

ChainIsBound(c) ==
    /\ c.order \in Seq(DOMAIN c.kind)
    /\ \A m, n \in DOMAIN c.order : c.order[m] = c.order[n] => m = n
    /\ \A a \in DOMAIN c.kind : \E n \in DOMAIN c.order :
         c.order[n] = a /\ \A r \in c.roles[a] : \E m \in 1..(n - 1) : c.order[m] = r
    /\ {"source", "metadata.input"} \cap DOMAIN c.kind = {}
    /\ "release.approved" \in DOMAIN c.kind => KindOf(c, "release.approved") = "gate"
    /\ \A a \in DOMAIN c.kind : StepsAreBound(c, a)

(* The fold has put everything in its place. *)
Placed(c, v) ==
    /\ DOMAIN v = DOMAIN NoView(c) /\ v.n \in Nat
    /\ DOMAIN v.facts = DOMAIN c.kind /\ DOMAIN v.sources = {"source", "metadata.input"}
    /\ \A a \in DOMAIN c.kind : DOMAIN v.facts[a] = DOMAIN NoFacts
    /\ v.sources["source"].sha \in Texts \cup {None}
    /\ \A m \in DOMAIN v.accepts : v.accepts[m] \in Nat

(* Evidence names what it is about, and is dated no later than its epoch. *)
FactsAreBound(c, v, a) ==
    LET f == v.facts[a]
    IN  /\ f.epoch \in 0..v.n /\ f.receiptSeq \in 0..f.epoch /\ f.decisionSeq \in 0..f.epoch
        /\ f.verdict \in {None} \cup Verdicts /\ (f.verdict # None => f.decisionSeq > 0)
        /\ f.sha # None => f.sha.of = a /\ f.sha \in f.history
        /\ f.receiptFor # None => /\ f.receiptInputs = f.receiptFor.from
                                  /\ KindOf(c, a) = "model" => f.receiptFor.by \in Nat
        /\ f.verdict = "ACCEPT" => /\ KindOf(c, a) \in {"confirm", "gate"}
                                   /\ f.subject.of = a /\ f.refs = f.subject.from
                                   /\ c.confirms[a] # NoText => f.subject \in DOMAIN v.accepts
        /\ f.withdrawal # 0 => f.verdict = "WITHDRAW"
        /\ f.inherited => Egress(c, a)
        /\ KindOf(c, a) = "ingest" /\ f.sha # None => f.receiptFor # None

Sound(c, v) ==
    /\ Placed(c, v)
    /\ \A a \in DOMAIN c.kind : FactsAreBound(c, v, a)
    /\ \A a, b \in DOMAIN c.kind :
         a # b => v.facts[a].decisionSeq = 0 \/ v.facts[a].decisionSeq # v.facts[b].decisionSeq

(* A bundle whose receipt no event on its approval has overtaken, and on   *)
(* which nobody acted, is what the approval makes of it, and inherits.     *)
Inherited(v, a) ==
    LET f == v.facts[a]
        approved == v.facts["release.approved"]
    IN  f.receiptFor # None /\ f.verdict = None /\ approved.epoch <= f.receiptSeq =>
            /\ f.inherited /\ f.sha = f.receiptFor
            /\ f.sha = Content(a, [role \in {"release.approved"} |-> approved.sha], 0)

(* Sources are dated like evidence, and only what a kind of step writes    *)
(* has a receipt.                                                          *)
Sourced(c, v) ==
    /\ \A role \in DOMAIN v.sources : v.sources[role].at \in 0..v.n
    /\ \A a \in DOMAIN c.kind :
         /\ KindOf(c, a) = "ingest" =>
              v.facts[a].receiptFor \in {None} \cup {TextOf(s) : s \in Texts}
         /\ KindOf(c, a) = "confirm" => v.facts[a].receiptFor = None
         /\ KindOf(c, a) = "export" => Inherited(v, a)

Items == {"plan", "again", "stop", "act", "deliver", "edit"}

ASSUME WorkflowAssumption ==
    /\ None \notin Processes \cup Verdicts
    /\ \A s \in Texts : TextOf(s) # None
    /\ \A sc \in Scenarios :
         /\ ChainIsBound(sc.chain) /\ Sound(sc.chain, sc.view) /\ Sourced(sc.chain, sc.view)
         /\ \A marker \in DOMAIN sc.view.accepts : sc.view.accepts[marker] = 0
         /\ sc.file \in MetadataInputs \cup {None}
         /\ DOMAIN sc.left = Items \cup {"on"} /\ \A item \in Items : sc.left[item] \in Nat

NoAct == [verdict |-> None, sha |-> None, at |-> 0, time |-> 0]

Init ==
    \E sc \in Scenarios :
        /\ chain = sc.chain
        /\ file = sc.file
        /\ view = sc.view
        /\ job = [p \in Processes |-> Idle]
        /\ wlock = None
        /\ published = {}
        /\ lastAct = [a \in Artefacts |->
                         LET f == view.facts[a]
                         IN  IF f.verdict = None THEN NoAct
                             ELSE [verdict |-> f.verdict, sha |-> f.subject, at |-> f.decisionSeq, time |-> 0]]
        /\ clock = 0
        /\ left = sc.left

Next ==
    \/ \E p \in Processes : Enter(p) \/ Look(p) \/ Write(p) \/ Stop(p)
    \/ \E p \in Processes, a \in Artefacts : Begin(p, a)
    \/ \E a \in Artefacts : Withdraw(a) \/ Undo(a)
    \/ \E s \in Texts : Deliver(s)
    \/ \E m \in MetadataInputs \cup {None} : EditFile(m)
    \/ Refresh

Spec == Init /\ [][Next]_vars

-----------------------------------------------------------------------------
(* Evidence is about the artifact it names and no newer than its epoch,    *)
(* and a command that is under way holds the workspace lock exactly while  *)
(* it has something to write that its code writes under the lock           *)
(* (workspace_write_lock in gate.py, export.py, ingest.py, confirmation.py).*)
WorkflowTypeOK ==
    /\ \A a \in Artefacts :
         LET f == view.facts[a]
         IN  /\ f.sha # None => f.sha.of = a /\ f.sha \in f.history
             /\ f.epoch \in 0..view.n /\ f.receiptSeq <= f.epoch /\ f.decisionSeq <= f.epoch
             /\ f.verdict \in {None, "ACCEPT", "WITHDRAW", "UNDO"}
    /\ file \in MetadataInputs \cup {None}
    /\ \A p \in Processes : job[p] # Idle =>
         /\ job[p].at \in {"plan", "write", "append"}
         /\ job[p].todo # << >> /\ job[p].work.artifact \in Artefacts
         /\ wlock = p <=> /\ job[p].at = "write"
                         /\ \/ job[p].work.kind \in {"gate", "export", "ingest"}
                            \/ job[p].work.kind = "confirm" /\ Head(job[p].todo) # "anchor"
    /\ wlock \in Processes \cup {None}
    /\ wlock # None => job[wlock] # Idle
    /\ \A item \in DOMAIN left \ {"on"} : left[item] \in Nat

(* What is usable stands on what is there: its bytes were made from the    *)
(* bytes its inputs have now, a human accepted exactly these bytes and has *)
(* done nothing since to what lies behind them, and a model was asked only *)
(* after the text it read had been accepted as it stands now (freshness,   *)
(* replay).                                                                *)
UsableIsGrounded ==
    \A a \in have :
        LET sha == view.facts[a].sha
        IN  /\ \A role \in DOMAIN sha.from : sha.from[role] = Current(view, role).sha
            /\ KindOf(chain, a) \in {"confirm", "gate"} =>
                 /\ lastAct[a].verdict = "ACCEPT" /\ lastAct[a].sha = sha
                 /\ \A b \in chain.behind[a] : lastAct[b].at < lastAct[a].at
            /\ KindOf(chain, a) = "model" =>
                 \A b \in chain.behind[a] : lastAct[b].time <= sha.by

(* A bundle is put beside the data root only while the approval it inherits*)
(* from is the last act on it and covers its bytes, and nothing behind the *)
(* approval is withdrawn or overtaken (write_export).                      *)
PublishedWasApproved ==
    [][\A b \in published' \ published :
          LET approved == b.bundle.from["release.approved"]
          IN  /\ view.facts["release.approved"].sha = approved
              /\ lastAct["release.approved"].verdict = "ACCEPT"
              /\ lastAct["release.approved"].sha = approved
              /\ chain.behind["export.bundle"] \subseteq have]_vars

(* The receipt of a revision never made, from before its text was last     *)
(* delivered: an ingest takes it for current and leaves it out.            *)
LeftOver(w) ==
    LET f == view.facts[w.artifact]
    IN  /\ f.sha = None /\ f.receiptFor = w.sha
        /\ f.receiptSeq < view.sources["source"].at

(* What more than the command a step may need: findings to be cleared, a   *)
(* withdrawal that stands, or one undone on what no human accepts, a text  *)
(* to be delivered or ingested twice (IngestIsEffective), a metadata file  *)
(* that is gone or is not what the draft was made from, and the            *)
(* confirmation of a text that came back (Confirmation.tla).               *)
Excused(w) ==
    LET f == view.facts[w.artifact]
    IN  \/ view.findings
        \/ f.withdrawal # 0
        \/ w.kind \notin {"confirm", "gate"} /\ f.verdict # None
        \/ w.kind = "ingest" /\ (w.inputs["source"] = None \/ LeftOver(w))
        \/ w.kind = "confirm" /\ w.sha \in f.history \ {f.sha}
        \/ w.artifact = "metadata.draft" /\ file = None
        \/ ~FileStands(w)

(* Whatever went before, commands that broke off, overtook each other or   *)
(* were repeated: once a step has its inputs, and is not Excused, its      *)
(* command done alone makes its artifact usable, and is never swallowed as *)
(* a duplicate (gate.py, receipt_duplicate and decision_duplicate).        *)
NoDeadEnd ==
    LET usable == have IN
    \A a \in Artefacts :
        LET w == Plan(chain, view, file, a, clock + 1)
        IN  a \notin usable /\ chain.roles[a] \subseteq usable /\ ~Excused(w) =>
                MayPlan(w, usable) /\ a \in Have(chain, Carry(chain, view, w))

(* An ingest that may be made, and reports that it wrote the receipt and   *)
(* the revision, leaves the text usable (write_b3b_ingest_srt).  It does   *)
(* not when the receipt it finds is LeftOver.                              *)
IngestIsEffective ==
    LET w == Plan(chain, view, file, "transcript.revision", clock + 1)
        f == view.facts[w.artifact]
    IN  MayIngest(w) /\ ~view.findings /\ f.withdrawal = 0 /\ f.verdict = None =>
            w.artifact \in Have(chain, Carry(chain, view, w))
=============================================================================
