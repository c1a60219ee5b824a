------------------------------ MODULE Evidence ------------------------------
(***************************************************************************)
(* application/replay.py and freshness.py: what the events of a record     *)
(* prove about its artifacts.  Nothing is stored but events; a view is a   *)
(* left fold of them, so it is kept here in place of the journal, with one *)
(* operator for each kind of event.  A content stands for its address.     *)
(* Evidence that a payload is malformed, foreign or without authority is   *)
(* left out: no command of ohpipe writes such an event.                    *)
(***************************************************************************)
EXTENDS StepGraph

CONSTANT None

(* What the fold asks of a graph in which each step makes one artifact. *)
Name(s) == CHOOSE a \in s.produces : TRUE

(* current_roles: what a step takes in, and the text behind it if it is   *)
(* behind exactly one gate that confirms one.                             *)
Current_roles(g, s) ==
    s.requires \cup (IF s.confirms = NoText /\ Cardinality(ReadCandidates(g, s)) = 1
                     THEN {Text_read(g, s)} ELSE {})

Chain(g) ==
    LET order == Topological(g)
        ByArtifact(Of(_)) == [a \in Artifacts(g) |-> Of(Producer(g, a))]
    IN  [order |-> [i \in DOMAIN order |-> Name(order[i])],
         kind |-> ByArtifact(LAMBDA s : s.kind),
         confirms |-> ByArtifact(LAMBDA s : s.confirms),
         requires |-> ByArtifact(LAMBDA s : s.requires),
         roles |-> ByArtifact(LAMBDA s : Current_roles(g, s)),
         behind |-> ByArtifact(LAMBDA s : {Name(t) : t \in Upstream(g, s)}),
         contract |-> g.contracts]

Egress(c, a) == c.kind[a] = "egress"

-----------------------------------------------------------------------------
NoFacts ==
    [sha |-> None, history |-> {}, epoch |-> 0, producedAt |-> 0,
     receiptFor |-> None, receiptInputs |-> << >>, receiptSeq |-> 0,
     verdict |-> None, subject |-> None, refs |-> << >>, decisionSeq |-> 0,
     withdrawal |-> 0, anchored |-> FALSE, inherited |-> FALSE]

(* n counts the events; accepts has the time of the decision that last      *)
(* accepted each marker of a text, which model receipts appeal to.         *)
NoView(c) ==
    [n |-> 0, facts |-> [a \in DOMAIN c.kind |-> NoFacts],
     sources |-> [role \in {"source", "metadata.input"} |-> [sha |-> None, at |-> 0]],
     accepts |-> << >>, findings |-> FALSE]

(* An inherited decision does not outlive the version or the decision it   *)
(* was inherited from, nor the one that inherits.                          *)
Disinherit(c, facts, a) ==
    [b \in DOMAIN facts |->
        IF Egress(c, b) /\ (b = a \/ a \in c.requires[b]) THEN [facts[b] EXCEPT !.inherited = FALSE]
        ELSE facts[b]]

(* source.ingested, input.observed *)
Observed(v, role, sha) ==
    [v EXCEPT !.n = @ + 1, !.sources[role] = [sha |-> sha, at |-> v.n + 1]]

(* artifact.produced *)
Produced(c, v, a, sha) ==
    LET f == v.facts[a]
        facts == IF f.sha \notin {None, sha} THEN Disinherit(c, v.facts, a) ELSE v.facts
    IN  [v EXCEPT !.n = @ + 1,
                  !.facts = [facts EXCEPT ![a] =
                      [facts[a] EXCEPT !.sha = sha, !.history = @ \cup {sha},
                                       !.epoch = v.n + 1, !.producedAt = v.n + 1]]]

(* anchor.checked *)
Anchored(v, a) == [v EXCEPT !.n = @ + 1, !.facts[a].anchored = TRUE]

(* A model receipt appeals to an acceptance of the text's marker by its    *)
(* id, reference@subject; of several the latest stands, and the run must   *)
(* not have started before it.                                             *)
Authorised(v, receipt) ==
    /\ receipt.under \in DOMAIN v.accepts
    /\ v.accepts[receipt.under] <= receipt.start

(* An egress inherits the decision on the one artifact it takes in.        *)
Inherits(v, a, receipt) ==
    /\ receipt.for = v.facts[a].sha
    /\ Cardinality(DOMAIN receipt.inputs) = 1
    /\ \A up \in DOMAIN receipt.inputs :
         /\ receipt.inputs[up] = v.facts[up].sha
         /\ v.facts[up].verdict = "ACCEPT"
         /\ v.facts[up].subject = v.facts[up].sha

(* receipt.recorded *)
Receipted(c, v, a, receipt) ==
    IF c.kind[a] = "model" /\ ~Authorised(v, receipt)
    THEN [v EXCEPT !.n = @ + 1, !.findings = TRUE]
    ELSE [v EXCEPT !.n = @ + 1,
                   !.facts[a] = [@ EXCEPT !.receiptFor = receipt.for,
                                          !.receiptInputs = receipt.inputs,
                                          !.receiptSeq = v.n + 1, !.epoch = v.n + 1,
                                          !.inherited = IF Egress(c, a) THEN Inherits(v, a, receipt)
                                                         ELSE v.facts[a].inherited]]

(* decision.recorded: an undo takes back exactly the withdrawal it names,  *)
(* and while one stands nothing else has an effect.                        *)
DecisionRecorded(c, v, a, d) ==
    LET f == v.facts[a]
        accepts == IF d.verdict = "ACCEPT" /\ c.confirms[a] # NoText
                   THEN [m \in DOMAIN v.accepts \cup {d.subject} |->
                            IF m = d.subject THEN d.at ELSE v.accepts[m]]
                   ELSE v.accepts
        effective == CASE d.verdict = "UNDO" -> f.withdrawal # 0 /\ d.undo_of = f.withdrawal
                       [] d.verdict = "WITHDRAW" -> TRUE
                       [] OTHER -> f.withdrawal = 0
        facts == IF d.verdict = "ACCEPT" THEN v.facts ELSE Disinherit(c, v.facts, a)
        new == [v EXCEPT !.n = @ + 1, !.accepts = accepts]
    IN  IF ~effective THEN new
        ELSE [new EXCEPT !.facts = [facts EXCEPT ![a] =
                 [facts[a] EXCEPT !.verdict = d.verdict, !.subject = d.subject, !.refs = d.refs,
                                  !.decisionSeq = v.n + 1, !.epoch = v.n + 1,
                                  !.withdrawal = CASE d.verdict = "UNDO" -> 0
                                                   [] d.verdict = "WITHDRAW" -> v.n + 1
                                                   [] OTHER -> @]]]

-----------------------------------------------------------------------------
(* freshness.py *)
Current(v, role) ==
    IF role \in DOMAIN v.facts THEN [sha |-> v.facts[role].sha, at |-> v.facts[role].epoch]
    ELSE v.sources[role]

(* metadata.draft names the input it was made from, once there is one. *)
Required(c, v, a, refs, receipt) ==
    CASE a = "transcript.revision" /\ receipt -> {"source"}
      [] a = "metadata.draft" /\ receipt ->
            c.roles[a] \cup (IF \/ "metadata.input" \in DOMAIN refs
                                \/ v.sources["metadata.input"].sha # None
                             THEN {"metadata.input"} ELSE {})
      [] OTHER -> c.roles[a]

\* Mutant: only the bytes are compared
CheckBytes(c, v, a, refs, seq, receipt) ==
    LET required == Required(c, v, a, refs, receipt)
    IN  /\ DOMAIN refs = required
        /\ \A role \in required : refs[role] # None /\ refs[role] = Current(v, role).sha

(* _check_refs: exactly the required roles, each with the current bytes,   *)
(* recorded no earlier than the last event that concerned them.            *)
Check_refs(c, v, a, refs, seq, receipt) ==
    LET required == Required(c, v, a, refs, receipt)
    IN  /\ DOMAIN refs = required
        /\ \A role \in required :
             /\ refs[role] # None
             /\ refs[role] = Current(v, role).sha
             /\ seq >= Current(v, role).at

(* evaluate: stale by its own references, or because what it depends on    *)
(* is not usable.                                                          *)
Stale(c, v, have, a) ==
    LET f == v.facts[a]
    IN  /\ f.sha # None
        /\ ~ /\ f.receiptFor # None => Check_refs(c, v, a, f.receiptInputs, f.receiptSeq, TRUE)
             /\ f.verdict = "ACCEPT" /\ ~Egress(c, a) => Check_refs(c, v, a, f.refs, f.decisionSeq, FALSE)
             /\ c.roles[a] \subseteq have

(* The three axes of an artifact's state: where there is evidence it       *)
(* counts, and where there is none the contract says whether that is a     *)
(* lack.                                                                   *)
Bound(c, f, a) == f.anchored \/ ~c.contract[a].binding

Derivable(c, f, a) ==
    IF f.receiptFor # None THEN f.receiptFor = f.sha ELSE ~c.contract[a].provenance

Accepted(c, f, a) ==
    /\ f.withdrawal = 0
    /\ \/ f.inherited
       \/ f.verdict = "ACCEPT" /\ f.subject = f.sha /\ ~Egress(c, a)
       \/ f.verdict = None /\ ~c.contract[a].decision

IsUsable(c, v, have, a) ==
    LET f == v.facts[a]
    IN  /\ f.sha # None
        /\ Bound(c, f, a) /\ Derivable(c, f, a) /\ Accepted(c, f, a)
        /\ ~Stale(c, v, have, a)

(* RecordView.have.  What an artifact depends on comes before it. *)
Also(c, v, before, a) == before \cup {b \in {a} : IsUsable(c, v, before, a)}
Among(c, v) ==
    LET among[n \in 0..Len(c.order)] ==
            IF n = 0 THEN {} ELSE Also(c, v, among[n - 1], c.order[n])
    IN  among
Have(c, v) == Among(c, v)[Len(c.order)]
=============================================================================
