--------------------------- MODULE ManualEvidence ---------------------------
(***************************************************************************)
(* application/protected_replay.py and registry_replay.py: what the p4b.*  *)
(* and p4c.* events of a journal prove.  An act has no effect before its   *)
(* completion is recorded, and the completion counts only if everything    *)
(* the act was prepared on still stands.  As in Evidence.tla the fold is   *)
(* kept in place of the journal.  The report and the final text are made,  *)
(* dated and judged together and are one artifact here; the confirmed text *)
(* and its revision are one source.                                        *)
(***************************************************************************)
EXTENDS Naturals, FiniteSets, Sequences

CONSTANTS Records, None

Text == "transcript.confirmed"
Policy == "pseudonymisation.policy"
Registry == "pseudonymisation.registry"
Resolution == "pseudonymisation.resolution"
Spans == "pii.spans"
Draft == "transcript.pseudonymised.draft"
Cases == "pseudonymisation.cases"
Final == "transcript.pseudonymised.final"
Gate == "transcript.pseudonymised.confirmed"

Artefacts == {Spans, Draft, Cases, Final, Gate}
Human == {Spans, Cases, Gate}
Base == {Text, Policy, Spans, Draft, Cases}

(* The acts of p4b and of p4c, what each makes and what it is bound to. *)
P4b == {"pii.mark", "pseudonymise", "pseudonymisation.cases"}
P4c == {"resolve", "finalise", "review"}

Made(phase) ==
    CASE phase = "pii.mark" -> Spans
      [] phase = "pseudonymise" -> Draft
      [] phase = "pseudonymisation.cases" -> Cases
      [] phase = "resolve" -> Resolution
      [] phase = "finalise" -> Final
      [] phase = "review" -> Gate

Inputs(phase) ==
    CASE phase = "pii.mark" -> {Text, Policy}
      [] phase = "pseudonymise" -> {Text, Policy, Spans}
      [] phase = "pseudonymisation.cases" -> {Text, Policy, Spans, Draft}
      [] phase = "resolve" -> Base
      [] phase = "finalise" -> Base \cup {Registry, Resolution}
      [] phase = "review" -> Base \cup {Registry, Resolution, Final}

InOrder == <<"pii.mark", "pseudonymise", "pseudonymisation.cases", "finalise", "review">>

-----------------------------------------------------------------------------
(* Before anything is there: a register has a version, a checkpoint its     *)
(* number in the session.                                                  *)
NoRegister == [version |-> 0]
Unsaved == [session |-> 0, revision |-> 0]
Unseen(sha) == [sha |-> sha, at |-> 0]
NoFacts == [sha |-> None, refs |-> << >>, at |-> 0, verdict |-> None, withdrawn |-> FALSE]

NoView(humans) ==
    [n |-> 0,
     sources |-> [role \in {Policy, Registry} |-> Unseen(IF role = Registry THEN NoRegister ELSE None)],
     own |-> [r \in Records |-> [role \in {Text, Resolution} |-> Unseen(None)]],
     facts |-> [r \in Records |-> [a \in Artefacts |-> NoFacts]],
     checkpoint |-> [r \in Records |-> [phase \in P4b |-> Unsaved]],
     plans |-> << >>, done |-> {}, aborted |-> {},
     initial |-> NoRegister, active |-> humans, findings |-> {}]

(* The bytes a role has now, and since when. *)
Pair(v, r, role) ==
    CASE role \in Artefacts -> [sha |-> v.facts[r][role].sha, at |-> v.facts[r][role].at]
      [] role \in {Policy, Registry} -> v.sources[role]
      [] OTHER -> v.own[r][role]

Accepted(f, a) == ~f.withdrawn /\ f.verdict = (IF a \in Human THEN "ACCEPT" ELSE None)

\* Mutant: only what the steps before have made is compared
IsUsableAmongSteps(v, r, before, phase) ==
    LET f == v.facts[r][Made(phase)]
    IN  /\ f.sha # None /\ Accepted(f, Made(phase))
        /\ Inputs(phase) \cap Artefacts \subseteq before
        /\ \A role \in Inputs(phase) \cap Artefacts : f.refs[role] = Pair(v, r, role).sha

(* _check_refs and evaluate: bound to what is there now, and recorded no   *)
(* earlier; what it stands on is usable.                                   *)
IsUsable(v, r, before, phase) ==
    LET a == Made(phase)
        f == v.facts[r][a]
    IN  /\ f.sha # None /\ Accepted(f, a)
        /\ Inputs(phase) \cap Artefacts \subseteq before
        /\ \A role \in Inputs(phase) :
             /\ f.refs[role] = Pair(v, r, role).sha
             /\ f.at >= Pair(v, r, role).at

Also(v, r, before, phase) ==
    before \cup {a \in {Made(phase)} : IsUsable(v, r, before, phase)}

Among(v, r) ==
    LET among[i \in 0..Len(InOrder)] ==
            IF i = 0 THEN {} ELSE Also(v, r, among[i - 1], InOrder[i])
    IN  among

Have(v, r) == Among(v, r)[Len(InOrder)]

(* basis: every role with its bytes and its activation, if there is one. *)
HasBasis(v, r, phase) ==
    /\ Inputs(phase) \cap Artefacts \subseteq Have(v, r)
    /\ \A role \in Inputs(phase) : Pair(v, r, role).sha \notin {None, NoRegister}

Basis(v, r, phase) == [role \in Inputs(phase) |-> Pair(v, r, role)]

StandsOn(v, r, phase, basis) == HasBasis(v, r, phase) /\ Basis(v, r, phase) = basis

Withdrawn(v, r) == \E a \in Artefacts : v.facts[r][a].withdrawn

-----------------------------------------------------------------------------
(* One operator for each kind of event.  What the fold does not believe    *)
(* becomes a finding, and the record stops.                                *)
Rejected(v, r) == [v EXCEPT !.n = @ + 1, !.findings = @ \cup {r}]

(* p4b.policy *)
PolicySeen(v, sha) == [v EXCEPT !.n = @ + 1, !.sources[Policy] = [sha |-> sha, at |-> v.n + 1]]

(* A confirmed text, as the manual steps see it. *)
TextConfirmed(v, r, sha) == [v EXCEPT !.n = @ + 1, !.own[r][Text] = [sha |-> sha, at |-> v.n + 1]]

(* instance.retired *)
Retired(v, h) == [v EXCEPT !.n = @ + 1, !.active = @ \ {h}]

(* decision.recorded with WITHDRAW or UNDO *)
Decided(v, r, a, verdict) ==
    [v EXCEPT !.n = @ + 1,
              !.facts[r][a] = [@ EXCEPT !.verdict = verdict, !.withdrawn = (verdict = "WITHDRAW"),
                                        !.at = v.n + 1]]

(* p4b.checkpoint: the next revision of a session, or the first of a new. *)
Checkpointed(v, r, phase, c) ==
    LET prior == v.checkpoint[r][phase]
        follows == IF prior # Unsaved /\ prior.session = c.session
                   THEN c.previous = prior.revision /\ c.revision = prior.revision + 1 /\ c.actor = prior.actor
                   ELSE c.previous = 0 /\ c.revision = 1
    IN  IF follows THEN [v EXCEPT !.n = @ + 1, !.checkpoint[r][phase] = c] ELSE Rejected(v, r)

(* p4b.prepared, p4c.prepared *)
Prepared(v, p) ==
    IF p.phase \in P4c /\ v.sources[Registry].sha # p.before THEN Rejected(v, p.rec)
    ELSE [v EXCEPT !.n = @ + 1, !.plans = Append(@, [p EXCEPT !.at = v.n + 1])]

(* p4c.aborted *)
Aborted(v, i) == [v EXCEPT !.n = @ + 1, !.aborted = @ \cup {i}]

Believed(v, i) ==
    LET p == v.plans[i]
    IN  /\ i \notin v.done \cup v.aborted
        /\ p.rec \notin v.findings
        /\ StandsOn(v, p.rec, p.phase, p.basis)
        /\ p.actor \in v.active
        /\ p.phase \in P4b /\ p.checkpoint # Unsaved => v.checkpoint[p.rec][p.phase] = p.checkpoint
        /\ p.phase \in P4c => v.sources[Registry].sha = p.before /\ ~Withdrawn(v, p.rec)

(* p4b.completed, p4c.completed: only now the effects.  A new registry     *)
(* counts from when its act was prepared.                                  *)
Completed(v, i) ==
    LET p == v.plans[i]
        a == Made(p.phase)
        f == v.facts[p.rec][a]
        u == [v EXCEPT !.n = @ + 1, !.done = @ \cup {i},
                       !.sources[Registry] =
                           IF p.phase \in P4c /\ p.after # @.sha THEN [sha |-> p.after, at |-> p.at] ELSE @]
        refs == [role \in DOMAIN p.basis |-> IF role = Registry THEN p.after ELSE p.basis[role].sha]
    IN  IF ~Believed(v, i) THEN Rejected(v, p.rec)
        ELSE IF p.phase = "resolve"
             THEN [u EXCEPT !.own[p.rec][Resolution] = [sha |-> p.made, at |-> u.n]]
             ELSE [u EXCEPT !.facts[p.rec][a] =
                      [f EXCEPT !.sha = p.made, !.refs = refs, !.at = u.n,
                                !.verdict = IF a \in Human THEN "ACCEPT" ELSE f.verdict]]

(* p4c.init.prepared, p4c.initialised *)
InitPrepared(v, ref) ==
    IF v.initial # NoRegister THEN Rejected(v, None) ELSE [v EXCEPT !.n = @ + 1, !.initial = ref]

Initialised(v) ==
    IF v.sources[Registry].sha # NoRegister THEN Rejected(v, None)
    ELSE [v EXCEPT !.n = @ + 1, !.sources[Registry] = [sha |-> v.initial, at |-> v.n + 1]]

-----------------------------------------------------------------------------
Open(v, r, phases) ==
    {i \in DOMAIN v.plans : v.plans[i].rec = r /\ v.plans[i].phase \in phases} \ (v.done \cup v.aborted)

(* Interrupted acts are taken up again in the order they were prepared. *)
FirstOpen(v, r, phases) ==
    CHOOSE i \in Open(v, r, phases) : \A j \in Open(v, r, phases) : i <= j

Acts(v, r, phase) == {i \in v.done : v.plans[i].rec = r /\ v.plans[i].phase = phase}

(* published: of the completed acts, if there are any, the one prepared    *)
(* last.                                                                   *)
Published(v, r, phase) ==
    v.plans[CHOOSE i \in Acts(v, r, phase) : \A j \in Acts(v, r, phase) : j <= i]

(* check_referenced: the head is a registry that the journal names. *)
HeadIsNamed(v, head) ==
    v.initial = NoRegister \/ head \in {v.initial} \cup ({v.plans[i].after : i \in DOMAIN v.plans} \ {NoRegister})
=============================================================================
