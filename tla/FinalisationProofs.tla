------------------------- MODULE FinalisationProofs -------------------------
(***************************************************************************)
(* Proofs about the manual work and the finalisation, for every set of     *)
(* records, humans, processes, texts and policies, and from every journal  *)
(* that is Sound.                                                          *)
(***************************************************************************)
EXTENDS Finalisation, FiniteSetTheorems, WellFoundedInduction, TLAPS

-----------------------------------------------------------------------------
(* The first and the last of some numbers.                                 *)

LEMMA LeastExists ==
    ASSUME NEW S \in SUBSET Nat, S # {}
    PROVE  \E m \in S : \A x \in S : m <= x
  <1>1. PICK m \in S : \A x \in S : <<x, m>> \notin OpToRel(<, Nat)
    BY WFMin, NatLessThanWellFounded, Zenon
  <1>2. \A x \in S : ~(x < m)
    BY <1>1, Zenon DEF OpToRel
  <1> QED
    BY <1>2

LEMMA LastExists ==
    ASSUME NEW n \in Nat, NEW S \in SUBSET (1..n), S # {}
    PROVE  \E m \in S : \A x \in S : x <= m
  <1> DEFINE T == {n - x : x \in S}
  <1>1. T \in SUBSET Nat /\ T # {}
    <2>1. \A x \in S : n - x \in Nat
      OBVIOUS
    <2>2. PICK x \in S : TRUE
      OBVIOUS
    <2> QED
      BY <2>1, <2>2
  <1>2. PICK t \in T : \A x \in T : t <= x
    BY <1>1, LeastExists, Zenon
  <1>3. PICK m \in S : t = n - m
    BY <1>2
  <1>4. \A x \in S : n - x \in T
    OBVIOUS
  <1>5. ASSUME NEW x \in S PROVE x <= m
    <2>1. t <= n - x
      BY <1>2, <1>4
    <2> QED
      BY <1>3, <2>1
  <1> QED
    BY <1>5

-----------------------------------------------------------------------------
(* The roles and the acts.                                                 *)

LEMMA RolesOf ==
    /\ Inputs("resolve") = Base
    /\ Inputs("finalise") = Base \cup {Registry, Resolution}
    /\ Inputs("review") = Base \cup {Registry, Resolution, Final}
    /\ Base = {Text, Policy, Spans, Draft, Cases}
    /\ Made("resolve") = Resolution /\ Made("finalise") = Final /\ Made("review") = Gate
    /\ \A phase \in P4b : Made(phase) \in {Spans, Draft, Cases}
    /\ \A phase \in P4b \cup P4c : Inputs(phase) \subseteq Roles \ {Gate}
    /\ Roles = {Policy, Registry, Text, Resolution, Spans, Draft, Cases, Final, Gate}
  <1>1. /\ Inputs("resolve") = Base
        /\ Inputs("finalise") = Base \cup {Registry, Resolution}
        /\ Inputs("review") = Base \cup {Registry, Resolution, Final}
        /\ Made("resolve") = Resolution /\ Made("finalise") = Final /\ Made("review") = Gate
    BY DEF Inputs, Made
  <1>2. Base = {Text, Policy, Spans, Draft, Cases}
    BY DEF Base
  <1>3. \A phase \in P4b : Made(phase) \in {Spans, Draft, Cases}
    BY DEF P4b, Made
  <1>4. Roles = {Policy, Registry, Text, Resolution, Spans, Draft, Cases, Final, Gate}
    BY DEF Roles, Artefacts
  <1>5. Gate \notin {Policy, Registry, Text, Resolution, Spans, Draft, Cases, Final}
    BY DEF Policy, Registry, Text, Resolution, Spans, Draft, Cases, Final, Gate
  <1>6. \A phase \in P4b : Inputs(phase) \subseteq {Text, Policy, Spans, Draft}
    BY DEF P4b, Inputs
  <1>7. \A phase \in P4c : phase \in {"resolve", "finalise", "review"}
    BY DEF P4c
  <1>8. \A phase \in P4b \cup P4c : Inputs(phase) \subseteq Roles \ {Gate}
    BY <1>1, <1>2, <1>4, <1>5, <1>6, <1>7
  <1> QED
    BY <1>1, <1>2, <1>3, <1>4, <1>8

LEMMA RolesDiffer ==
    /\ Artefacts = {Spans, Draft, Cases, Final, Gate}
    /\ Policy # Registry /\ Text # Resolution
    /\ {Policy, Registry} \cap Artefacts = {} /\ {Text, Resolution} \cap Artefacts = {}
    /\ {Policy, Registry} \cap {Text, Resolution} = {}
    /\ Spans \notin {Draft, Cases, Final, Gate} /\ Draft \notin {Cases, Final, Gate}
    /\ Cases \notin {Final, Gate} /\ Final # Gate
    /\ Human = {Spans, Cases, Gate}
    /\ P4b \cap P4c = {}
  BY DEF Artefacts, Human, P4b, P4c, Policy, Registry, Text, Resolution, Spans, Draft, Cases, Final, Gate

(* Where the bytes of a role are kept.                                     *)
LEMMA PairIs ==
    ASSUME NEW v, NEW r
    PROVE  /\ \A a \in Artefacts : Pair(v, r, a) = [sha |-> v.facts[r][a].sha, at |-> v.facts[r][a].at]
           /\ \A role \in {Policy, Registry} : Pair(v, r, role) = v.sources[role]
           /\ \A role \in {Text, Resolution} : Pair(v, r, role) = v.own[r][role]
  BY RolesDiffer DEF Pair

LEMMA PairMoves ==
    ASSUME NEW v, NEW u, NEW r, NEW a \in Artefacts
    PROVE  /\ Pair(u, r, a).at = u.facts[r][a].at
           /\ u.facts[r][a] = v.facts[r][a] => Pair(u, r, a) = Pair(v, r, a)
  BY PairIs

-----------------------------------------------------------------------------
(* What each event changes in the view.                                    *)
Fields == {"n", "sources", "own", "facts", "checkpoint", "plans", "done", "aborted", "initial",
           "active", "findings"}

Keeps(v, u, changed) == DOMAIN u = Fields /\ \A x \in Fields \ changed : u[x] = v[x]

LEMMA FieldsOf == ASSUME NEW v, Sorted(v) PROVE DOMAIN v = Fields /\ v.n \in Nat
  BY DEF Sorted, NoView, Fields

LEMMA SourcesOf == ASSUME NEW v, Sorted(v) PROVE DOMAIN v.sources = {Policy, Registry}
  BY DEF Sorted

LEMMA OwnOf ==
    ASSUME NEW v, Sorted(v), NEW r \in Records
    PROVE  DOMAIN v.own = Records /\ DOMAIN v.own[r] = {Text, Resolution}
  BY DEF Sorted

LEMMA FactsOf ==
    ASSUME NEW v, Sorted(v), NEW r \in Records
    PROVE  /\ DOMAIN v.facts = Records /\ DOMAIN v.facts[r] = Artefacts
           /\ \A a \in Artefacts : DOMAIN v.facts[r][a] = {"sha", "refs", "at", "verdict", "withdrawn"}
  BY DEF Sorted, NoFacts

LEMMA CheckpointsOf ==
    ASSUME NEW v, Sorted(v), NEW r \in Records
    PROVE  DOMAIN v.checkpoint = Records /\ DOMAIN v.checkpoint[r] = P4b
  BY DEF Sorted

LEMMA PolicySeenIs ==
    ASSUME NEW v, Sorted(v), NEW sha
    PROVE  LET u == PolicySeen(v, sha)
           IN  /\ Keeps(v, u, {"n", "sources"}) /\ u.n = v.n + 1
               /\ DOMAIN u.sources = {Policy, Registry}
               /\ u.sources[Policy] = [sha |-> sha, at |-> v.n + 1]
               /\ u.sources[Registry] = v.sources[Registry]
  <1> DEFINE new == [sha |-> sha, at |-> v.n + 1]
             sources == [v.sources EXCEPT ![Policy] = new]
             u == PolicySeen(v, sha)
  <1>1. /\ DOMAIN sources = {Policy, Registry} /\ sources[Policy] = new
        /\ sources[Registry] = v.sources[Registry]
    BY SourcesOf, RolesDiffer
  <1> HIDE DEF sources
  <1>2. Keeps(v, u, {"n", "sources"}) /\ u.n = v.n + 1 /\ u.sources = sources
    BY FieldsOf DEF PolicySeen, Keeps, Fields, sources
  <1> QED
    BY <1>1, <1>2

LEMMA TextConfirmedIs ==
    ASSUME NEW v, Sorted(v), NEW r \in Records, NEW sha
    PROVE  LET u == TextConfirmed(v, r, sha)
           IN  /\ Keeps(v, u, {"n", "own"}) /\ u.n = v.n + 1
               /\ DOMAIN u.own = Records /\ DOMAIN u.own[r] = {Text, Resolution}
               /\ u.own[r][Text] = [sha |-> sha, at |-> v.n + 1]
               /\ u.own[r][Resolution] = v.own[r][Resolution]
               /\ \A s \in Records \ {r} : u.own[s] = v.own[s]
  <1> DEFINE new == [sha |-> sha, at |-> v.n + 1]
             own == [v.own EXCEPT ![r][Text] = new]
             u == TextConfirmed(v, r, sha)
  <1>1. /\ DOMAIN own = Records /\ DOMAIN own[r] = {Text, Resolution} /\ own[r][Text] = new
        /\ own[r][Resolution] = v.own[r][Resolution]
        /\ \A s \in Records \ {r} : own[s] = v.own[s]
    BY OwnOf, RolesDiffer
  <1> HIDE DEF own
  <1>2. Keeps(v, u, {"n", "own"}) /\ u.n = v.n + 1 /\ u.own = own
    BY FieldsOf DEF TextConfirmed, Keeps, Fields, own
  <1> QED
    BY <1>1, <1>2

LEMMA RetiredIs ==
    ASSUME NEW v, Sorted(v), NEW h
    PROVE  LET u == Retired(v, h) IN Keeps(v, u, {"n", "active"}) /\ u.n = v.n + 1
  BY FieldsOf DEF Retired, Keeps, Fields

LEMMA AbortedIs ==
    ASSUME NEW v, Sorted(v), NEW i
    PROVE  LET u == Aborted(v, i)
           IN  Keeps(v, u, {"n", "aborted"}) /\ u.n = v.n + 1 /\ u.aborted = v.aborted \cup {i}
  BY FieldsOf DEF Aborted, Keeps, Fields

LEMMA DecidedIs ==
    ASSUME NEW v, Sorted(v), NEW r \in Records, NEW a \in Artefacts, NEW verdict
    PROVE  LET u == Decided(v, r, a, verdict)
           IN  /\ Keeps(v, u, {"n", "facts"}) /\ u.n = v.n + 1
               /\ DOMAIN u.facts = Records
               /\ \A s \in Records \ {r} : u.facts[s] = v.facts[s]
               /\ DOMAIN u.facts[r] = Artefacts
               /\ \A b \in Artefacts \ {a} : u.facts[r][b] = v.facts[r][b]
               /\ DOMAIN u.facts[r][a] = DOMAIN NoFacts
               /\ u.facts[r][a].sha = v.facts[r][a].sha /\ u.facts[r][a].refs = v.facts[r][a].refs
               /\ u.facts[r][a].at = v.n + 1 /\ u.facts[r][a].verdict = verdict
               /\ u.facts[r][a].withdrawn = (verdict = "WITHDRAW")
  <1> DEFINE f == [v.facts[r][a] EXCEPT !.verdict = verdict, !.withdrawn = (verdict = "WITHDRAW"),
                                        !.at = v.n + 1]
             facts == [v.facts EXCEPT ![r][a] = f]
             u == Decided(v, r, a, verdict)
  <1>1. /\ DOMAIN f = DOMAIN NoFacts /\ f.sha = v.facts[r][a].sha /\ f.refs = v.facts[r][a].refs
        /\ f.at = v.n + 1 /\ f.verdict = verdict /\ f.withdrawn = (verdict = "WITHDRAW")
    BY FactsOf DEF NoFacts
  <1> HIDE DEF f
  <1>2. /\ DOMAIN facts = Records /\ DOMAIN facts[r] = Artefacts /\ facts[r][a] = f
        /\ \A s \in Records \ {r} : facts[s] = v.facts[s]
        /\ \A b \in Artefacts \ {a} : facts[r][b] = v.facts[r][b]
    BY FactsOf
  <1> HIDE DEF facts
  <1>3. Keeps(v, u, {"n", "facts"}) /\ u.n = v.n + 1 /\ u.facts = facts
    BY FieldsOf DEF Decided, Keeps, Fields, facts, f
  <1> QED
    BY <1>1, <1>2, <1>3

LEMMA CheckpointedIs ==
    ASSUME NEW v, Sorted(v), NEW r \in Records, NEW phase \in P4b, NEW c,
           LET prior == v.checkpoint[r][phase]
           IN  IF prior # Unsaved /\ prior.session = c.session
               THEN c.previous = prior.revision /\ c.revision = prior.revision + 1 /\ c.actor = prior.actor
               ELSE c.previous = 0 /\ c.revision = 1
    PROVE  LET u == Checkpointed(v, r, phase, c)
           IN  /\ Keeps(v, u, {"n", "checkpoint"}) /\ u.n = v.n + 1
               /\ DOMAIN u.checkpoint = Records
               /\ \A s \in Records \ {r} : u.checkpoint[s] = v.checkpoint[s]
               /\ DOMAIN u.checkpoint[r] = P4b
               /\ \A x \in P4b \ {phase} : u.checkpoint[r][x] = v.checkpoint[r][x]
               /\ u.checkpoint[r][phase] = c
  <1> DEFINE checkpoint == [v.checkpoint EXCEPT ![r][phase] = c]
             u == Checkpointed(v, r, phase, c)
  <1>1. Checkpointed(v, r, phase, c) = [v EXCEPT !.n = @ + 1, !.checkpoint[r][phase] = c]
    BY DEF Checkpointed
  <1>2. /\ DOMAIN checkpoint = Records /\ DOMAIN checkpoint[r] = P4b /\ checkpoint[r][phase] = c
        /\ \A s \in Records \ {r} : checkpoint[s] = v.checkpoint[s]
        /\ \A x \in P4b \ {phase} : checkpoint[r][x] = v.checkpoint[r][x]
    BY CheckpointsOf
  <1> HIDE DEF checkpoint
  <1>3. Keeps(v, u, {"n", "checkpoint"}) /\ u.n = v.n + 1 /\ u.checkpoint = checkpoint
    BY <1>1, FieldsOf DEF Keeps, Fields, checkpoint
  <1> QED
    BY <1>2, <1>3

LEMMA PlansOf ==
    ASSUME NEW v, Sorted(v)
    PROVE  /\ Len(v.plans) \in Nat /\ DOMAIN v.plans = 1..Len(v.plans)
           /\ v.done \cup v.aborted \subseteq 1..Len(v.plans)
  BY DEF Sorted

LEMMA PreparedIs ==
    ASSUME NEW v, Sorted(v), NEW p, p.phase \in P4c => v.sources[Registry].sha = p.before
    PROVE  LET u == Prepared(v, p)
               i == Len(v.plans) + 1
           IN  /\ Keeps(v, u, {"n", "plans"}) /\ u.n = v.n + 1
               /\ u.plans \in Seq({u.plans[j] : j \in DOMAIN u.plans})
               /\ Len(u.plans) = i /\ DOMAIN u.plans = 1..i
               /\ \A j \in DOMAIN v.plans : u.plans[j] = v.plans[j]
               /\ u.plans[i] = [p EXCEPT !.at = v.n + 1]
  <1> DEFINE new == [p EXCEPT !.at = v.n + 1]
             u == Prepared(v, p)
             i == Len(v.plans) + 1
             old == {v.plans[j] : j \in DOMAIN v.plans}
             plans == Append(v.plans, new)
  <1>1. v.plans \in Seq(old) /\ Len(v.plans) \in Nat /\ DOMAIN v.plans = 1..Len(v.plans)
    BY PlansOf DEF Sorted
  <1> HIDE DEF new, old
  <1>2. /\ plans \in Seq(old \cup {new}) /\ Len(plans) = i
        /\ \A j \in 1..Len(v.plans) : plans[j] = v.plans[j]
        /\ plans[i] = new
    <2>1. v.plans \in Seq(old \cup {new})
      BY <1>1
    <2> QED
      BY <1>1, <2>1
  <1> DEFINE all == old \cup {new}
  <1> HIDE DEF plans, all
  <1>3. DOMAIN plans = 1..i /\ plans \in [1..i -> all]
    <2>1. plans \in Seq(all) /\ Len(plans) = i
      BY <1>2 DEF all
    <2> QED
      BY <2>1
  <1>4. plans \in Seq({plans[j] : j \in DOMAIN plans})
    <2>1. plans \in [1..i -> {plans[j] : j \in DOMAIN plans}]
      BY <1>3
    <2> QED
      BY <2>1, <1>1
  <1>5. Keeps(v, u, {"n", "plans"}) /\ u.n = v.n + 1 /\ u.plans = plans
    BY FieldsOf DEF Prepared, Keeps, Fields, plans, new
  <1> QED
    BY <1>1, <1>2, <1>3, <1>4, <1>5 DEF new

(* The register after an act is the one it was prepared to make.           *)
LEMMA RegisterAfter ==
    ASSUME NEW v, Sorted(v), NEW p
    PROVE  LET sources == [v.sources EXCEPT ![Registry] =
                             IF p.phase \in P4c /\ p.after # @.sha THEN [sha |-> p.after, at |-> p.at] ELSE @]
           IN  /\ DOMAIN sources = {Policy, Registry} /\ sources[Policy] = v.sources[Policy]
               /\ p.phase \notin P4c \/ p.after = v.sources[Registry].sha => sources[Registry] = v.sources[Registry]
               /\ p.phase \in P4c /\ p.after # v.sources[Registry].sha =>
                    sources[Registry] = [sha |-> p.after, at |-> p.at]
  BY SourcesOf, RolesDiffer

LEMMA ResolvedIs ==
    ASSUME NEW v, Sorted(v), NEW i \in DOMAIN v.plans, Believed(v, i),
           v.plans[i].rec \in Records, v.plans[i].phase = "resolve",
           v.plans[i].after = v.sources[Registry].sha
    PROVE  LET u == Completed(v, i)
               r == v.plans[i].rec
           IN  /\ Keeps(v, u, {"n", "done", "own", "sources"}) /\ u.n = v.n + 1 /\ u.done = v.done \cup {i}
               /\ DOMAIN u.sources = {Policy, Registry}
               /\ u.sources[Policy] = v.sources[Policy] /\ u.sources[Registry] = v.sources[Registry]
               /\ DOMAIN u.own = Records /\ DOMAIN u.own[r] = {Text, Resolution}
               /\ u.own[r][Text] = v.own[r][Text]
               /\ u.own[r][Resolution] = [sha |-> v.plans[i].made, at |-> v.n + 1]
               /\ \A s \in Records \ {r} : u.own[s] = v.own[s]
  <1> DEFINE p == v.plans[i]
             r == p.rec
             new == [sha |-> p.made, at |-> v.n + 1]
             sources == [v.sources EXCEPT ![Registry] =
                            IF p.phase \in P4c /\ p.after # @.sha THEN [sha |-> p.after, at |-> p.at] ELSE @]
             w == [v EXCEPT !.n = @ + 1, !.done = @ \cup {i}, !.sources = sources]
             own == [v.own EXCEPT ![r][Resolution] = new]
             u == Completed(v, i)
  <1>1. /\ DOMAIN own = Records /\ DOMAIN own[r] = {Text, Resolution} /\ own[r][Resolution] = new
        /\ own[r][Text] = v.own[r][Text]
        /\ \A s \in Records \ {r} : own[s] = v.own[s]
    BY OwnOf, RolesDiffer
  <1>2. /\ DOMAIN sources = {Policy, Registry} /\ sources[Policy] = v.sources[Policy]
        /\ sources[Registry] = v.sources[Registry]
    BY RegisterAfter
  <1>3. /\ [v EXCEPT !.n = @ + 1, !.done = @ \cup {i},
                     !.sources[Registry] =
                         IF p.phase \in P4c /\ p.after # @.sha THEN [sha |-> p.after, at |-> p.at] ELSE @] = w
    OBVIOUS
  <1> HIDE DEF sources
  <1>4. Keeps(v, w, {"n", "done", "sources"}) /\ w.n = v.n + 1 /\ w.done = v.done \cup {i} /\ w.sources = sources
    BY FieldsOf DEF Keeps, Fields
  <1>5. u = [w EXCEPT !.own[r][Resolution] = [sha |-> p.made, at |-> w.n]]
    BY <1>3 DEF Completed
  <1> HIDE DEF w
  <1>6. w.own = v.own
    BY <1>4 DEF Keeps, Fields
  <1>7. u = [w EXCEPT !.own = own]
    BY <1>4, <1>5, <1>6
  <1> HIDE DEF own, u
  <1>8. Keeps(w, u, {"own"}) /\ u.own = own
    BY <1>4, <1>7 DEF Keeps, Fields
  <1>9. /\ Keeps(v, u, {"n", "done", "own", "sources"}) /\ u.n = v.n + 1 /\ u.done = v.done \cup {i}
        /\ u.sources = sources
    BY <1>4, <1>8 DEF Keeps, Fields
  <1> QED
    BY <1>1, <1>2, <1>8, <1>9 DEF u

(* Of the act i its artifact is there in u, with what it refers to.        *)
Makes(v, u, i) ==
    LET p == v.plans[i]
        r == p.rec
        a == Made(p.phase)
    IN  /\ Keeps(v, u, {"n", "done", "facts", "sources"}) /\ u.n = v.n + 1 /\ u.done = v.done \cup {i}
        /\ DOMAIN u.sources = {Policy, Registry} /\ u.sources[Policy] = v.sources[Policy]
        /\ p.phase \notin P4c \/ p.after = v.sources[Registry].sha =>
             u.sources[Registry] = v.sources[Registry]
        /\ p.phase \in P4c /\ p.after # v.sources[Registry].sha =>
             u.sources[Registry] = [sha |-> p.after, at |-> p.at]
        /\ DOMAIN u.facts = Records /\ DOMAIN u.facts[r] = Artefacts
        /\ DOMAIN u.facts[r][a] = DOMAIN NoFacts
        /\ u.facts[r][a].at = v.n + 1
        /\ u.facts[r][a].refs =
             [role \in DOMAIN p.basis |-> IF role = Registry THEN p.after ELSE p.basis[role].sha]
        /\ \A b \in Artefacts \ {a} : u.facts[r][b] = v.facts[r][b]
        /\ \A s \in Records \ {r} : u.facts[s] = v.facts[s]

LEMMA MadeIs ==
    ASSUME NEW v, Sorted(v), NEW i \in DOMAIN v.plans, Believed(v, i),
           v.plans[i].rec \in Records, v.plans[i].phase \in P4b \cup P4c, v.plans[i].phase # "resolve"
    PROVE  Makes(v, Completed(v, i), i)
  <1> DEFINE p == v.plans[i]
             r == p.rec
             a == Made(p.phase)
             refs == [role \in DOMAIN p.basis |-> IF role = Registry THEN p.after ELSE p.basis[role].sha]
             sources == [v.sources EXCEPT ![Registry] =
                            IF p.phase \in P4c /\ p.after # @.sha THEN [sha |-> p.after, at |-> p.at] ELSE @]
             w == [v EXCEPT !.n = @ + 1, !.done = @ \cup {i}, !.sources = sources]
             f == [v.facts[r][a] EXCEPT !.sha = p.made, !.refs = refs, !.at = w.n,
                                        !.verdict = IF a \in Human THEN "ACCEPT" ELSE v.facts[r][a].verdict]
             facts == [w.facts EXCEPT ![r][a] = f]
             u == Completed(v, i)
  <1>1. a \in Artefacts
    BY RolesOf, RolesDiffer DEF P4c
  <1>2. [v EXCEPT !.n = @ + 1, !.done = @ \cup {i},
                  !.sources[Registry] =
                      IF p.phase \in P4c /\ p.after # @.sha THEN [sha |-> p.after, at |-> p.at] ELSE @] = w
    OBVIOUS
  <1>3. /\ DOMAIN sources = {Policy, Registry} /\ sources[Policy] = v.sources[Policy]
        /\ p.phase \notin P4c \/ p.after = v.sources[Registry].sha => sources[Registry] = v.sources[Registry]
        /\ p.phase \in P4c /\ p.after # v.sources[Registry].sha =>
             sources[Registry] = [sha |-> p.after, at |-> p.at]
    BY RegisterAfter
  <1> HIDE DEF sources
  <1>4. Keeps(v, w, {"n", "done", "sources"}) /\ w.n = v.n + 1 /\ w.done = v.done \cup {i} /\ w.sources = sources
    BY FieldsOf DEF Keeps, Fields
  <1>5. u = [w EXCEPT !.facts[r][a] = f]
    BY <1>2 DEF Completed
  <1> HIDE DEF w, u
  <1>6. w.facts = v.facts /\ w.n = v.n + 1
    BY <1>4 DEF Keeps, Fields
  <1>7. Keeps(w, u, {"facts"}) /\ u.facts = facts
    <2>1. DOMAIN w = Fields
      BY <1>4 DEF Keeps
    <2> HIDE DEF f, a, p
    <2> QED
      BY <2>1, <1>5 DEF Keeps, Fields
  <1>8. /\ DOMAIN f = DOMAIN NoFacts /\ f.sha = p.made /\ f.refs = refs /\ f.at = v.n + 1
        /\ f.withdrawn = v.facts[r][a].withdrawn
    BY <1>1, <1>6, FactsOf DEF NoFacts
  <1> HIDE DEF f
  <1>9. /\ DOMAIN facts = Records /\ DOMAIN facts[r] = Artefacts /\ facts[r][a] = f
        /\ \A s \in Records \ {r} : facts[s] = v.facts[s]
        /\ \A b \in Artefacts \ {a} : facts[r][b] = v.facts[r][b]
    BY <1>1, <1>6, FactsOf
  <1> HIDE DEF facts
  <1>10. /\ Keeps(v, u, {"n", "done", "facts", "sources"}) /\ u.n = v.n + 1 /\ u.done = v.done \cup {i}
         /\ u.sources = sources
    BY <1>4, <1>7 DEF Keeps, Fields
  <1> QED
    BY <1>3, <1>7, <1>8, <1>9, <1>10 DEF u, Makes

LEMMA InitPreparedIs ==
    ASSUME NEW v, Sorted(v), v.initial = NoRegister, NEW ref
    PROVE  LET u == InitPrepared(v, ref)
           IN  Keeps(v, u, {"n", "initial"}) /\ u.n = v.n + 1 /\ u.initial = ref
  BY FieldsOf DEF InitPrepared, Keeps, Fields

LEMMA InitialisedIs ==
    ASSUME NEW v, Sorted(v), v.sources[Registry].sha = NoRegister
    PROVE  LET u == Initialised(v)
           IN  /\ Keeps(v, u, {"n", "sources"}) /\ u.n = v.n + 1
               /\ DOMAIN u.sources = {Policy, Registry}
               /\ u.sources[Policy] = v.sources[Policy]
               /\ u.sources[Registry] = [sha |-> v.initial, at |-> v.n + 1]
  <1> DEFINE new == [sha |-> v.initial, at |-> v.n + 1]
             sources == [v.sources EXCEPT ![Registry] = new]
             u == Initialised(v)
  <1>1. /\ DOMAIN sources = {Policy, Registry} /\ sources[Registry] = new
        /\ sources[Policy] = v.sources[Policy]
    BY SourcesOf, RolesDiffer
  <1> HIDE DEF sources
  <1>2. Keeps(v, u, {"n", "sources"}) /\ u.n = v.n + 1 /\ u.sources = sources
    BY FieldsOf DEF Initialised, Keeps, Fields, sources
  <1> QED
    BY <1>1, <1>2

-----------------------------------------------------------------------------
(* What is usable is found in five steps.                                  *)

LEMMA HaveIs ==
    ASSUME NEW v, NEW r
    PROVE  \E S \in SUBSET {Spans, Draft, Cases, Final} :
               /\ S = Also(v, r, Also(v, r, Also(v, r, Also(v, r, {}, "pii.mark"), "pseudonymise"),
                                      "pseudonymisation.cases"), "finalise")
               /\ Have(v, r) = Also(v, r, S, "review")
  <1> DEFINE S1 == Also(v, r, {}, "pii.mark")
             S2 == Also(v, r, S1, "pseudonymise")
             S3 == Also(v, r, S2, "pseudonymisation.cases")
             S4 == Also(v, r, S3, "finalise")
             S5 == Also(v, r, S4, "review")
             f == [i \in 0..5 |-> IF i = 0 THEN {} ELSE IF i = 1 THEN S1 ELSE IF i = 2 THEN S2
                                  ELSE IF i = 3 THEN S3 ELSE IF i = 4 THEN S4 ELSE S5]
             Wanted(g) == [i \in 0..Len(InOrder) |-> IF i = 0 THEN {} ELSE Also(v, r, g[i - 1], InOrder[i])]
  <1>1. /\ Len(InOrder) = 5
        /\ InOrder[1] = "pii.mark" /\ InOrder[2] = "pseudonymise"
        /\ InOrder[3] = "pseudonymisation.cases" /\ InOrder[4] = "finalise" /\ InOrder[5] = "review"
    BY DEF InOrder
  <1>2. S4 \in SUBSET {Spans, Draft, Cases, Final}
    BY DEF Also, Made
  <1> HIDE DEF S1, S2, S3, S4, S5
  <1>3. f[0] = {} /\ f[1] = S1 /\ f[2] = S2 /\ f[3] = S3 /\ f[4] = S4 /\ f[5] = S5
    OBVIOUS
  <1> HIDE DEF f
  <1>4. ASSUME NEW i \in 0..5
        PROVE  f[i] = IF i = 0 THEN {} ELSE Also(v, r, f[i - 1], InOrder[i])
    <2>1. i \in {0, 1, 2, 3, 4, 5}
      OBVIOUS
    <2>2. S1 = Also(v, r, f[0], InOrder[1]) /\ S2 = Also(v, r, f[1], InOrder[2])
      BY <1>1, <1>3 DEF S1, S2
    <2>3. S3 = Also(v, r, f[2], InOrder[3]) /\ S4 = Also(v, r, f[3], InOrder[4])
      BY <1>1, <1>3 DEF S3, S4
    <2>4. S5 = Also(v, r, f[4], InOrder[5])
      BY <1>1, <1>3 DEF S5
    <2> QED
      BY <1>3, <2>1, <2>2, <2>3, <2>4
  <1>5. f = Wanted(f)
    BY <1>1, <1>4 DEF f
  <1>6. Among(v, r) = CHOOSE h : h = Wanted(h)
    BY Zenon DEF Among
  <1>7. Among(v, r) = Wanted(Among(v, r))
    BY <1>5, <1>6, Zenon
  <1>8. ASSUME NEW W, W = Wanted(W) PROVE W[5] = S5
    <2>1. \A i \in 0..5 : W[i] = IF i = 0 THEN {} ELSE Also(v, r, W[i - 1], InOrder[i])
      BY <1>1, <1>8
    <2>2. W[0] = {}
      BY <2>1
    <2>3. W[1] = S1
      <3>1. W[1] = Also(v, r, W[1 - 1], InOrder[1])
        BY <2>1
      <3> QED
        BY <1>1, <2>2, <3>1 DEF S1
    <2>4. W[2] = S2
      <3>1. W[2] = Also(v, r, W[2 - 1], InOrder[2])
        BY <2>1
      <3> QED
        BY <1>1, <2>3, <3>1 DEF S2
    <2>5. W[3] = S3
      <3>1. W[3] = Also(v, r, W[3 - 1], InOrder[3])
        BY <2>1
      <3> QED
        BY <1>1, <2>4, <3>1 DEF S3
    <2>6. W[4] = S4
      <3>1. W[4] = Also(v, r, W[4 - 1], InOrder[4])
        BY <2>1
      <3> QED
        BY <1>1, <2>5, <3>1 DEF S4
    <2>7. W[5] = Also(v, r, W[5 - 1], InOrder[5])
      BY <2>1
    <2> QED
      BY <1>1, <2>6, <2>7 DEF S5
  <1>9. Have(v, r) = S5
    BY <1>1, <1>7, <1>8, Zenon DEF Have
  <1>10. S4 = Also(v, r, Also(v, r, Also(v, r, Also(v, r, {}, "pii.mark"), "pseudonymise"),
                               "pseudonymisation.cases"), "finalise")
    BY DEF S1, S2, S3, S4
  <1> QED
    BY <1>2, <1>9, <1>10 DEF S5

LEMMA UsableDepends ==
    ASSUME NEW v, NEW u, NEW r, u.facts[r] = v.facts[r], u.sources = v.sources, u.own[r] = v.own[r],
           NEW before, NEW phase \in P4b \cup P4c
    PROVE  Also(u, r, before, phase) = Also(v, r, before, phase)
  <1>1. \A role \in Roles : Pair(u, r, role) = Pair(v, r, role)
    BY RolesOf, PairIs, RolesDiffer DEF Pair
  <1>2. Inputs(phase) \subseteq Roles
    BY RolesOf
  <1> QED
    BY <1>1, <1>2 DEF Also, IsUsable

(* It depends on the sources and on what concerns the record, only.        *)
LEMMA HaveDepends ==
    ASSUME NEW v, NEW u, NEW r, u.facts[r] = v.facts[r], u.sources = v.sources, u.own[r] = v.own[r]
    PROVE  /\ Have(u, r) = Have(v, r)
           /\ \A role : Pair(u, r, role) = Pair(v, r, role)
           /\ \A phase : Basis(u, r, phase) = Basis(v, r, phase)
           /\ \A phase : HasBasis(u, r, phase) <=> HasBasis(v, r, phase)
  <1> DEFINE T(w, S) == Also(w, r, S, "pii.mark")
             D(w, S) == Also(w, r, S, "pseudonymise")
             C(w, S) == Also(w, r, S, "pseudonymisation.cases")
             F(w, S) == Also(w, r, S, "finalise")
             G(w, S) == Also(w, r, S, "review")
  <1>1. \A S : /\ T(u, S) = T(v, S) /\ D(u, S) = D(v, S) /\ C(u, S) = C(v, S)
               /\ F(u, S) = F(v, S) /\ G(u, S) = G(v, S)
    BY UsableDepends DEF P4b, P4c
  <1>2. \A w : Have(w, r) = G(w, F(w, C(w, D(w, T(w, {})))))
    BY HaveIs, Zenon
  <1> HIDE DEF T, D, C, F, G
  <1>3. Have(u, r) = Have(v, r)
    BY <1>1, <1>2
  <1>4. \A role : Pair(u, r, role) = Pair(v, r, role)
    BY DEF Pair
  <1>5. \A phase : Basis(u, r, phase) = Basis(v, r, phase)
    BY <1>4 DEF Basis
  <1>6. \A phase : HasBasis(u, r, phase) <=> HasBasis(v, r, phase)
    BY <1>3, <1>4 DEF HasBasis
  <1> QED
    BY <1>3, <1>4, <1>5, <1>6

(* A usable gate refers to what is there now, all of which is usable.      *)
LEMMA UsableGate ==
    ASSUME NEW v, NEW r, Gate \in Have(v, r)
    PROVE  Refers(v, r) /\ Inputs("review") \cap Artefacts \subseteq Have(v, r)
  <1>1. PICK S \in SUBSET {Spans, Draft, Cases, Final} : Have(v, r) = Also(v, r, S, "review")
    BY HaveIs
  <1>2. Gate \notin S
    BY RolesDiffer
  <1>3. IsUsable(v, r, S, "review")
    BY <1>1, <1>2 DEF Also
  <1>4. Made("review") = Gate /\ Gate \in Human
    BY RolesOf, RolesDiffer
  <1>5. Refers(v, r)
    BY <1>3, <1>4 DEF IsUsable, Accepted, Refers
  <1>6. Inputs("review") \cap Artefacts \subseteq S
    BY <1>3 DEF IsUsable
  <1> QED
    BY <1>1, <1>5, <1>6 DEF Also

-----------------------------------------------------------------------------
(* The register: what allocate makes of it.                                *)

LEMMA EmptyIs == IsRegister(Empty) /\ Empty # NoRegister /\ DOMAIN Empty.names = {}
  <1>1. DOMAIN Empty.names = {}
    BY DEF Empty
  <1>2. Empty.version = 1 /\ NoRegister.version = 0 /\ DOMAIN Empty.res = Records
    BY DEF Empty, NoRegister
  <1>3. IsFiniteSet(DOMAIN Empty.names)
    BY <1>1, FS_EmptySet
  <1> QED
    BY <1>1, <1>2, <1>3 DEF IsRegister

LEMMA RegisterIsThere == ASSUME NEW reg, IsRegister(reg) PROVE reg # NoRegister
  BY DEF IsRegister, NoRegister

LEMMA NumberedIs ==
    ASSUME NEW reg, IsRegister(reg), NEW entity
    PROVE  LET names == Numbered(reg.names, entity)
           IN  /\ IsFiniteSet(DOMAIN names)
               /\ \A e \in DOMAIN names : names[e] \in 1..Cardinality(DOMAIN names)
               /\ \A d, e \in DOMAIN names : names[d] = names[e] => d = e
               /\ DOMAIN reg.names \subseteq DOMAIN names
               /\ \A e \in DOMAIN reg.names : names[e] = reg.names[e]
  <1> DEFINE old == reg.names
             N == Cardinality(DOMAIN old)
             names == Numbered(old, entity)
  <1>1. /\ IsFiniteSet(DOMAIN old)
        /\ \A e \in DOMAIN old : old[e] \in 1..N
        /\ \A d, e \in DOMAIN old : old[d] = old[e] => d = e
    BY DEF IsRegister
  <1>2. N \in Nat
    BY <1>1, FS_CardinalityType
  <1>3. CASE entity \in DOMAIN old
    BY <1>1, <1>3 DEF Numbered
  <1>4. CASE entity \notin DOMAIN old
    <2>1. DOMAIN names = DOMAIN old \cup {entity} /\ names[entity] = N + 1
      BY <1>4 DEF Numbered
    <2>2. \A e \in DOMAIN old : names[e] = old[e]
      BY <1>4 DEF Numbered
    <2>3. IsFiniteSet(DOMAIN names) /\ Cardinality(DOMAIN names) = N + 1
      BY <1>1, <1>4, <2>1, FS_AddElement
    <2> HIDE DEF names, N, old
    <2>4. \A e \in DOMAIN names : names[e] \in 1..(N + 1)
      BY <1>1, <1>2, <2>1, <2>2
    <2>5. \A d, e \in DOMAIN names : names[d] = names[e] => d = e
      BY <1>1, <1>2, <2>1, <2>2
    <2> QED
      BY <2>1, <2>2, <2>3, <2>4, <2>5 DEF names, old
  <1> QED
    BY <1>3, <1>4

LEMMA AllocatedIs ==
    ASSUME NEW reg, IsRegister(reg), NEW r \in Records, NEW resolution, NEW op
    PROVE  LET after == Allocate(reg, r, resolution, op)
           IN  /\ IsRegister(after) /\ after.res[r] = resolution
               /\ after = reg \/ after.version = reg.version + 1
               /\ DOMAIN reg.names \subseteq DOMAIN after.names
               /\ \A e \in DOMAIN reg.names : after.names[e] = reg.names[e]
  <1> DEFINE names == Numbered(reg.names, resolution.entity)
             res == [reg.res EXCEPT ![r] = resolution]
             new == [reg EXCEPT !.version = @ + 1, !.op = op, !.names = names, !.res = res]
             after == Allocate(reg, r, resolution, op)
  <1>1. after = IF new.names = reg.names /\ new.res = reg.res THEN reg ELSE new
    BY DEF Allocate
  <1>2. DOMAIN reg = {"version", "op", "names", "res"} /\ reg.version \in Nat \ {0} /\ DOMAIN reg.res = Records
    BY DEF IsRegister, Empty
  <1>3. DOMAIN res = Records /\ res[r] = resolution
    BY <1>2
  <1>4. /\ IsFiniteSet(DOMAIN names)
        /\ \A e \in DOMAIN names : names[e] \in 1..Cardinality(DOMAIN names)
        /\ \A d, e \in DOMAIN names : names[d] = names[e] => d = e
        /\ DOMAIN reg.names \subseteq DOMAIN names
        /\ \A e \in DOMAIN reg.names : names[e] = reg.names[e]
    BY NumberedIs
  <1> HIDE DEF names, res
  <1>5. /\ DOMAIN new = DOMAIN reg /\ new.version = reg.version + 1 /\ new.names = names /\ new.res = res
    BY <1>2
  <1> HIDE DEF new, after
  <1>6. IsRegister(new)
    BY <1>2, <1>3, <1>4, <1>5 DEF IsRegister
  <1>7. CASE after = new
    BY <1>3, <1>4, <1>5, <1>6, <1>7 DEF after
  <1>8. CASE after = reg /\ new.res = reg.res
    BY <1>3, <1>5, <1>8 DEF after
  <1> QED
    BY <1>1, <1>7, <1>8

-----------------------------------------------------------------------------
(* Of the completed acts the one that was prepared last.                   *)

LEMMA PublishedIs ==
    ASSUME NEW v, Sorted(v), NEW r, NEW phase, Acts(v, r, phase) # {}
    PROVE  \E i \in Acts(v, r, phase) : Published(v, r, phase) = v.plans[i] /\ i \in DOMAIN v.plans
  <1> DEFINE A == Acts(v, r, phase)
  <1>1. A \in SUBSET (1..Len(v.plans)) /\ Len(v.plans) \in Nat /\ DOMAIN v.plans = 1..Len(v.plans)
    BY PlansOf DEF Acts
  <1> HIDE DEF A
  <1>2. \E m \in A : \A x \in A : x <= m
    BY <1>1, LastExists DEF A
  <1>3. (CHOOSE i \in A : \A j \in A : j <= i) \in A
    BY <1>2, Zenon
  <1> QED
    BY <1>1, <1>3 DEF A, Published

LEMMA PublishedStays ==
    ASSUME NEW v, Sorted(v), NEW u, NEW r, NEW phase,
           \A i \in DOMAIN v.plans : u.plans[i] = v.plans[i],
           Acts(u, r, phase) = Acts(v, r, phase), Acts(v, r, phase) # {}
    PROVE  Published(u, r, phase) = Published(v, r, phase)
  <1> DEFINE A == Acts(v, r, phase)
             m == CHOOSE i \in A : \A j \in A : j <= i
  <1>1. A \in SUBSET (1..Len(v.plans)) /\ Len(v.plans) \in Nat /\ DOMAIN v.plans = 1..Len(v.plans)
    BY PlansOf DEF Acts
  <1> HIDE DEF A
  <1>2. \E i \in A : \A x \in A : x <= i
    BY <1>1, LastExists DEF A
  <1>3. m \in A
    BY <1>2, Zenon
  <1>4. Published(v, r, phase) = v.plans[m]
    BY Zenon DEF Published, A
  <1>5. Published(u, r, phase) = u.plans[m]
    BY Zenon DEF Published, A
  <1> QED
    BY <1>1, <1>3, <1>4, <1>5

-----------------------------------------------------------------------------
(* What an event leaves of a sound view.                                   *)
Renewed(v, u, r, role) == Pair(u, r, role).at > v.n

Follows(v, u) ==
    /\ Sorted(u) /\ u.n = v.n + 1
    /\ DOMAIN v.plans \subseteq DOMAIN u.plans
    /\ \A i \in DOMAIN v.plans : u.plans[i] = v.plans[i]
    /\ v.done \subseteq u.done
    /\ \A r \in Records :
         /\ \A role \in Roles \ {Registry, Gate} :
              Pair(u, r, role) = Pair(v, r, role) \/ Renewed(v, u, r, role)
         /\ Acts(u, r, "resolve") = Acts(v, r, "resolve") \/ Renewed(v, u, r, Resolution)
         /\ Acts(u, r, "finalise") = Acts(v, r, "finalise") \/ Renewed(v, u, r, Final)

LEMMA OldPlans ==
    ASSUME NEW v, NEW u, Sorted(v), Follows(v, u), NEW i \in DOMAIN v.plans, WellMade(v, i)
    PROVE  WellMade(u, i)
  <1> DEFINE p == v.plans[i]
  <1>1. u.plans[i] = p /\ v.n \in Nat /\ u.n = v.n + 1
    BY FieldsOf DEF Follows
  <1>2. /\ p.rec \in Records /\ p.phase \in P4b \cup P4c /\ p.at \in 1..v.n
        /\ DOMAIN p.basis = Inputs(p.phase)
        /\ p.phase \in P4c => p.before # NoRegister /\ ~p.basis[Cases].sha.open
        /\ p.phase \in {"resolve", "review"} => p.after = p.before
    BY DEF WellMade
  <1>3. p.at \in 1..u.n
    BY <1>1, <1>2
  <1>4. ASSUME p.phase = "finalise"
        PROVE  /\ p.after = Allocate(p.before, p.rec, p.after.res[p.rec], i)
               /\ p.basis[Resolution].at \in 0..u.n
               /\ p.basis[Resolution] = Pair(u, p.rec, Resolution) =>
                    /\ Acts(u, p.rec, "resolve") # {}
                    /\ p.after.res[p.rec] = Published(u, p.rec, "resolve").made
    <2> DEFINE a == p.basis[Resolution]
               V == Pair(v, p.rec, Resolution)
               U == Pair(u, p.rec, Resolution)
    <2>1. /\ p.after = Allocate(p.before, p.rec, p.after.res[p.rec], i)
          /\ a.at \in 0..v.n
          /\ a = V => /\ Acts(v, p.rec, "resolve") # {}
                      /\ p.after.res[p.rec] = Published(v, p.rec, "resolve").made
      BY <1>4 DEF WellMade
    <2>2. U.at \in 0..u.n /\ Resolution \in Roles \ {Registry, Gate}
      BY <1>2, RolesOf, RolesDiffer DEF Follows, Sorted
    <2>3. /\ U = V \/ U.at > v.n
          /\ Acts(u, p.rec, "resolve") = Acts(v, p.rec, "resolve") \/ U.at > v.n
      BY <1>2, <2>2 DEF Follows, Renewed
    <2> HIDE DEF U, V, a, p
    <2>4. ASSUME a = U
          PROVE  /\ Acts(u, p.rec, "resolve") # {}
                 /\ p.after.res[p.rec] = Published(u, p.rec, "resolve").made
      <3>1. ~(U.at > v.n)
        BY <1>1, <2>1, <2>2, <2>4
      <3>2. a = V /\ Acts(u, p.rec, "resolve") = Acts(v, p.rec, "resolve")
        BY <2>3, <2>4, <3>1
      <3>3. Published(u, p.rec, "resolve") = Published(v, p.rec, "resolve")
        BY <2>1, <3>2, PublishedStays DEF Follows
      <3> QED
        BY <2>1, <3>2, <3>3
    <2>5. a = U => /\ Acts(u, p.rec, "resolve") # {}
                   /\ p.after.res[p.rec] = Published(u, p.rec, "resolve").made
      BY <2>4
    <2>6. a.at \in 0..u.n
      BY <1>1, <2>1, <2>2, <2>3
    <2> QED
      BY <2>1, <2>5, <2>6 DEF U, a
  <1> QED
    BY <1>1, <1>2, <1>3, <1>4 DEF WellMade

LEMMA OldGates ==
    ASSUME NEW v, NEW u, Sorted(v), Follows(v, u), RegistersGrow(v), Afters(v) \subseteq Afters(u),
           NEW r \in Records, GateIsTrue(v, r), u.facts[r][Gate] = v.facts[r][Gate],
           \/ u.sources[Registry] = v.sources[Registry]
           \/ v.sources[Registry].sha = NoRegister
           \/ u.sources[Registry].sha.version = v.sources[Registry].sha.version + 1
    PROVE  GateIsTrue(u, r)
  <1> DEFINE f == v.facts[r][Gate]
             V(role) == Pair(v, r, role)
             U(role) == Pair(u, r, role)
  <1>1. f.sha # None => f.refs[Registry] \in Afters(v) /\ f.refs[Registry] \in Afters(u)
    BY DEF GateIsTrue
  <1>2. ASSUME Refers(u, r) PROVE Approved(u, r)
    <2>1. /\ f.sha # None /\ ~f.withdrawn /\ f.verdict = "ACCEPT"
          /\ \A role \in Inputs("review") : f.refs[role] = U(role).sha /\ f.at >= U(role).at
      BY <1>2 DEF Refers
    <2>2. Inputs("review") = {Text, Policy, Spans, Draft, Cases, Registry, Resolution, Final}
      BY RolesOf
    <2>3. U(Registry) = u.sources[Registry] /\ V(Registry) = v.sources[Registry]
      BY PairIs
    <2>4. U(Registry) = V(Registry)
      <3> DEFINE a == f.refs[Registry]
                 c == v.sources[Registry].sha
      <3>1. a \in Afters(v) /\ a = u.sources[Registry].sha
        BY <1>1, <2>1, <2>2, <2>3
      <3>2. c # NoRegister
        BY <3>1 DEF RegistersGrow
      <3>3. a \in Ever(v) /\ c \in Ever(v)
        BY <3>1, <3>2 DEF Ever
      <3>4. a.version \in Nat /\ c.version \in Nat /\ a.version <= c.version
        BY <3>3 DEF RegistersGrow, IsRegister
      <3> QED
        BY <2>3, <3>1, <3>2, <3>4
    <2>5. v.n \in Nat /\ f.at \in 0..v.n
      <3>1. Gate \in Artefacts /\ Gate \in Roles
        BY RolesOf, RolesDiffer
      <3>2. V(Gate).at \in 0..v.n /\ V(Gate).at = f.at
        BY <3>1, PairIs DEF Sorted
      <3> QED
        BY <3>2, FieldsOf
    <2>6. ASSUME NEW role \in Inputs("review") PROVE U(role) = V(role) /\ ~Renewed(v, u, r, role)
      <3>1. role \in Roles \ {Gate} /\ U(role).at \in 0..u.n /\ u.n \in Nat
        BY <2>2, RolesOf, RolesDiffer, FieldsOf DEF Follows, Sorted
      <3>2. f.at >= U(role).at
        BY <2>1
      <3>3. ~(U(role).at > v.n)
        BY <2>5, <3>1, <3>2
      <3> QED
        BY <2>4, <3>1, <3>3 DEF Follows, Renewed
    <2>7. Refers(v, r)
      BY <2>1, <2>6 DEF Refers
    <2>8. Approved(v, r)
      BY <2>7 DEF GateIsTrue
    <2>9. /\ Acts(u, r, "resolve") = Acts(v, r, "resolve")
          /\ Acts(u, r, "finalise") = Acts(v, r, "finalise")
      BY <2>2, <2>6 DEF Follows
    <2>10. /\ Published(u, r, "resolve") = Published(v, r, "resolve")
           /\ Published(u, r, "finalise") = Published(v, r, "finalise")
      BY <2>8, <2>9, PublishedStays DEF Follows, Approved
    <2>11. Basis(u, r, "resolve") = Basis(v, r, "resolve")
      BY <2>2, <2>6, RolesOf DEF Basis
    <2>12. \A role \in Base : U(role) = V(role)
      BY <2>2, <2>6, RolesOf
    <2>13. U(Cases) = V(Cases) /\ U(Text) = V(Text) /\ u.sources[Registry].sha = v.sources[Registry].sha
      BY <2>2, <2>3, <2>6
    <2> QED
      BY <2>8, <2>9, <2>10, <2>11, <2>12, <2>13 DEF Approved
  <1> QED
    BY <1>1, <1>2 DEF GateIsTrue

LEMMA RegistersStay ==
    ASSUME NEW v, NEW u, RegistersGrow(v), u.sources[Registry].sha = v.sources[Registry].sha,
           u.initial \in {NoRegister, Empty}, Afters(u) \subseteq Ever(v),
           v.sources[Registry].sha = NoRegister => Afters(u) = {}
    PROVE  RegistersGrow(u)
  <1>1. Ever(u) \subseteq Ever(v)
    BY DEF Ever
  <1> QED
    BY <1>1 DEF RegistersGrow

-----------------------------------------------------------------------------
(* Sorted, part by part.                                                   *)
OwnPlaced(own) == DOMAIN own = Records /\ \A r \in Records : DOMAIN own[r] = {Text, Resolution}

FactsPlaced(facts) ==
    /\ DOMAIN facts = Records
    /\ \A r \in Records : DOMAIN facts[r] = Artefacts
    /\ \A r \in Records, a \in Artefacts : DOMAIN facts[r][a] = DOMAIN NoFacts

CheckpointsPlaced(checkpoint) ==
    /\ DOMAIN checkpoint = Records
    /\ \A r \in Records : DOMAIN checkpoint[r] = P4b
    /\ \A r \in Records, phase \in P4b : checkpoint[r][phase].revision \in Nat

PlansPlaced(plans, done, aborted) ==
    plans \in Seq({plans[i] : i \in DOMAIN plans}) /\ done \cup aborted \subseteq DOMAIN plans

Dated(v) == \A r \in Records, role \in Roles : Pair(v, r, role).at \in 0..v.n

LEMMA SortedIs ==
    ASSUME NEW v
    PROVE  Sorted(v) <=> /\ DOMAIN v = Fields /\ v.n \in Nat /\ DOMAIN v.sources = {Policy, Registry}
                         /\ OwnPlaced(v.own) /\ FactsPlaced(v.facts) /\ CheckpointsPlaced(v.checkpoint)
                         /\ PlansPlaced(v.plans, v.done, v.aborted) /\ Dated(v)
  <1>1. DOMAIN NoView({}) = Fields
    BY DEF NoView, Fields
  <1> QED
    BY <1>1, Zenon DEF Sorted, OwnPlaced, FactsPlaced, CheckpointsPlaced, PlansPlaced, Dated

-----------------------------------------------------------------------------
(* Events that complete no act and leave the register alone.               *)
Quiet(v, u) ==
    /\ Sorted(u) /\ u.n = v.n + 1
    /\ u.plans = v.plans /\ u.done = v.done /\ u.findings = v.findings
    /\ u.initial \in {NoRegister, Empty} /\ u.sources[Registry] = v.sources[Registry]
    /\ \A r \in Records : \A role \in Roles \ {Registry, Gate} :
         Pair(u, r, role) = Pair(v, r, role) \/ Renewed(v, u, r, role)
    /\ \A r \in Records :
         \/ u.facts[r][Gate] = v.facts[r][Gate]
         \/ /\ u.facts[r][Gate].sha = v.facts[r][Gate].sha /\ u.facts[r][Gate].refs = v.facts[r][Gate].refs
            /\ u.facts[r][Gate].verdict # "ACCEPT"

LEMMA QuietIsSound ==
    ASSUME NEW v, NEW u, Sound(v), Quiet(v, u)
    PROVE  Sound(u)
  <1>1. Sorted(v) /\ v.findings = {} /\ RegistersGrow(v)
    BY DEF Sound
  <1>2. Afters(u) = Afters(v)
    BY DEF Afters, Quiet
  <1>3. RegistersGrow(u)
    <2>1. Afters(u) \subseteq Ever(v) /\ (v.sources[Registry].sha = NoRegister => Afters(u) = {})
      BY <1>1, <1>2 DEF Ever, RegistersGrow
    <2> QED
      BY <1>1, <2>1, RegistersStay DEF Quiet
  <1>4. Follows(v, u)
    BY DEF Follows, Quiet, Acts
  <1>5. \A i \in DOMAIN u.plans : WellMade(u, i)
    BY <1>1, <1>4, OldPlans DEF Sound, Quiet
  <1>6. ASSUME NEW r \in Records PROVE GateIsTrue(u, r)
    <2>1. GateIsTrue(v, r)
      BY DEF Sound
    <2>2. CASE u.facts[r][Gate] = v.facts[r][Gate]
      BY <1>1, <1>2, <1>4, <2>1, <2>2, OldGates DEF Quiet
    <2>3. CASE /\ u.facts[r][Gate].sha = v.facts[r][Gate].sha
               /\ u.facts[r][Gate].refs = v.facts[r][Gate].refs
               /\ u.facts[r][Gate].verdict # "ACCEPT"
      BY <1>2, <2>1, <2>3 DEF GateIsTrue, Refers
    <2> QED
      BY <2>2, <2>3 DEF Quiet
  <1> QED
    BY <1>1, <1>3, <1>5, <1>6 DEF Sound, Quiet

LEMMA PolicySeenSound ==
    ASSUME NEW v, Sound(v), NEW sha
    PROVE  Sound(PolicySeen(v, sha))
  <1> DEFINE u == PolicySeen(v, sha)
  <1>1. Sorted(v) /\ v.n \in Nat /\ v.initial \in {NoRegister, Empty}
    BY FieldsOf DEF Sound, RegistersGrow
  <1>2. /\ Keeps(v, u, {"n", "sources"}) /\ u.n = v.n + 1
        /\ DOMAIN u.sources = {Policy, Registry}
        /\ u.sources[Policy] = [sha |-> sha, at |-> v.n + 1]
        /\ u.sources[Registry] = v.sources[Registry]
    BY <1>1, PolicySeenIs
  <1> HIDE DEF u
  <1>3. /\ u.own = v.own /\ u.facts = v.facts /\ u.checkpoint = v.checkpoint /\ u.plans = v.plans
        /\ u.done = v.done /\ u.aborted = v.aborted /\ u.initial = v.initial /\ u.findings = v.findings
    BY <1>2 DEF Keeps, Fields
  <1>4. ASSUME NEW r \in Records, NEW role \in Roles
        PROVE  Pair(u, r, role) = Pair(v, r, role) \/ (role = Policy /\ Pair(u, r, role).at = v.n + 1)
    <2>1. role = Policy \/ Pair(u, r, role) = Pair(v, r, role)
      BY <1>2, <1>3, RolesOf, RolesDiffer DEF Pair
    <2> QED
      BY <1>2, <2>1, PairIs
  <1>5. Sorted(u)
    <2>1. Dated(u)
      BY <1>1, <1>2, <1>4, SortedIs DEF Dated
    <2> QED
      BY <1>1, <1>2, <1>3, <2>1, SortedIs DEF Keeps
  <1>6. Quiet(v, u)
    BY <1>1, <1>2, <1>3, <1>4, <1>5 DEF Quiet, Renewed
  <1> QED
    BY <1>6, QuietIsSound DEF u

LEMMA TextConfirmedSound ==
    ASSUME NEW v, Sound(v), NEW s \in Records, NEW sha
    PROVE  Sound(TextConfirmed(v, s, sha))
  <1> DEFINE u == TextConfirmed(v, s, sha)
  <1>1. Sorted(v) /\ v.n \in Nat /\ v.initial \in {NoRegister, Empty}
    BY FieldsOf DEF Sound, RegistersGrow
  <1>2. /\ Keeps(v, u, {"n", "own"}) /\ u.n = v.n + 1
        /\ DOMAIN u.own = Records /\ DOMAIN u.own[s] = {Text, Resolution}
        /\ u.own[s][Text] = [sha |-> sha, at |-> v.n + 1]
        /\ u.own[s][Resolution] = v.own[s][Resolution]
        /\ \A r \in Records \ {s} : u.own[r] = v.own[r]
    BY <1>1, TextConfirmedIs
  <1> HIDE DEF u
  <1>3. /\ u.sources = v.sources /\ u.facts = v.facts /\ u.checkpoint = v.checkpoint /\ u.plans = v.plans
        /\ u.done = v.done /\ u.aborted = v.aborted /\ u.initial = v.initial /\ u.findings = v.findings
    BY <1>2 DEF Keeps, Fields
  <1>4. ASSUME NEW r \in Records, NEW role \in Roles
        PROVE  Pair(u, r, role) = Pair(v, r, role) \/ (role = Text /\ Pair(u, r, role).at = v.n + 1)
    <2>1. (role = Text /\ r = s) \/ Pair(u, r, role) = Pair(v, r, role)
      BY <1>2, <1>3, RolesOf, RolesDiffer DEF Pair
    <2> QED
      BY <1>2, <2>1, PairIs
  <1>5. Sorted(u)
    <2>1. Dated(u)
      BY <1>1, <1>2, <1>4, SortedIs DEF Dated
    <2>2. OwnPlaced(u.own)
      BY <1>1, <1>2, SortedIs DEF OwnPlaced
    <2> QED
      BY <1>1, <1>2, <1>3, <2>1, <2>2, SortedIs DEF Keeps
  <1>6. Quiet(v, u)
    BY <1>1, <1>2, <1>3, <1>4, <1>5, RolesDiffer DEF Quiet, Renewed
  <1> QED
    BY <1>6, QuietIsSound DEF u

LEMMA SideEventSound ==
    ASSUME NEW v, NEW u, Sound(v), u.n = v.n + 1, Keeps(v, u, {"n", "active", "aborted", "initial"}),
           u.aborted \subseteq DOMAIN v.plans, u.initial \in {NoRegister, Empty}
    PROVE  Sound(u)
  <1>1. Sorted(v) /\ v.n \in Nat
    BY FieldsOf DEF Sound
  <1>3. /\ u.sources = v.sources /\ u.facts = v.facts /\ u.checkpoint = v.checkpoint /\ u.plans = v.plans
        /\ u.done = v.done /\ u.own = v.own /\ u.findings = v.findings
    BY DEF Keeps, Fields
  <1>4. \A r \in Records, role \in Roles : Pair(u, r, role) = Pair(v, r, role)
    BY <1>3 DEF Pair
  <1>5. Sorted(u)
    <2>1. Dated(u)
      BY <1>1, <1>4, SortedIs DEF Dated
    <2>2. PlansPlaced(u.plans, u.done, u.aborted)
      BY <1>1, <1>3, SortedIs DEF PlansPlaced
    <2> QED
      BY <1>1, <1>3, <2>1, <2>2, SortedIs DEF Keeps
  <1>6. Quiet(v, u)
    BY <1>1, <1>3, <1>4, <1>5 DEF Quiet
  <1> QED
    BY <1>6, QuietIsSound

LEMMA RetiredSound ==
    ASSUME NEW v, Sound(v), NEW h
    PROVE  Sound(Retired(v, h))
  <1>1. Sorted(v) /\ v.initial \in {NoRegister, Empty}
    BY DEF Sound, RegistersGrow
  <1> DEFINE u == Retired(v, h)
  <1>2. Keeps(v, u, {"n", "active"}) /\ u.n = v.n + 1
    BY <1>1, RetiredIs
  <1> HIDE DEF u
  <1>3. u.aborted = v.aborted /\ u.initial = v.initial /\ Keeps(v, u, {"n", "active", "aborted", "initial"})
    BY <1>2 DEF Keeps, Fields
  <1>4. u.aborted \subseteq DOMAIN v.plans
    BY <1>1, <1>3, PlansOf
  <1> QED
    BY <1>1, <1>2, <1>3, <1>4, SideEventSound DEF u

LEMMA AbortedSound ==
    ASSUME NEW v, Sound(v), NEW i \in DOMAIN v.plans
    PROVE  Sound(Aborted(v, i))
  <1>1. Sorted(v) /\ v.initial \in {NoRegister, Empty}
    BY DEF Sound, RegistersGrow
  <1> DEFINE u == Aborted(v, i)
  <1>2. Keeps(v, u, {"n", "aborted"}) /\ u.n = v.n + 1 /\ u.aborted = v.aborted \cup {i}
    BY <1>1, AbortedIs
  <1> HIDE DEF u
  <1>3. u.initial = v.initial /\ Keeps(v, u, {"n", "active", "aborted", "initial"})
    BY <1>2 DEF Keeps, Fields
  <1>4. u.aborted \subseteq DOMAIN v.plans
    BY <1>1, <1>2, PlansOf
  <1> QED
    BY <1>1, <1>2, <1>3, <1>4, SideEventSound DEF u

LEMMA InitPreparedSound ==
    ASSUME NEW v, Sound(v), v.initial = NoRegister
    PROVE  Sound(InitPrepared(v, Empty))
  <1>1. Sorted(v)
    BY DEF Sound
  <1> DEFINE u == InitPrepared(v, Empty)
  <1>2. Keeps(v, u, {"n", "initial"}) /\ u.n = v.n + 1 /\ u.initial = Empty
    BY <1>1, InitPreparedIs
  <1> HIDE DEF u
  <1>3. u.aborted = v.aborted /\ Keeps(v, u, {"n", "active", "aborted", "initial"})
    BY <1>2 DEF Keeps, Fields
  <1>4. u.aborted \subseteq DOMAIN v.plans
    BY <1>1, <1>3, PlansOf
  <1> QED
    BY <1>1, <1>2, <1>3, <1>4, SideEventSound DEF u

LEMMA DecidedSound ==
    ASSUME NEW v, Sound(v), NEW s \in Records, NEW a \in Artefacts, NEW verdict, verdict # "ACCEPT"
    PROVE  Sound(Decided(v, s, a, verdict))
  <1> DEFINE u == Decided(v, s, a, verdict)
  <1>1. Sorted(v) /\ v.n \in Nat /\ v.initial \in {NoRegister, Empty}
    BY FieldsOf DEF Sound, RegistersGrow
  <1>2. /\ Keeps(v, u, {"n", "facts"}) /\ u.n = v.n + 1
        /\ DOMAIN u.facts = Records
        /\ \A r \in Records \ {s} : u.facts[r] = v.facts[r]
        /\ DOMAIN u.facts[s] = Artefacts
        /\ \A b \in Artefacts \ {a} : u.facts[s][b] = v.facts[s][b]
        /\ DOMAIN u.facts[s][a] = DOMAIN NoFacts
        /\ u.facts[s][a].sha = v.facts[s][a].sha /\ u.facts[s][a].refs = v.facts[s][a].refs
        /\ u.facts[s][a].at = v.n + 1 /\ u.facts[s][a].verdict = verdict
    BY <1>1, DecidedIs
  <1> HIDE DEF u
  <1>3. /\ u.sources = v.sources /\ u.own = v.own /\ u.checkpoint = v.checkpoint /\ u.plans = v.plans
        /\ u.done = v.done /\ u.aborted = v.aborted /\ u.initial = v.initial /\ u.findings = v.findings
    BY <1>2 DEF Keeps, Fields
  <1>4. ASSUME NEW r \in Records, NEW role \in Roles
        PROVE  Pair(u, r, role) = Pair(v, r, role) \/ Pair(u, r, role).at = v.n + 1
    <2>1. CASE role = a /\ r = s
      BY <1>2, <2>1, PairIs
    <2>2. CASE role \in Artefacts /\ ~(role = a /\ r = s)
      <3>1. u.facts[r][role] = v.facts[r][role]
        BY <1>2, <2>2
      <3> QED
        BY <2>2, <3>1, PairIs
    <2>3. CASE role \notin Artefacts
      BY <1>3, <2>3 DEF Pair
    <2> QED
      BY <2>1, <2>2, <2>3
  <1>5. Sorted(u)
    <2>1. Dated(u)
      BY <1>1, <1>2, <1>4, SortedIs DEF Dated
    <2>2. FactsPlaced(u.facts)
      BY <1>1, <1>2, SortedIs, SMTT(30) DEF FactsPlaced
    <2> QED
      BY <1>1, <1>2, <1>3, <2>1, <2>2, SortedIs DEF Keeps
  <1>6. \A r \in Records :
         \/ u.facts[r][Gate] = v.facts[r][Gate]
         \/ /\ u.facts[r][Gate].sha = v.facts[r][Gate].sha /\ u.facts[r][Gate].refs = v.facts[r][Gate].refs
            /\ u.facts[r][Gate].verdict # "ACCEPT"
    BY <1>2, RolesDiffer
  <1>7. Quiet(v, u)
    BY <1>1, <1>2, <1>3, <1>4, <1>5, <1>6 DEF Quiet, Renewed
  <1> QED
    BY <1>7, QuietIsSound DEF u

LEMMA CheckpointedSound ==
    ASSUME NEW v, Sound(v), NEW s \in Records, NEW phase \in P4b, NEW c, c.revision \in Nat,
           LET prior == v.checkpoint[s][phase]
           IN  IF prior # Unsaved /\ prior.session = c.session
               THEN c.previous = prior.revision /\ c.revision = prior.revision + 1 /\ c.actor = prior.actor
               ELSE c.previous = 0 /\ c.revision = 1
    PROVE  Sound(Checkpointed(v, s, phase, c))
  <1> DEFINE u == Checkpointed(v, s, phase, c)
  <1>1. Sorted(v) /\ v.n \in Nat /\ v.initial \in {NoRegister, Empty}
    BY FieldsOf DEF Sound, RegistersGrow
  <1>2. /\ Keeps(v, u, {"n", "checkpoint"}) /\ u.n = v.n + 1
        /\ DOMAIN u.checkpoint = Records
        /\ \A r \in Records \ {s} : u.checkpoint[r] = v.checkpoint[r]
        /\ DOMAIN u.checkpoint[s] = P4b
        /\ \A x \in P4b \ {phase} : u.checkpoint[s][x] = v.checkpoint[s][x]
        /\ u.checkpoint[s][phase] = c
    BY <1>1, CheckpointedIs
  <1> HIDE DEF u
  <1>3. /\ u.sources = v.sources /\ u.own = v.own /\ u.facts = v.facts /\ u.plans = v.plans
        /\ u.done = v.done /\ u.aborted = v.aborted /\ u.initial = v.initial /\ u.findings = v.findings
    BY <1>2 DEF Keeps, Fields
  <1>4. \A r \in Records, role \in Roles : Pair(u, r, role) = Pair(v, r, role)
    BY <1>3 DEF Pair
  <1>5. Sorted(u)
    <2>1. Dated(u)
      BY <1>1, <1>2, <1>4, SortedIs DEF Dated
    <2>2. CheckpointsPlaced(u.checkpoint)
      <3>1. /\ \A r \in Records : DOMAIN v.checkpoint[r] = P4b
            /\ \A r \in Records, x \in P4b : v.checkpoint[r][x].revision \in Nat
        BY <1>1, SortedIs DEF CheckpointsPlaced
      <3>2. ASSUME NEW r \in Records
            PROVE  DOMAIN u.checkpoint[r] = P4b /\ \A x \in P4b : u.checkpoint[r][x].revision \in Nat
        <4>1. CASE r = s
          <5>1. DOMAIN u.checkpoint[r] = P4b
            BY <1>2, <4>1
          <5>2. ASSUME NEW x \in P4b PROVE u.checkpoint[r][x].revision \in Nat
            <6>1. CASE x = phase
              BY <1>2, <4>1, <6>1
            <6>2. CASE x # phase
              BY <1>2, <3>1, <4>1, <6>2
            <6> QED
              BY <6>1, <6>2
          <5> QED
            BY <5>1, <5>2
        <4>2. CASE r # s
          BY <1>2, <3>1, <4>2
        <4> QED
          BY <4>1, <4>2
      <3> QED
        BY <1>2, <3>2 DEF CheckpointsPlaced
    <2> QED
      BY <1>1, <1>2, <1>3, <2>1, <2>2, SortedIs DEF Keeps
  <1>6. Quiet(v, u)
    BY <1>1, <1>2, <1>3, <1>4, <1>5 DEF Quiet
  <1> QED
    BY <1>6, QuietIsSound DEF u

-----------------------------------------------------------------------------
(* An act is prepared.                                                     *)
PlanFields == {"rec", "phase", "basis", "actor", "checkpoint", "before", "after", "made", "at"}

LEMMA ActsStay ==
    ASSUME NEW v, NEW u, Sorted(v), u.done = v.done, \A i \in DOMAIN v.plans : u.plans[i] = v.plans[i]
    PROVE  (\A r, phase : Acts(u, r, phase) = Acts(v, r, phase)) /\ Afters(u) = Afters(v)
  <1>1. \A i \in v.done : u.plans[i] = v.plans[i]
    BY PlansOf
  <1> QED
    BY <1>1 DEF Acts, Afters

LEMMA ActsGrow ==
    ASSUME NEW v, NEW u, NEW i, u.plans = v.plans, u.done = v.done \cup {i}
    PROVE  /\ \A r, phase : Acts(u, r, phase) = Acts(v, r, phase) \/ (v.plans[i].rec = r /\ v.plans[i].phase = phase)
           /\ v.plans[i].phase \in P4c => Afters(u) = Afters(v) \cup {v.plans[i].after}
           /\ v.plans[i].phase \notin P4c => Afters(u) = Afters(v)
  BY DEF Acts, Afters

LEMMA ApprovedStays ==
    ASSUME NEW v, NEW u, NEW r, Sorted(v), Approved(v, r), u.sources[Registry] = v.sources[Registry],
           \A i \in DOMAIN v.plans : u.plans[i] = v.plans[i],
           Acts(u, r, "resolve") = Acts(v, r, "resolve"), Acts(u, r, "finalise") = Acts(v, r, "finalise"),
           \A role \in Base : Pair(u, r, role) = Pair(v, r, role)
    PROVE  Approved(u, r)
  <1>1. /\ Published(u, r, "resolve") = Published(v, r, "resolve")
        /\ Published(u, r, "finalise") = Published(v, r, "finalise")
    BY PublishedStays DEF Approved
  <1>2. Basis(u, r, "resolve") = Basis(v, r, "resolve")
    BY RolesOf DEF Basis
  <1>3. Pair(u, r, Cases) = Pair(v, r, Cases) /\ Pair(u, r, Text) = Pair(v, r, Text)
    BY RolesOf
  <1> QED
    BY <1>1, <1>2, <1>3 DEF Approved

LEMMA PreparedSound ==
    ASSUME NEW v, Sound(v), NEW p, DOMAIN p = PlanFields,
           p.rec \in Records, p.phase \in P4b \cup P4c, DOMAIN p.basis = Inputs(p.phase),
           p.phase \in P4c =>
             v.sources[Registry].sha = p.before /\ p.before # NoRegister /\ ~p.basis[Cases].sha.open,
           p.phase \in {"resolve", "review"} => p.after = p.before,
           p.phase = "finalise" =>
             /\ p.after = Allocate(p.before, p.rec, p.after.res[p.rec], Len(v.plans) + 1)
             /\ p.basis[Resolution] = Pair(v, p.rec, Resolution)
             /\ Acts(v, p.rec, "resolve") # {}
             /\ p.after.res[p.rec] = Published(v, p.rec, "resolve").made
    PROVE  Sound(Prepared(v, p)) /\ \A r \in Records : Approved(v, r) => Approved(Prepared(v, p), r)
  <1> DEFINE u == Prepared(v, p)
             i == Len(v.plans) + 1
             new == [p EXCEPT !.at = v.n + 1]
  <1>1. Sorted(v) /\ v.n \in Nat /\ v.findings = {} /\ RegistersGrow(v)
    BY FieldsOf DEF Sound
  <1>2. /\ Keeps(v, u, {"n", "plans"}) /\ u.n = v.n + 1
        /\ u.plans \in Seq({u.plans[j] : j \in DOMAIN u.plans})
        /\ DOMAIN u.plans = 1..i
        /\ \A j \in DOMAIN v.plans : u.plans[j] = v.plans[j]
        /\ u.plans[i] = new
    <2>1. Sorted(v) /\ (p.phase \in P4c => v.sources[Registry].sha = p.before)
      BY <1>1
    <2>2. /\ Keeps(v, Prepared(v, p), {"n", "plans"}) /\ Prepared(v, p).n = v.n + 1
          /\ Prepared(v, p).plans \in Seq({Prepared(v, p).plans[j] : j \in DOMAIN Prepared(v, p).plans})
          /\ Len(Prepared(v, p).plans) = Len(v.plans) + 1 /\ DOMAIN Prepared(v, p).plans = 1..(Len(v.plans) + 1)
          /\ \A j \in DOMAIN v.plans : Prepared(v, p).plans[j] = v.plans[j]
          /\ Prepared(v, p).plans[Len(v.plans) + 1] = [p EXCEPT !.at = v.n + 1]
      BY <2>1, PreparedIs, Zenon
    <2> QED
      BY <2>2
  <1>3. /\ new.rec = p.rec /\ new.phase = p.phase /\ new.basis = p.basis /\ new.before = p.before
        /\ new.after = p.after /\ new.at = v.n + 1
    BY DEF PlanFields
  <1> HIDE DEF u, new
  <1>4. /\ u.sources = v.sources /\ u.own = v.own /\ u.facts = v.facts /\ u.checkpoint = v.checkpoint
        /\ u.done = v.done /\ u.aborted = v.aborted /\ u.initial = v.initial /\ u.findings = v.findings
    BY <1>2 DEF Keeps, Fields
  <1>5. \A r, role : Pair(u, r, role) = Pair(v, r, role)
    BY <1>4 DEF Pair
  <1>6. Len(v.plans) \in Nat /\ DOMAIN v.plans = 1..Len(v.plans) /\ v.done \cup v.aborted \subseteq 1..Len(v.plans)
    BY <1>1, PlansOf
  <1>7. Sorted(u)
    <2>1. Dated(u)
      BY <1>1, <1>2, <1>5, SortedIs DEF Dated
    <2>2. PlansPlaced(u.plans, u.done, u.aborted)
      BY <1>2, <1>4, <1>6 DEF PlansPlaced
    <2> QED
      BY <1>1, <1>2, <1>4, <2>1, <2>2, SortedIs, SMTT(30) DEF Keeps
  <1>8. (\A r, phase : Acts(u, r, phase) = Acts(v, r, phase)) /\ Afters(u) = Afters(v)
    BY <1>1, <1>2, <1>4, ActsStay
  <1>9. Follows(v, u)
    BY <1>2, <1>4, <1>5, <1>6, <1>7, <1>8 DEF Follows
  <1>10. RegistersGrow(u)
    <2>1. Afters(u) \subseteq Ever(v) /\ (v.sources[Registry].sha = NoRegister => Afters(u) = {})
      BY <1>1, <1>8 DEF Ever, RegistersGrow
    <2>2. u.initial \in {NoRegister, Empty}
      BY <1>1, <1>4 DEF RegistersGrow
    <2> QED
      BY <1>1, <1>4, <2>1, <2>2, RegistersStay
  <1>11. WellMade(u, i)
    <2>1. i \in Nat /\ v.n + 1 \in 1..u.n
      BY <1>1, <1>2, <1>6
    <2>2. ASSUME p.phase = "finalise"
          PROVE  /\ p.basis[Resolution].at \in 0..u.n
                 /\ Acts(u, p.rec, "resolve") # {}
                 /\ p.after.res[p.rec] = Published(u, p.rec, "resolve").made
      <3>1. Pair(v, p.rec, Resolution).at \in 0..v.n
        BY <1>1, RolesOf DEF Sorted
      <3>2. p.basis[Resolution].at \in 0..u.n
        BY <1>1, <1>2, <2>2, <3>1
      <3>3. Published(u, p.rec, "resolve") = Published(v, p.rec, "resolve")
        BY <1>1, <1>2, <1>8, <2>2, PublishedStays
      <3> QED
        BY <1>8, <2>2, <3>2, <3>3
    <2> QED
      BY <1>2, <1>3, <2>1, <2>2 DEF WellMade
  <1>12. \A j \in DOMAIN u.plans : WellMade(u, j)
    <2>1. \A j \in DOMAIN v.plans : WellMade(u, j)
      BY <1>1, <1>9, OldPlans DEF Sound
    <2> QED
      BY <1>2, <1>6, <1>11, <2>1
  <1>13. \A r \in Records : GateIsTrue(u, r)
    BY <1>1, <1>4, <1>8, <1>9, OldGates DEF Sound
  <1>14. \A r \in Records : Approved(v, r) => Approved(u, r)
    BY <1>1, <1>2, <1>4, <1>5, <1>8, ApprovedStays
  <1> QED
    BY <1>1, <1>4, <1>7, <1>10, <1>12, <1>13, <1>14 DEF Sound, u

LEMMA InitialisedSound ==
    ASSUME NEW v, Sound(v), v.sources[Registry].sha = NoRegister, v.initial # NoRegister
    PROVE  Sound(Initialised(v))
  <1> DEFINE u == Initialised(v)
  <1>1. Sorted(v) /\ v.n \in Nat /\ v.findings = {} /\ RegistersGrow(v)
    BY FieldsOf DEF Sound
  <1>2. /\ Keeps(v, u, {"n", "sources"}) /\ u.n = v.n + 1
        /\ DOMAIN u.sources = {Policy, Registry} /\ u.sources[Policy] = v.sources[Policy]
        /\ u.sources[Registry] = [sha |-> v.initial, at |-> v.n + 1]
    BY <1>1, InitialisedIs
  <1> HIDE DEF u
  <1>3. /\ u.own = v.own /\ u.facts = v.facts /\ u.checkpoint = v.checkpoint /\ u.plans = v.plans
        /\ u.done = v.done /\ u.aborted = v.aborted /\ u.initial = v.initial /\ u.findings = v.findings
    BY <1>2 DEF Keeps, Fields
  <1>4. ASSUME NEW r \in Records, NEW role \in Roles
        PROVE  Pair(u, r, role) = Pair(v, r, role) \/ (role = Registry /\ Pair(u, r, role).at = v.n + 1)
    <2>1. role = Registry \/ Pair(u, r, role) = Pair(v, r, role)
      BY <1>2, <1>3, RolesOf, RolesDiffer DEF Pair
    <2> QED
      BY <1>2, <2>1, PairIs
  <1>5. Sorted(u)
    <2>1. Dated(u)
      BY <1>1, <1>2, <1>4, SortedIs DEF Dated
    <2> QED
      BY <1>1, <1>2, <1>3, <2>1, SortedIs DEF Keeps
  <1>6. (\A r, phase : Acts(u, r, phase) = Acts(v, r, phase)) /\ Afters(u) = {}
    BY <1>1, <1>3, ActsStay DEF RegistersGrow
  <1>7. Follows(v, u)
    BY <1>2, <1>3, <1>4, <1>5, <1>6 DEF Follows
  <1>8. RegistersGrow(u)
    <2>1. v.initial = Empty /\ u.sources[Registry].sha = Empty
      BY <1>1, <1>2 DEF RegistersGrow
    <2>2. Ever(u) = {Empty}
      BY <1>6, <2>1, EmptyIs DEF Ever
    <2>3. Empty.version \in Nat
      BY EmptyIs DEF IsRegister
    <2> QED
      BY <1>3, <2>1, <2>2, <2>3, EmptyIs DEF RegistersGrow
  <1>9. \A i \in DOMAIN u.plans : WellMade(u, i)
    BY <1>1, <1>3, <1>7, OldPlans DEF Sound
  <1>10. \A r \in Records : GateIsTrue(u, r)
    <2>1. Afters(v) \subseteq Afters(u)
      BY <1>1 DEF RegistersGrow
    <2> QED
      BY <1>1, <1>3, <1>7, <2>1, OldGates DEF Sound
  <1> QED
    BY <1>1, <1>3, <1>5, <1>8, <1>9, <1>10 DEF Sound, u

-----------------------------------------------------------------------------
(* An act is completed.                                                    *)

(* A resolution or an approval leaves the register as it is.               *)
LEMMA SameRegister ==
    ASSUME NEW v, NEW u, NEW i \in DOMAIN v.plans, RegistersGrow(v), u.plans = v.plans,
           u.done = v.done \cup {i}, u.initial = v.initial, u.sources[Registry].sha = v.sources[Registry].sha,
           v.plans[i].phase \in P4c =>
             v.plans[i].after = v.sources[Registry].sha /\ v.plans[i].after # NoRegister
    PROVE  RegistersGrow(u) /\ Afters(v) \subseteq Afters(u)
  <1>1. Afters(u) = Afters(v) \cup {v.plans[i].after} \/ Afters(u) = Afters(v)
    BY ActsGrow
  <1>2. v.plans[i].phase \notin P4c => Afters(u) = Afters(v)
    BY ActsGrow
  <1>3. Afters(u) \subseteq Ever(v)
    BY <1>1, <1>2 DEF Ever
  <1>4. v.sources[Registry].sha = NoRegister => Afters(u) = {}
    BY <1>2 DEF RegistersGrow
  <1> QED
    BY <1>1, <1>3, <1>4, RegistersStay DEF RegistersGrow

(* A finalisation makes the next register.                                 *)
LEMMA NextRegister ==
    ASSUME NEW v, NEW u, NEW i \in DOMAIN v.plans, RegistersGrow(v), u.plans = v.plans,
           u.done = v.done \cup {i}, u.initial = v.initial, v.plans[i].phase = "finalise",
           v.plans[i].rec \in Records, v.sources[Registry].sha # NoRegister,
           v.plans[i].after =
             Allocate(v.sources[Registry].sha, v.plans[i].rec, v.plans[i].after.res[v.plans[i].rec], i),
           u.sources[Registry].sha = v.plans[i].after
    PROVE  /\ RegistersGrow(u) /\ Afters(v) \subseteq Afters(u)
           /\ \/ u.sources[Registry].sha = v.sources[Registry].sha
              \/ u.sources[Registry].sha.version = v.sources[Registry].sha.version + 1
  <1> DEFINE reg == v.sources[Registry].sha
             new == v.plans[i].after
  <1>1. reg \in Ever(v) /\ IsRegister(reg)
    BY DEF Ever, RegistersGrow
  <1>2. /\ IsRegister(new)
        /\ new = reg \/ new.version = reg.version + 1
        /\ DOMAIN reg.names \subseteq DOMAIN new.names
        /\ \A e \in DOMAIN reg.names : new.names[e] = reg.names[e]
    BY <1>1, AllocatedIs
  <1>3. Afters(u) = Afters(v) \cup {new}
    BY ActsGrow DEF P4c
  <1>4. new # NoRegister /\ Ever(u) \subseteq Ever(v) \cup {new}
    BY <1>2, <1>3, RegisterIsThere DEF Ever
  <1>5. /\ v.initial \in {NoRegister, Empty}
        /\ \A a \in Ever(v) :
             /\ IsRegister(a) /\ a.version <= reg.version
             /\ DOMAIN a.names \subseteq DOMAIN reg.names
             /\ \A e \in DOMAIN a.names : a.names[e] = reg.names[e]
        /\ \A a, b \in Ever(v) :
             /\ a.version <= b.version => DOMAIN a.names \subseteq DOMAIN b.names
             /\ a.version = b.version => a = b
    BY DEF RegistersGrow
  <1> HIDE DEF reg, new
  <1>6. \A a \in Ever(u) : a.version \in Nat
    BY <1>2, <1>4, <1>5 DEF IsRegister
  <1>7. reg.version \in Nat /\ new.version \in Nat
    BY <1>1, <1>2 DEF IsRegister
  <1>8. ASSUME NEW a \in Ever(u)
        PROVE  /\ IsRegister(a) /\ a.version <= new.version
               /\ DOMAIN a.names \subseteq DOMAIN new.names
               /\ \A e \in DOMAIN a.names : a.names[e] = new.names[e]
    <2>1. CASE a = new
      BY <1>2, <1>7, <2>1
    <2>2. CASE a \in Ever(v)
      <3>1. /\ IsRegister(a) /\ a.version <= reg.version
            /\ DOMAIN a.names \subseteq DOMAIN reg.names
            /\ \A e \in DOMAIN a.names : a.names[e] = reg.names[e]
        BY <1>5, <2>2
      <3>2. a.version <= new.version
        BY <1>2, <1>6, <1>7, <3>1
      <3>3. \A e \in DOMAIN a.names : a.names[e] = new.names[e]
        BY <1>2, <3>1
      <3> QED
        BY <1>2, <3>1, <3>2, <3>3
    <2> QED
      BY <1>4, <2>1, <2>2
  <1>9. ASSUME NEW a \in Ever(u), NEW b \in Ever(u)
        PROVE  /\ a.version <= b.version => DOMAIN a.names \subseteq DOMAIN b.names
               /\ a.version = b.version => a = b
    <2>1. CASE new = reg
      <3>1. a \in Ever(v) /\ b \in Ever(v)
        BY <1>1, <1>4, <2>1
      <3> QED
        BY <1>5, <3>1
    <2>2. CASE new.version = reg.version + 1
      <3>1. \A c \in Ever(v) : c.version <= reg.version /\ c.version \in Nat
        BY <1>5 DEF IsRegister
      <3>2. CASE a \in Ever(v) /\ b \in Ever(v)
        BY <1>5, <3>2
      <3>3. CASE b = new
        <4>1. DOMAIN a.names \subseteq DOMAIN b.names
          BY <1>8, <3>3
        <4>2. a \in Ever(v) => a.version # b.version
          BY <1>7, <2>2, <3>1, <3>3
        <4> QED
          BY <1>4, <3>3, <4>1, <4>2
      <3>4. CASE a = new /\ b \in Ever(v)
        <4>1. ~(a.version <= b.version)
          BY <1>7, <2>2, <3>1, <3>4
        <4>2. a.version # b.version
          BY <1>7, <2>2, <3>1, <3>4
        <4> QED
          BY <4>1, <4>2
      <3> QED
        BY <1>4, <3>2, <3>3, <3>4
    <2> QED
      BY <1>2, <2>1, <2>2
  <1>10. u.sources[Registry].sha = new
    BY DEF new
  <1>11. RegistersGrow(u)
    BY <1>4, <1>5, <1>8, <1>9, <1>10 DEF RegistersGrow
  <1> QED
    BY <1>2, <1>3, <1>10, <1>11 DEF reg

LEMMA StillPlaced ==
    ASSUME NEW plans, NEW done, NEW aborted, PlansPlaced(plans, done, aborted), NEW i \in DOMAIN plans
    PROVE  PlansPlaced(plans, done \cup {i}, aborted)
  BY DEF PlansPlaced

LEMMA ResolvedSound ==
    ASSUME NEW v, Sound(v), NEW i \in DOMAIN v.plans, Believed(v, i), v.plans[i].phase = "resolve"
    PROVE  Sound(Completed(v, i))
  <1> DEFINE u == Completed(v, i)
             p == v.plans[i]
             s == p.rec
  <1>1. Sorted(v) /\ v.n \in Nat /\ v.findings = {} /\ RegistersGrow(v) /\ WellMade(v, i)
    BY FieldsOf DEF Sound
  <1>2. /\ s \in Records /\ p.phase \in P4c /\ p.after = v.sources[Registry].sha
        /\ p.after # NoRegister
    BY <1>1 DEF WellMade, Believed, P4c
  <1>3. /\ Keeps(v, u, {"n", "done", "own", "sources"}) /\ u.n = v.n + 1 /\ u.done = v.done \cup {i}
        /\ DOMAIN u.sources = {Policy, Registry}
        /\ u.sources[Policy] = v.sources[Policy] /\ u.sources[Registry] = v.sources[Registry]
        /\ DOMAIN u.own = Records /\ DOMAIN u.own[s] = {Text, Resolution}
        /\ u.own[s][Text] = v.own[s][Text]
        /\ u.own[s][Resolution] = [sha |-> p.made, at |-> v.n + 1]
        /\ \A r \in Records \ {s} : u.own[r] = v.own[r]
    BY <1>1, <1>2, ResolvedIs
  <1> HIDE DEF u
  <1>4. /\ u.facts = v.facts /\ u.checkpoint = v.checkpoint /\ u.plans = v.plans
        /\ u.aborted = v.aborted /\ u.initial = v.initial /\ u.findings = v.findings
    BY <1>3 DEF Keeps, Fields
  <1>5. ASSUME NEW r \in Records, NEW role \in Roles
        PROVE  \/ Pair(u, r, role) = Pair(v, r, role)
               \/ role = Resolution /\ r = s /\ Pair(u, r, role).at = v.n + 1
    <2>1. (role = Resolution /\ r = s) \/ Pair(u, r, role) = Pair(v, r, role)
      BY <1>3, <1>4, RolesOf, RolesDiffer DEF Pair
    <2> QED
      BY <1>3, <2>1, PairIs
  <1>6. Sorted(u)
    <2>1. Dated(u)
      BY <1>1, <1>3, <1>5, SortedIs DEF Dated
    <2>2. OwnPlaced(u.own)
      BY <1>1, <1>3, SortedIs DEF OwnPlaced
    <2>3. /\ OwnPlaced(v.own) /\ FactsPlaced(v.facts) /\ CheckpointsPlaced(v.checkpoint)
          /\ PlansPlaced(v.plans, v.done, v.aborted)
      BY <1>1, SortedIs
    <2>4. PlansPlaced(u.plans, u.done, u.aborted)
      BY <1>3, <1>4, <2>3, StillPlaced
    <2>5. DOMAIN u = Fields /\ u.n \in Nat
      BY <1>1, <1>3 DEF Keeps
    <2>6. FactsPlaced(u.facts) /\ CheckpointsPlaced(u.checkpoint)
      BY <1>4, <2>3
    <2> QED
      BY <1>3, <2>1, <2>2, <2>4, <2>5, <2>6, SortedIs, Zenon
  <1>7. Follows(v, u)
    <2>1. \A r, phase : Acts(u, r, phase) = Acts(v, r, phase) \/ (s = r /\ phase = "resolve")
      BY <1>3, <1>4, ActsGrow
    <2>2. Renewed(v, u, s, Resolution)
      BY <1>1, <1>3, PairIs, SMTT(30) DEF Renewed
    <2>3. \A r \in Records : \A role \in Roles \ {Registry, Gate} :
             Pair(u, r, role) = Pair(v, r, role) \/ Renewed(v, u, r, role)
      BY <1>1, <1>5 DEF Renewed
    <2> QED
      BY <1>3, <1>4, <1>6, <2>1, <2>2, <2>3 DEF Follows
  <1>8. RegistersGrow(u) /\ Afters(v) \subseteq Afters(u)
    BY <1>1, <1>2, <1>3, <1>4, SameRegister
  <1>9. \A j \in DOMAIN u.plans : WellMade(u, j)
    BY <1>1, <1>4, <1>7, OldPlans DEF Sound
  <1>10. \A r \in Records : GateIsTrue(u, r)
    BY <1>1, <1>3, <1>4, <1>7, <1>8, OldGates DEF Sound
  <1> QED
    BY <1>1, <1>4, <1>6, <1>8, <1>9, <1>10 DEF Sound, u

(* What an act has made is dated, and of the rest nothing is changed.      *)
Leaves(v, u, i) ==
    LET p == v.plans[i]
        a == Made(p.phase)
    IN  /\ Sorted(u) /\ u.n = v.n + 1 /\ u.findings = {}
        /\ u.plans = v.plans /\ u.done = v.done \cup {i} /\ u.initial = v.initial
        /\ p.phase \in P4c => u.sources[Registry].sha = p.after
        /\ p.phase \notin P4c \/ p.after = p.before => u.sources[Registry] = v.sources[Registry]
        /\ \A r \in Records, b \in Artefacts : u.facts[r][b] = v.facts[r][b] \/ (r = p.rec /\ b = a)
        /\ \A r \in Records, role \in Roles \ {Registry} :
             \/ Pair(u, r, role) = Pair(v, r, role)
             \/ r = p.rec /\ role = a /\ Renewed(v, u, r, role)

LEMMA MadeIsSorted ==
    ASSUME NEW v, Sound(v), NEW i \in DOMAIN v.plans, Believed(v, i), v.plans[i].phase # "resolve"
    PROVE  Leaves(v, Completed(v, i), i)
  <1> DEFINE u == Completed(v, i)
             p == v.plans[i]
             s == p.rec
             kind == Made(p.phase)
             reg == v.sources[Registry].sha
  <1>1. Sorted(v) /\ v.n \in Nat /\ v.findings = {} /\ WellMade(v, i)
    BY FieldsOf DEF Sound
  <1>2. /\ s \in Records /\ p.phase \in P4b \cup P4c /\ p.at \in 1..v.n
        /\ p.phase \in P4c => p.before = reg
    BY <1>1 DEF WellMade, Believed
  <1>3. Makes(v, u, i)
    BY <1>1, <1>2, MadeIs
  <1>4. kind \in Artefacts
    BY <1>2, RolesOf, RolesDiffer DEF P4c
  <1> HIDE DEF u
  <1>11. /\ Keeps(v, u, {"n", "done", "facts", "sources"}) /\ u.n = v.n + 1 /\ u.done = v.done \cup {i}
         /\ DOMAIN u.sources = {Policy, Registry} /\ u.sources[Policy] = v.sources[Policy]
         /\ p.phase \notin P4c \/ p.after = reg => u.sources[Registry] = v.sources[Registry]
         /\ p.phase \in P4c /\ p.after # reg => u.sources[Registry] = [sha |-> p.after, at |-> p.at]
    BY <1>3, Zenon DEF Makes
  <1>12. /\ DOMAIN u.facts = Records /\ DOMAIN u.facts[s] = Artefacts
         /\ DOMAIN u.facts[s][kind] = DOMAIN NoFacts
         /\ u.facts[s][kind].at = v.n + 1
         /\ \A b \in Artefacts \ {kind} : u.facts[s][b] = v.facts[s][b]
         /\ \A r \in Records \ {s} : u.facts[r] = v.facts[r]
    BY <1>3, Zenon DEF Makes
  <1>13. u.facts[s][kind].refs =
            [role \in DOMAIN p.basis |-> IF role = Registry THEN p.after ELSE p.basis[role].sha]
    BY <1>3, Zenon DEF Makes
  <1> HIDE DEF p, s, kind, reg
  <1>5. /\ u.own = v.own /\ u.checkpoint = v.checkpoint /\ u.plans = v.plans
        /\ u.aborted = v.aborted /\ u.initial = v.initial /\ u.findings = v.findings
    BY <1>11, <1>12 DEF Keeps, Fields
  <1>6. \A r \in Records, b \in Artefacts : u.facts[r][b] = v.facts[r][b] \/ (r = s /\ b = kind)
    BY <1>11, <1>12
  <1>7. ASSUME NEW r \in Records, NEW role \in Roles \ {Registry}
        PROVE  \/ Pair(u, r, role) = Pair(v, r, role)
               \/ r = s /\ role = kind /\ Pair(u, r, role).at = v.n + 1
    <2>1. CASE role \in Artefacts
      <3>1. u.facts[r][role] = v.facts[r][role] \/ (r = s /\ role = kind)
        BY <1>6, <2>1
      <3>2. /\ Pair(u, r, role).at = u.facts[r][role].at
            /\ u.facts[r][role] = v.facts[r][role] => Pair(u, r, role) = Pair(v, r, role)
        BY <2>1, PairMoves
      <3> QED
        BY <1>12, <3>1, <3>2
    <2>2. CASE role \notin Artefacts
      BY <1>11, <1>12, <1>5, <2>2, RolesOf, RolesDiffer DEF Pair
    <2> QED
      BY <2>1, <2>2
  <1>8. Sorted(u)
    <2>1. Dated(u)
      <3>1. ASSUME NEW r \in Records, NEW role \in Roles PROVE Pair(u, r, role).at \in 0..u.n
        <4>1. Pair(v, r, role).at \in 0..v.n
          BY <1>1 DEF Sorted
        <4>2. CASE role # Registry
          BY <1>1, <1>11, <1>12, <1>7, <4>1, <4>2
        <4>3. CASE role = Registry
          <5>1. Pair(u, r, role) = u.sources[Registry] /\ Pair(v, r, role) = v.sources[Registry]
            BY <4>3, PairIs
          <5>2. Pair(u, r, role) = Pair(v, r, role) \/ Pair(u, r, role).at = p.at
            BY <1>11, <1>12, <5>1
          <5> QED
            BY <1>1, <1>2, <1>11, <1>12, <4>1, <5>2
        <4> QED
          BY <4>2, <4>3
      <3> QED
        BY <3>1 DEF Dated
    <2>2. FactsPlaced(u.facts)
      <3>1. FactsPlaced(v.facts)
        BY <1>1, SortedIs
      <3>2. \A r \in Records : DOMAIN u.facts[r] = Artefacts
        BY <1>11, <1>12, <3>1 DEF FactsPlaced
      <3>3. ASSUME NEW r \in Records, NEW b \in Artefacts PROVE DOMAIN u.facts[r][b] = DOMAIN NoFacts
        <4>1. DOMAIN v.facts[r][b] = DOMAIN NoFacts
          BY <3>1 DEF FactsPlaced
        <4>2. u.facts[r][b] = v.facts[r][b] \/ (r = s /\ b = kind)
          BY <1>6
        <4> QED
          BY <1>11, <1>12, <4>1, <4>2
      <3> QED
        BY <1>11, <1>12, <3>2, <3>3 DEF FactsPlaced
    <2>3. /\ OwnPlaced(v.own) /\ CheckpointsPlaced(v.checkpoint) /\ PlansPlaced(v.plans, v.done, v.aborted)
      BY <1>1, SortedIs
    <2>4. PlansPlaced(u.plans, u.done, u.aborted)
      BY <1>11, <1>12, <1>5, <2>3, StillPlaced
    <2>5. DOMAIN u = Fields /\ u.n \in Nat
      BY <1>1, <1>11, <1>12 DEF Keeps
    <2>6. OwnPlaced(u.own) /\ CheckpointsPlaced(u.checkpoint)
      BY <1>5, <2>3
    <2> QED
      BY <1>11, <1>12, <2>1, <2>2, <2>4, <2>5, <2>6, SortedIs, Zenon
  <1>9. /\ p.phase \in P4c => u.sources[Registry].sha = p.after
        /\ p.phase \notin P4c \/ p.after = p.before => u.sources[Registry] = v.sources[Registry]
    BY <1>2, <1>11 DEF reg
  <1>14. /\ u.n = v.n + 1 /\ u.n > v.n /\ u.findings = {}
         /\ u.plans = v.plans /\ u.done = v.done \cup {i} /\ u.initial = v.initial
    BY <1>1, <1>11, <1>5
  <1>15. \A r \in Records, role \in Roles \ {Registry} :
             \/ Pair(u, r, role) = Pair(v, r, role)
             \/ r = s /\ role = kind /\ Renewed(v, u, r, role)
    BY <1>1, <1>7 DEF Renewed
  <1> QED
    BY <1>6, <1>8, <1>9, <1>14, <1>15, Zenon DEF u, kind, p, s, Leaves

(* What follows of any act that makes an artifact.                         *)
LEMMA MadeFollows ==
    ASSUME NEW v, Sound(v), NEW i \in DOMAIN v.plans, Believed(v, i), v.plans[i].phase # "resolve"
    PROVE  LET u == Completed(v, i)
           IN  /\ Follows(v, u)
               /\ \A j \in DOMAIN u.plans : WellMade(u, j)
               /\ \A r \in Records :
                    v.plans[i].phase # "review" \/ r # v.plans[i].rec => u.facts[r][Gate] = v.facts[r][Gate]
               /\ v.plans[i].phase # "finalise" =>
                    \A r, phase : phase \in {"resolve", "finalise"} => Acts(u, r, phase) = Acts(v, r, phase)
  <1> DEFINE u == Completed(v, i)
             p == v.plans[i]
             kind == Made(p.phase)
  <1>1. Sorted(v) /\ v.n \in Nat /\ WellMade(v, i)
    BY FieldsOf DEF Sound
  <1>2. p.rec \in Records /\ p.phase \in P4b \cup P4c /\ p.phase # "resolve"
    BY <1>1 DEF WellMade
  <1>3. /\ p.phase \in P4b => kind \in {Spans, Draft, Cases}
        /\ p.phase = "finalise" => kind = Final
        /\ p.phase = "review" => kind = Gate
    BY RolesOf
  <1>4. p.phase \in P4b \/ p.phase = "finalise" \/ p.phase = "review"
    BY <1>2 DEF P4c
  <1> HIDE DEF kind
  <1>5. /\ Sorted(u) /\ u.n = v.n + 1
        /\ u.plans = v.plans /\ u.done = v.done \cup {i}
        /\ \A r \in Records, b \in Artefacts : u.facts[r][b] = v.facts[r][b] \/ (r = p.rec /\ b = kind)
        /\ \A r \in Records, role \in Roles \ {Registry} :
             \/ Pair(u, r, role) = Pair(v, r, role)
             \/ r = p.rec /\ role = kind /\ Renewed(v, u, r, role)
    <2>1. Leaves(v, u, i)
      BY MadeIsSorted
    <2> QED
      BY <2>1, Zenon DEF Leaves, kind
  <1>6. \A r \in Records : p.phase # "review" \/ r # p.rec => u.facts[r][Gate] = v.facts[r][Gate]
    BY <1>3, <1>4, <1>5, RolesDiffer
  <1>7. \A r, phase : Acts(u, r, phase) = Acts(v, r, phase) \/ (p.rec = r /\ p.phase = phase)
    BY <1>5, ActsGrow
  <1> HIDE DEF u
  <1>8. p.phase = "finalise" => Renewed(v, u, p.rec, Final)
    <2>1. SUFFICES ASSUME p.phase = "finalise" PROVE Renewed(v, u, p.rec, Final)
      OBVIOUS
    <2>2. DOMAIN u.facts[p.rec][Final] = DOMAIN NoFacts /\ u.facts[p.rec][Final].at = v.n + 1
      <3>1. Makes(v, u, i)
        BY <1>1, <1>2, MadeIs DEF u
      <3> QED
        BY <1>3, <2>1, <3>1 DEF Makes, kind
    <2>3. Pair(u, p.rec, Final).at = v.n + 1
      <3>1. Final \in Artefacts
        BY RolesDiffer
      <3>2. /\ Pair(u, p.rec, Final).at = u.facts[p.rec][Final].at
            /\ u.facts[p.rec][Final] = v.facts[p.rec][Final] => Pair(u, p.rec, Final) = Pair(v, p.rec, Final)
        BY <3>1, PairMoves
      <3> QED
        BY <2>2, <3>2
    <2> QED
      BY <1>1, <2>3 DEF Renewed
  <1>9. Follows(v, u)
    <2>1. \A r \in Records : \A role \in Roles \ {Registry, Gate} :
             Pair(u, r, role) = Pair(v, r, role) \/ Renewed(v, u, r, role)
      BY <1>5
    <2>2. \A r \in Records :
             /\ Acts(u, r, "resolve") = Acts(v, r, "resolve")
             /\ Acts(u, r, "finalise") = Acts(v, r, "finalise") \/ Renewed(v, u, r, Final)
      BY <1>2, <1>7, <1>8
    <2> QED
      BY <1>5, <2>1, <2>2 DEF Follows
  <1>10. \A j \in DOMAIN u.plans : WellMade(u, j)
    BY <1>1, <1>5, <1>9, OldPlans DEF Sound
  <1>11. p.phase # "finalise" =>
            \A r, phase : phase \in {"resolve", "finalise"} => Acts(u, r, phase) = Acts(v, r, phase)
    BY <1>2, <1>7
  <1> QED
    BY <1>6, <1>9, <1>10, <1>11 DEF u

LEMMA ManualSound ==
    ASSUME NEW v, Sound(v), NEW i \in DOMAIN v.plans, Believed(v, i), v.plans[i].phase \in P4b
    PROVE  Sound(Completed(v, i))
  <1> DEFINE u == Completed(v, i)
             p == v.plans[i]
  <1>1. Sorted(v) /\ RegistersGrow(v) /\ p.phase \notin P4c /\ p.phase \notin {"resolve", "finalise", "review"}
    BY RolesDiffer DEF Sound, P4c
  <1>2. /\ Sorted(u) /\ u.findings = {} /\ u.plans = v.plans /\ u.done = v.done \cup {i} /\ u.initial = v.initial
        /\ u.sources[Registry] = v.sources[Registry]
    <2>1. Leaves(v, u, i)
      BY <1>1, MadeIsSorted
    <2> QED
      BY <1>1, <2>1, Zenon DEF Leaves
  <1>3. /\ Follows(v, u)
        /\ \A j \in DOMAIN u.plans : WellMade(u, j)
        /\ \A r \in Records : u.facts[r][Gate] = v.facts[r][Gate]
    BY <1>1, MadeFollows
  <1>4. RegistersGrow(u) /\ Afters(v) \subseteq Afters(u)
    BY <1>1, <1>2, SameRegister
  <1> HIDE DEF u
  <1>5. \A r \in Records : GateIsTrue(u, r)
    BY <1>1, <1>2, <1>3, <1>4, OldGates DEF Sound
  <1> QED
    BY <1>2, <1>3, <1>4, <1>5 DEF Sound, u

LEMMA FinalisedSound ==
    ASSUME NEW v, Sound(v), NEW i \in DOMAIN v.plans, Believed(v, i), v.plans[i].phase = "finalise"
    PROVE  Sound(Completed(v, i))
  <1> DEFINE u == Completed(v, i)
             p == v.plans[i]
  <1>1. Sorted(v) /\ RegistersGrow(v) /\ p.phase \in P4c /\ WellMade(v, i)
    BY DEF Sound, P4c
  <1>2. /\ p.rec \in Records /\ p.before = v.sources[Registry].sha /\ p.before # NoRegister
        /\ p.after = Allocate(p.before, p.rec, p.after.res[p.rec], i)
    BY <1>1 DEF WellMade, Believed
  <1>3. /\ Sorted(u) /\ u.findings = {} /\ u.plans = v.plans /\ u.done = v.done \cup {i} /\ u.initial = v.initial
        /\ u.sources[Registry].sha = p.after
        /\ p.after = p.before => u.sources[Registry] = v.sources[Registry]
    <2>1. Leaves(v, u, i)
      BY <1>1, MadeIsSorted
    <2> QED
      BY <1>1, <2>1, Zenon DEF Leaves
  <1>4. /\ Follows(v, u)
        /\ \A j \in DOMAIN u.plans : WellMade(u, j)
        /\ \A r \in Records : u.facts[r][Gate] = v.facts[r][Gate]
    BY <1>1, MadeFollows
  <1> HIDE DEF u
  <1>5. /\ RegistersGrow(u) /\ Afters(v) \subseteq Afters(u)
        /\ \/ u.sources[Registry].sha = v.sources[Registry].sha
           \/ u.sources[Registry].sha.version = v.sources[Registry].sha.version + 1
    <2>1. v.plans[i].after =
             Allocate(v.sources[Registry].sha, v.plans[i].rec, v.plans[i].after.res[v.plans[i].rec], i)
      BY <1>2
    <2>2. /\ v.plans[i].rec \in Records /\ v.sources[Registry].sha # NoRegister
          /\ u.sources[Registry].sha = v.plans[i].after
      BY <1>2, <1>3
    <2> HIDE DEF p
    <2>3. RegistersGrow(v) /\ u.plans = v.plans /\ u.done = v.done \cup {i} /\ u.initial = v.initial
      BY <1>1, <1>3
    <2> QED
      BY <2>1, <2>2, <2>3, NextRegister, Zenon
  <1>6. \/ u.sources[Registry] = v.sources[Registry]
        \/ u.sources[Registry].sha.version = v.sources[Registry].sha.version + 1
    BY <1>2, <1>3, <1>5
  <1>7. \A r \in Records : GateIsTrue(u, r)
    BY <1>1, <1>3, <1>4, <1>5, <1>6, OldGates DEF Sound
  <1> QED
    BY <1>3, <1>4, <1>5, <1>7 DEF Sound, u

LEMMA ReviewedSound ==
    ASSUME NEW v, Sound(v), NEW i \in DOMAIN v.plans, Believed(v, i), v.plans[i].phase = "review",
           Approved(v, v.plans[i].rec)
    PROVE  Sound(Completed(v, i))
  <1> DEFINE u == Completed(v, i)
             p == v.plans[i]
             s == p.rec
  <1>1. Sorted(v) /\ RegistersGrow(v) /\ p.phase \in P4c /\ WellMade(v, i)
    BY DEF Sound, P4c
  <1>2. /\ s \in Records /\ p.before = v.sources[Registry].sha /\ p.before # NoRegister /\ p.after = p.before
        /\ DOMAIN p.basis = Inputs("review")
    BY <1>1 DEF WellMade, Believed
  <1>3. /\ Sorted(u) /\ u.findings = {} /\ u.plans = v.plans /\ u.done = v.done \cup {i} /\ u.initial = v.initial
        /\ u.sources[Registry] = v.sources[Registry]
    <2>1. Leaves(v, u, i)
      BY <1>1, MadeIsSorted
    <2> QED
      BY <1>1, <1>2, <2>1, Zenon DEF Leaves
  <1>4. /\ Follows(v, u)
        /\ \A j \in DOMAIN u.plans : WellMade(u, j)
        /\ \A r \in Records \ {s} : u.facts[r][Gate] = v.facts[r][Gate]
        /\ \A r, phase : phase \in {"resolve", "finalise"} => Acts(u, r, phase) = Acts(v, r, phase)
    BY <1>1, MadeFollows
  <1>5. /\ u.facts[s][Gate].refs =
             [role \in DOMAIN p.basis |-> IF role = Registry THEN p.after ELSE p.basis[role].sha]
        /\ \A role \in Roles \ {Registry} : Pair(u, s, role) = Pair(v, s, role) \/ role = Gate
    <2>1. Makes(v, u, i)
      BY <1>1, <1>2, MadeIs
    <2>2. Leaves(v, u, i)
      BY MadeIsSorted
    <2>3. Made(p.phase) = Gate
      BY RolesOf
    <2> HIDE DEF u
    <2>4. u.facts[s][Gate].refs =
             [role \in DOMAIN p.basis |-> IF role = Registry THEN p.after ELSE p.basis[role].sha]
      BY <2>1, <2>3 DEF Makes
    <2>5. \A role \in Roles \ {Registry} : Pair(u, s, role) = Pair(v, s, role) \/ role = Gate
      BY <1>2, <2>2, <2>3 DEF Leaves
    <2> QED
      BY <2>4, <2>5
  <1> HIDE DEF u
  <1>6. RegistersGrow(u) /\ Afters(v) \subseteq Afters(u)
    BY <1>1, <1>2, <1>3, SameRegister
  <1>7. ASSUME NEW r \in Records \ {s} PROVE GateIsTrue(u, r)
    BY <1>1, <1>3, <1>4, <1>6, <1>7, OldGates DEF Sound
  <1>8. Approved(u, s)
    <2>1. \A role \in Base : Pair(u, s, role) = Pair(v, s, role)
      BY <1>5, RolesOf, RolesDiffer DEF Policy, Registry, Text, Spans, Draft, Cases, Gate
    <2> QED
      BY <1>1, <1>3, <1>4, <2>1, ApprovedStays
  <1>9. u.facts[s][Gate].refs[Registry] \in Afters(u)
    <2>1. Registry \in DOMAIN p.basis
      BY <1>2, RolesOf
    <2>2. u.facts[s][Gate].refs[Registry] = p.after
      BY <1>5, <2>1
    <2>3. Afters(u) = Afters(v) \cup {p.after}
      BY <1>1, <1>3, ActsGrow
    <2> QED
      BY <2>2, <2>3
  <1>10. \A r \in Records : GateIsTrue(u, r)
    BY <1>7, <1>8, <1>9 DEF GateIsTrue
  <1> QED
    BY <1>3, <1>4, <1>6, <1>10 DEF Sound, u

(* An act that is believed, an approval of what has been approved.         *)
LEMMA CompletedSound ==
    ASSUME NEW v, Sound(v), NEW i \in DOMAIN v.plans, Believed(v, i),
           v.plans[i].phase = "review" => Approved(v, v.plans[i].rec)
    PROVE  Sound(Completed(v, i))
  <1>1. v.plans[i].phase \in P4b \cup P4c
    BY DEF Sound, WellMade
  <1>2. v.plans[i].phase \in P4b \/ v.plans[i].phase \in {"resolve", "finalise", "review"}
    BY <1>1 DEF P4c
  <1> QED
    BY <1>2, ManualSound, ResolvedSound, FinalisedSound, ReviewedSound

-----------------------------------------------------------------------------
(* An empty corpus is sound: what the acts make of it is what is assumed   *)
(* of a scenario.                                                          *)
LEMMA NothingIsSound ==
    ASSUME NEW humans
    PROVE  Sound(NoView(humans))
  <1> DEFINE v == NoView(humans)
  <1>1. /\ v.n = 0 /\ v.plans = << >> /\ v.done = {} /\ v.aborted = {} /\ v.findings = {}
        /\ v.initial = NoRegister /\ DOMAIN v = DOMAIN NoView({})
    BY DEF NoView
  <1>2. /\ DOMAIN v.sources = {Policy, Registry} /\ v.sources[Policy].at = 0
        /\ v.sources[Registry] = [sha |-> NoRegister, at |-> 0]
    BY RolesDiffer DEF NoView, Unseen
  <1>3. /\ DOMAIN v.own = Records
        /\ \A r \in Records : /\ DOMAIN v.own[r] = {Text, Resolution}
                              /\ v.own[r][Text].at = 0 /\ v.own[r][Resolution].at = 0
    BY DEF NoView, Unseen
  <1>4. DOMAIN v.facts = Records /\ \A r \in Records : v.facts[r] = [a \in Artefacts |-> NoFacts]
    BY DEF NoView
  <1>5. DOMAIN v.checkpoint = Records /\ \A r \in Records : v.checkpoint[r] = [phase \in P4b |-> Unsaved]
    BY DEF NoView
  <1> HIDE DEF v
  <1>6. NoFacts.at = 0 /\ NoFacts.sha = None /\ Unsaved.revision = 0
    BY DEF NoFacts, Unsaved
  <1>7. Sorted(v)
    <2>1. Dated(v)
      <3>1. ASSUME NEW r \in Records, NEW role \in Roles PROVE Pair(v, r, role).at = 0
        BY <1>2, <1>3, <1>4, <1>6, RolesOf, RolesDiffer, PairIs
      <3> QED
        BY <1>1, <3>1 DEF Dated
    <2>2. DOMAIN v = Fields
      BY <1>1 DEF NoView, Fields
    <2>3. OwnPlaced(v.own) /\ FactsPlaced(v.facts) /\ CheckpointsPlaced(v.checkpoint)
      BY <1>3, <1>4, <1>5, <1>6 DEF OwnPlaced, FactsPlaced, CheckpointsPlaced
    <2>4. PlansPlaced(v.plans, v.done, v.aborted)
      BY <1>1 DEF PlansPlaced
    <2> QED
      <3>1. v.n \in Nat
        BY <1>1
      <3> QED
        BY <1>2, <2>1, <2>2, <2>3, <2>4, <3>1, SortedIs, Zenon
  <1>8. Afters(v) = {} /\ Ever(v) = {}
    BY <1>1, <1>2 DEF Afters, Ever
  <1>9. RegistersGrow(v)
    BY <1>1, <1>8 DEF RegistersGrow
  <1>10. \A r \in Records : GateIsTrue(v, r)
    BY <1>4, <1>6, RolesDiffer DEF GateIsTrue, Refers
  <1> QED
    BY <1>1, <1>7, <1>9, <1>10 DEF Sound, v

-----------------------------------------------------------------------------
(* The inductive invariant: the journal is sound, whoever holds the locks  *)
(* is in the middle of an act that is still believed, and the others hold  *)
(* nothing the journal could contradict but what they check again.         *)
Confirmed(v, r, phase, c) ==
    \E i \in v.done : v.plans[i].rec = r /\ v.plans[i].phase = phase /\ v.plans[i].checkpoint = c

Holds(j) == j.kind \in {"init", "recovery"} \/ (j.kind \in {"session", "work"} /\ j.act # 0)

(* What a session has saved follows what it has seen.                      *)
SessionOK(v, l, j) ==
    /\ DOMAIN j = {"kind", "rec", "phase", "actor", "basis", "previous", "session", "revision", "act"}
    /\ j.rec \in Records /\ j.phase \in P4b /\ j.revision \in Nat
    /\ j.session \notin 1..l["session"]
    /\ IF j.previous # Unsaved /\ j.previous.session = j.session
       THEN j.previous.revision = j.revision /\ j.previous.actor = j.actor
       ELSE j.revision = 0
    /\ j.previous # Unsaved /\ j.previous.actor # j.actor => Confirmed(v, j.rec, j.phase, j.previous)
    /\ j.act # 0 => j.act \in DOMAIN v.plans /\ v.plans[j.act].phase \in P4b /\ Believed(v, j.act)

WorkOK(v, j) ==
    /\ DOMAIN j = {"kind", "rec", "actor", "act", "shown", "base", "registry"}
    /\ j.rec \in Records /\ j.registry # NoRegister
    /\ DOMAIN j.base = Inputs("resolve") /\ ~j.base[Cases].sha.open
    /\ j.act # 0 => /\ j.act \in DOMAIN v.plans /\ v.plans[j.act].phase \in P4c /\ Believed(v, j.act)
                    /\ v.plans[j.act].phase = "review" => Approved(v, v.plans[j.act].rec)

RecoveryOK(v, j) == j.rec \in Records /\ j.act \in Open(v, j.rec, P4c) /\ ~Withdrawn(v, j.rec)

JobOK(v, l, j) ==
    \/ j = Idle
    \/ j.kind = "session" /\ SessionOK(v, l, j)
    \/ j.kind = "init" /\ v.sources[Registry].sha = NoRegister /\ v.initial # NoRegister
    \/ j.kind = "work" /\ WorkOK(v, j)
    \/ j.kind = "recovery" /\ RecoveryOK(v, j)

OneHolder ==
    /\ DOMAIN job = Processes /\ holder \in Processes \cup {None}
    /\ \A p \in Processes : holder = p <=> Holds(job[p])

JobsOK == \A p \in Processes : JobOK(view, left, job[p])

FinInv == Sound(view) /\ SessionsAreOver(view, left) /\ OneHolder /\ JobsOK /\ HeadIsExplained

(* What is to be shown of a step that leaves the head where it is.         *)
Fewer(l, m) == "session" \in DOMAIN m /\ m["session"] \in Nat /\ m["session"] <= l["session"]

Grows(v, u) ==
    /\ DOMAIN v.plans \subseteq DOMAIN u.plans /\ v.done \subseteq u.done
    /\ \A i \in DOMAIN v.plans : u.plans[i] = v.plans[i]

Aside(v, u) ==
    /\ u.plans = v.plans /\ u.done = v.done /\ u.aborted = v.aborted
    /\ u.initial = v.initial /\ u.checkpoint = v.checkpoint /\ u.sources[Registry] = v.sources[Registry]

LEMMA SessionsFollow ==
    ASSUME NEW v, NEW u, NEW l, NEW m, SessionsAreOver(v, l), u.checkpoint = v.checkpoint, Fewer(l, m)
    PROVE  SessionsAreOver(u, m)
  <1>1. l["session"] \in Nat /\ m["session"] \in Nat /\ m["session"] <= l["session"]
    BY DEF SessionsAreOver, Fewer
  <1>2. 1..m["session"] \subseteq 1..l["session"]
    BY <1>1
  <1> QED
    BY <1>1, <1>2 DEF SessionsAreOver, Fewer

LEMMA SpendIs ==
    ASSUME NEW item, SessionsAreOver(view, left), Spend(item)
    PROVE  Fewer(left, left') /\ (item = "session" => left["session"] > 0 /\ left'["session"] = left["session"] - 1)
  <1>1. "session" \in DOMAIN left /\ left["session"] \in Nat
    BY DEF SessionsAreOver
  <1>2. left[item] > 0 /\ left' = [left EXCEPT ![item] = @ - 1]
    BY DEF Spend
  <1>3. "session" \in DOMAIN left' /\ left'["session"] = IF item = "session" THEN left["session"] - 1 ELSE left["session"]
    BY <1>1, <1>2
  <1>4. item = "session" => left["session"] > 0
    BY <1>2
  <1> QED
    BY <1>1, <1>3, <1>4 DEF Fewer

LEMMA SameLeft ==
    ASSUME NEW v, NEW l, SessionsAreOver(v, l)
    PROVE  Fewer(l, l)
  BY DEF SessionsAreOver, Fewer

LEMMA ConfirmedStays ==
    ASSUME NEW v, NEW u, Sorted(v), Grows(v, u), NEW r, NEW phase, NEW c, Confirmed(v, r, phase, c)
    PROVE  Confirmed(u, r, phase, c)
  <1>1. v.done \subseteq DOMAIN v.plans
    BY DEF Sorted
  <1> QED
    BY <1>1 DEF Confirmed, Grows

(* Who does not hold the locks is not disturbed by an event.               *)
LEMMA Bystander ==
    ASSUME NEW v, NEW u, NEW l, NEW m, NEW j, Sorted(v), Grows(v, u), SessionsAreOver(v, l), Fewer(l, m),
           JobOK(v, l, j), u = v \/ ~Holds(j)
    PROVE  JobOK(u, m, j)
  <1>1. 1..m["session"] \subseteq 1..l["session"]
    BY DEF SessionsAreOver, Fewer
  <1>2. CASE j = Idle
    BY <1>2 DEF JobOK
  <1>3. CASE j.kind = "session" /\ SessionOK(v, l, j)
    <2>1. Confirmed(v, j.rec, j.phase, j.previous) => Confirmed(u, j.rec, j.phase, j.previous)
      BY ConfirmedStays
    <2>2. u = v \/ j.act = 0
      BY <1>3 DEF Holds
    <2>3. j.session \notin 1..m["session"]
      BY <1>1, <1>3 DEF SessionOK
    <2>4. SessionOK(u, m, j)
      BY <1>3, <2>1, <2>2, <2>3 DEF SessionOK
    <2> QED
      BY <1>3, <2>4 DEF JobOK
  <1>4. CASE j.kind = "init" /\ v.sources[Registry].sha = NoRegister /\ v.initial # NoRegister
    BY <1>4 DEF JobOK, Holds
  <1>5. CASE j.kind = "work" /\ WorkOK(v, j)
    <2>1. WorkOK(u, j)
      BY <1>5 DEF Holds, WorkOK
    <2> QED
      BY <1>5, <2>1 DEF JobOK
  <1>6. CASE j.kind = "recovery" /\ RecoveryOK(v, j)
    BY <1>6 DEF Holds, JobOK
  <1> QED
    BY <1>2, <1>3, <1>4, <1>5, <1>6 DEF JobOK

LEMMA HeadStays ==
    ASSUME HeadIsExplained, head' = head, view'.sources[Registry].sha = view.sources[Registry].sha,
           view'.initial = view.initial \/ head = Current,
           \A i \in DOMAIN view.plans \ (view.done \cup view.aborted) :
             view.plans[i].phase \in P4c /\ view.plans[i].after = head =>
               /\ i \in DOMAIN view'.plans /\ view'.plans[i] = view.plans[i]
               /\ i \notin view'.done \cup view'.aborted
    PROVE  HeadIsExplained'
  <1>1. CASE head = Current
    BY <1>1 DEF HeadIsExplained, Current
  <1>2. CASE head # Current /\ Current = NoRegister /\ head = view.initial
    BY <1>2 DEF HeadIsExplained, Current
  <1>3. CASE HeadIsPending
    <2>1. PICK i \in DOMAIN view.plans \ (view.done \cup view.aborted) :
             view.plans[i].phase \in P4c /\ view.plans[i].before = Current /\ view.plans[i].after = head
      BY <1>3 DEF HeadIsPending
    <2>2. /\ i \in DOMAIN view'.plans /\ view'.plans[i] = view.plans[i]
          /\ i \notin view'.done \cup view'.aborted
      BY <2>1
    <2>3. HeadIsPending'
      BY <2>1, <2>2 DEF HeadIsPending, Current
    <2> QED
      BY <2>3 DEF HeadIsExplained
  <1> QED
    BY <1>1, <1>2, <1>3 DEF HeadIsExplained

(* A step of one process.                                                  *)
LEMMA StepOf ==
    ASSUME FinInv, NEW p \in Processes, Sound(view'), SessionsAreOver(view', left'), Grows(view, view'),
           Fewer(left, left'), view' = view \/ holder \in {None, p},
           DOMAIN job' = Processes, \A q \in Processes \ {p} : job'[q] = job[q],
           JobOK(view', left', job'[p]),
           IF Holds(job'[p]) THEN holder' = p /\ holder \in {None, p}
           ELSE holder' = IF holder = p THEN None ELSE holder,
           HeadIsExplained'
    PROVE  FinInv'
  <1>1. /\ Sound(view) /\ Sorted(view) /\ SessionsAreOver(view, left) /\ DOMAIN job = Processes
        /\ holder \in Processes \cup {None} /\ \A q \in Processes : holder = q <=> Holds(job[q])
        /\ \A q \in Processes : JobOK(view, left, job[q])
    BY DEF FinInv, Sound, OneHolder, JobsOK
  <1>2. None \notin Processes
    BY FinalisationAssumption
  <1>3. ASSUME NEW q \in Processes \ {p} PROVE JobOK(view', left', job'[q])
    <2>1. view' = view \/ ~Holds(job[q])
      BY <1>1, <1>2
    <2> QED
      BY <1>1, <2>1, Bystander
  <1>4. JobsOK'
    BY <1>3 DEF JobsOK
  <1>5. OneHolder'
    <2>1. holder' \in Processes \cup {None}
      BY <1>1
    <2>2. ASSUME NEW q \in Processes PROVE holder' = q <=> Holds(job'[q])
      <3>1. CASE q = p
        BY <1>1, <1>2, <3>1
      <3>2. CASE q # p
        <4>1. job'[q] = job[q] /\ (holder = q <=> Holds(job[q]))
          BY <1>1, <3>2
        <4> QED
          BY <1>1, <1>2, <3>2, <4>1
      <3> QED
        BY <3>1, <3>2
    <2> QED
      BY <2>1, <2>2 DEF OneHolder, Holds
  <1> QED
    BY <1>4, <1>5 DEF FinInv

(* A step of nobody.                                                       *)
LEMMA StepOfNone ==
    ASSUME FinInv, Sound(view'), SessionsAreOver(view', left'), Grows(view, view'), Fewer(left, left'),
           view' = view \/ holder = None, job' = job, holder' = holder, HeadIsExplained'
    PROVE  FinInv'
  <1>1. /\ Sorted(view) /\ SessionsAreOver(view, left) /\ DOMAIN job = Processes
        /\ holder \in Processes \cup {None} /\ \A q \in Processes : holder = q <=> Holds(job[q])
        /\ \A q \in Processes : JobOK(view, left, job[q])
    BY DEF FinInv, Sound, OneHolder, JobsOK
  <1>2. None \notin Processes
    BY FinalisationAssumption
  <1>3. ASSUME NEW q \in Processes PROVE JobOK(view', left', job'[q])
    <2>1. view' = view \/ ~Holds(job[q])
      BY <1>1, <1>2
    <2> QED
      BY <1>1, <2>1, Bystander
  <1>4. JobsOK'
    BY <1>3 DEF JobsOK
  <1>5. OneHolder'
    BY <1>1 DEF OneHolder, Holds
  <1> QED
    BY <1>4, <1>5 DEF FinInv

(* What each event leaves alone, as far as the other processes care.       *)
LEMMA AsideGrows == ASSUME NEW v, NEW u, Aside(v, u) PROVE Grows(v, u)
  BY DEF Aside, Grows

LEMMA PolicySeenAside == ASSUME NEW v, Sorted(v), NEW sha PROVE Aside(v, PolicySeen(v, sha))
  <1> DEFINE u == PolicySeen(v, sha)
  <1>1. Keeps(v, u, {"n", "sources"}) /\ u.sources[Registry] = v.sources[Registry]
    BY PolicySeenIs
  <1> HIDE DEF u
  <1>2. Aside(v, u)
    BY <1>1 DEF Aside, Keeps, Fields
  <1> QED
    BY <1>2 DEF u

LEMMA TextConfirmedAside ==
    ASSUME NEW v, Sorted(v), NEW r \in Records, NEW sha
    PROVE  Aside(v, TextConfirmed(v, r, sha))
  <1> DEFINE u == TextConfirmed(v, r, sha)
  <1>1. Keeps(v, u, {"n", "own"})
    BY TextConfirmedIs
  <1> HIDE DEF u
  <1>2. Aside(v, u)
    BY <1>1 DEF Aside, Keeps, Fields
  <1> QED
    BY <1>2 DEF u

LEMMA RetiredAside == ASSUME NEW v, Sorted(v), NEW h PROVE Aside(v, Retired(v, h))
  <1> DEFINE u == Retired(v, h)
  <1>1. Keeps(v, u, {"n", "active"})
    BY RetiredIs
  <1> HIDE DEF u
  <1>2. Aside(v, u)
    BY <1>1 DEF Aside, Keeps, Fields
  <1> QED
    BY <1>2 DEF u

LEMMA DecidedAside ==
    ASSUME NEW v, Sorted(v), NEW r \in Records, NEW a \in Artefacts, NEW verdict
    PROVE  Aside(v, Decided(v, r, a, verdict))
  <1> DEFINE u == Decided(v, r, a, verdict)
  <1>1. Keeps(v, u, {"n", "facts"})
    BY DecidedIs
  <1> HIDE DEF u
  <1>2. Aside(v, u)
    BY <1>1 DEF Aside, Keeps, Fields
  <1> QED
    BY <1>2 DEF u

(* A plan more, and nothing else.                                          *)
Adds(v, u, p) ==
    LET i == Len(v.plans) + 1
    IN  /\ Grows(v, u) /\ u.checkpoint = v.checkpoint /\ u.initial = v.initial /\ u.sources = v.sources
        /\ u.done = v.done /\ u.aborted = v.aborted /\ u.own = v.own /\ u.facts = v.facts
        /\ u.active = v.active /\ u.findings = v.findings
        /\ Len(u.plans) = i /\ i \in DOMAIN u.plans /\ u.plans[i] = [p EXCEPT !.at = v.n + 1]
        /\ i # 0 /\ i \notin v.done \cup v.aborted

LEMMA PreparedLeaves ==
    ASSUME NEW v, Sorted(v), NEW p, p.phase \in P4c => v.sources[Registry].sha = p.before
    PROVE  Adds(v, Prepared(v, p), p)
  <1> DEFINE u == Prepared(v, p)
             i == Len(v.plans) + 1
             new == [p EXCEPT !.at = v.n + 1]
  <1>1. /\ Keeps(v, u, {"n", "plans"}) /\ Len(u.plans) = i /\ DOMAIN u.plans = 1..i
        /\ \A j \in DOMAIN v.plans : u.plans[j] = v.plans[j]
        /\ u.plans[i] = new
    BY PreparedIs, ZenonT(40)
  <1>2. Len(v.plans) \in Nat /\ DOMAIN v.plans = 1..Len(v.plans) /\ v.done \cup v.aborted \subseteq 1..Len(v.plans)
    BY PlansOf
  <1> HIDE DEF u, new
  <1>3. /\ u.checkpoint = v.checkpoint /\ u.initial = v.initial /\ u.sources = v.sources
        /\ u.done = v.done /\ u.aborted = v.aborted /\ u.own = v.own /\ u.facts = v.facts
        /\ u.active = v.active /\ u.findings = v.findings
    BY <1>1 DEF Keeps, Fields
  <1>4. i # 0 /\ i \notin v.done \cup v.aborted /\ i \in 1..i /\ DOMAIN v.plans \subseteq 1..i
    BY <1>2
  <1>5. Grows(v, u)
    BY <1>1, <1>3, <1>4 DEF Grows
  <1> QED
    BY <1>1, <1>3, <1>4, <1>5 DEF u, new, Adds

LEMMA CompletedLeaves ==
    ASSUME NEW v, Sound(v), NEW i \in DOMAIN v.plans, Believed(v, i)
    PROVE  LET u == Completed(v, i)
           IN  /\ Grows(v, u) /\ u.checkpoint = v.checkpoint /\ u.initial = v.initial
               /\ u.plans = v.plans /\ u.done = v.done \cup {i} /\ u.aborted = v.aborted
               /\ v.plans[i].phase \in P4b => u.sources[Registry].sha = v.sources[Registry].sha
               /\ v.plans[i].phase \in P4c => u.sources[Registry].sha = v.plans[i].after
  <1> DEFINE u == Completed(v, i)
             p == v.plans[i]
  <1>1. Sorted(v) /\ WellMade(v, i)
    BY DEF Sound
  <1>2. p.rec \in Records /\ p.phase \in P4b \cup P4c /\ (p.phase \in P4c => p.before = v.sources[Registry].sha)
    BY <1>1 DEF WellMade, Believed
  <1>3. CASE p.phase = "resolve"
    <2>1. p.after = v.sources[Registry].sha /\ p.phase \in P4c /\ p.phase \notin P4b
      BY <1>1, <1>2, <1>3, RolesDiffer DEF WellMade, P4c
    <2>2. Keeps(v, u, {"n", "done", "own", "sources"}) /\ u.done = v.done \cup {i} /\ u.sources[Registry] = v.sources[Registry]
      BY <1>1, <1>2, <1>3, <2>1, ResolvedIs, ZenonT(40)
    <2> HIDE DEF u
    <2>3. u.checkpoint = v.checkpoint /\ u.initial = v.initial /\ u.plans = v.plans /\ u.aborted = v.aborted
      BY <2>2 DEF Keeps, Fields
    <2> QED
      BY <2>1, <2>2, <2>3 DEF Grows, u
  <1>4. CASE p.phase # "resolve"
    <2>1. Makes(v, u, i)
      BY <1>1, <1>2, <1>4, MadeIs
    <2>2. Leaves(v, u, i)
      BY <1>4, MadeIsSorted
    <2> HIDE DEF u, p
    <2>3. Keeps(v, u, {"n", "done", "facts", "sources"})
      BY <2>1 DEF Makes
    <2>4. u.checkpoint = v.checkpoint /\ u.initial = v.initial /\ u.plans = v.plans /\ u.aborted = v.aborted
      BY <2>3 DEF Keeps, Fields
    <2>5. /\ u.done = v.done \cup {i}
          /\ v.plans[i].phase \in P4c => u.sources[Registry].sha = v.plans[i].after
          /\ v.plans[i].phase \notin P4c => u.sources[Registry] = v.sources[Registry]
      BY <2>2 DEF Leaves
    <2>6. P4b \cap P4c = {}
      BY RolesDiffer
    <2> QED
      BY <2>4, <2>5, <2>6 DEF Grows, u
  <1> QED
    BY <1>3, <1>4

-----------------------------------------------------------------------------
(* Steps that change nothing the others see, and steps of others.          *)
LEMMA AsideHead ==
    ASSUME HeadIsExplained, head' = head, view' = view \/ Aside(view, view')
    PROVE  HeadIsExplained'
  BY HeadStays DEF Aside

LEMMA FreeWhenIdle ==
    ASSUME FinInv, NEW p \in Processes, ~Holds(job[p])
    PROVE  holder # p
  BY DEF FinInv, OneHolder

LEMMA OutsideStep ==
    ASSUME FinInv, UNCHANGED <<head, holder, job>>, holder = None, Sound(view'), Aside(view, view'),
           Fewer(left, left')
    PROVE  FinInv'
  <1>1. HeadIsExplained /\ SessionsAreOver(view, left)
    BY DEF FinInv
  <1>2. HeadIsExplained'
    BY <1>1, AsideHead
  <1>3. Grows(view, view') /\ SessionsAreOver(view', left')
    BY <1>1, AsideGrows, SessionsFollow DEF Aside
  <1> QED
    BY <1>2, <1>3, StepOfNone

LEMMA InsideStep ==
    ASSUME FinInv, NEW p \in Processes, UNCHANGED <<view, head, holder>>, Fewer(left, left'),
           DOMAIN job' = Processes, \A q \in Processes \ {p} : job'[q] = job[q],
           JobOK(view, left', job'[p]), ~Holds(job'[p]), holder # p
    PROVE  FinInv'
  <1>1. Sound(view) /\ HeadIsExplained /\ SessionsAreOver(view, left)
    BY DEF FinInv
  <1>2. HeadIsExplained'
    BY <1>1, AsideHead
  <1>3. Grows(view, view') /\ SessionsAreOver(view', left')
    <2>1. view'.checkpoint = view.checkpoint
      OBVIOUS
    <2> QED
      BY <1>1, <2>1, SessionsFollow DEF Grows
  <1> QED
    BY <1>1, <1>2, <1>3, StepOf

LEMMA HeadStep ==
    ASSUME FinInv, UNCHANGED <<view, holder, job, left>>, HeadIsExplained'
    PROVE  FinInv'
  <1>1. Sound(view) /\ SessionsAreOver(view, left) /\ Fewer(left, left)
    BY SameLeft DEF FinInv
  <1>2. Grows(view, view)
    BY DEF Grows
  <1> QED
    BY <1>1, <1>2, StepOfNone

-----------------------------------------------------------------------------
(* The steps of the manual work.                                           *)
LEMMA InvParts ==
    ASSUME FinInv
    PROVE  /\ Sound(view) /\ Sorted(view) /\ SessionsAreOver(view, left) /\ HeadIsExplained
           /\ DOMAIN job = Processes /\ Fewer(left, left) /\ view.findings = {}
           /\ \A p \in Processes : JobOK(view, left, job[p])
           /\ \A p \in Processes : holder = p <=> Holds(job[p])
           /\ holder = None => \A p \in Processes : ~Holds(job[p])
  <1>1. Sound(view) /\ SessionsAreOver(view, left) /\ HeadIsExplained /\ OneHolder /\ JobsOK
    BY DEF FinInv
  <1>2. Fewer(left, left)
    BY <1>1, SameLeft
  <1>3. \A p \in Processes : holder = p <=> Holds(job[p])
    BY <1>1 DEF OneHolder
  <1>4. holder = None => \A p \in Processes : ~Holds(job[p])
    BY <1>3, FinalisationAssumption
  <1> QED
    BY <1>1, <1>2, <1>3, <1>4 DEF Sound, OneHolder, JobsOK

LEMMA IdleIs == ~Holds(Idle) /\ \A v, l : JobOK(v, l, Idle)
  BY DEF Holds, Idle, JobOK

LEMMA RefreshStep == ASSUME FinInv, Refresh PROVE FinInv'
  <1>1. Sound(view) /\ Sorted(view) /\ Fewer(left, left)
    BY InvParts
  <1>2. /\ view' = PolicySeen(view, policy) /\ holder = None /\ UNCHANGED <<head, holder, job>> /\ left' = left
    BY DEF Refresh
  <1>3. Sound(view') /\ Aside(view, view')
    BY <1>1, <1>2, PolicySeenSound, PolicySeenAside
  <1> QED
    BY <1>1, <1>2, <1>3, OutsideStep

LEMMA ConfirmTextStep == ASSUME FinInv, NEW r \in Records, NEW x, ConfirmText(r, x) PROVE FinInv'
  <1>1. Sound(view) /\ Sorted(view) /\ SessionsAreOver(view, left)
    BY InvParts
  <1>2. view' = TextConfirmed(view, r, x) /\ holder = None /\ UNCHANGED <<head, holder, job>> /\ Spend("text")
    BY DEF ConfirmText
  <1>3. Sound(view') /\ Aside(view, view')
    BY <1>1, <1>2, TextConfirmedSound, TextConfirmedAside
  <1>4. Fewer(left, left')
    BY <1>1, <1>2, SpendIs
  <1> QED
    BY <1>2, <1>3, <1>4, OutsideStep

LEMMA RetireStep == ASSUME FinInv, NEW h, Retire(h) PROVE FinInv'
  <1>1. Sound(view) /\ Sorted(view) /\ SessionsAreOver(view, left)
    BY InvParts
  <1>2. view' = Retired(view, h) /\ holder = None /\ UNCHANGED <<head, holder, job>> /\ Spend("retire")
    BY DEF Retire
  <1>3. Sound(view') /\ Aside(view, view')
    BY <1>1, <1>2, RetiredSound, RetiredAside
  <1>4. Fewer(left, left')
    BY <1>1, <1>2, SpendIs
  <1> QED
    BY <1>2, <1>3, <1>4, OutsideStep

LEMMA DecideStep == ASSUME FinInv, NEW r \in Records, NEW a \in Human, Decide(r, a) PROVE FinInv'
  <1>1. Sound(view) /\ Sorted(view) /\ SessionsAreOver(view, left)
    BY InvParts
  <1>2. a \in Artefacts
    BY RolesDiffer
  <1> DEFINE verdict == IF view.facts[r][a].withdrawn THEN "UNDO" ELSE "WITHDRAW"
  <1>3. view' = Decided(view, r, a, verdict) /\ holder = None /\ UNCHANGED <<head, holder, job>> /\ Spend("decide")
    BY DEF Decide
  <1>4. verdict # "ACCEPT"
    OBVIOUS
  <1> HIDE DEF verdict
  <1>5. Sound(view') /\ Aside(view, view')
    BY <1>1, <1>2, <1>3, <1>4, DecidedSound, DecidedAside
  <1>6. Fewer(left, left')
    BY <1>1, <1>3, SpendIs
  <1> QED
    BY <1>3, <1>5, <1>6, OutsideStep

LEMMA EditPolicyStep == ASSUME FinInv, NEW x, EditPolicy(x) PROVE FinInv'
  <1>1. Sound(view) /\ SessionsAreOver(view, left) /\ HeadIsExplained
    BY InvParts
  <1>2. UNCHANGED <<view, head, holder, job>> /\ Spend("edit")
    BY DEF EditPolicy
  <1>3. Fewer(left, left')
    BY <1>1, <1>2, SpendIs
  <1>4. HeadIsExplained'
    BY <1>1, <1>2, AsideHead
  <1>5. Grows(view, view') /\ SessionsAreOver(view', left')
    <2>1. view'.checkpoint = view.checkpoint
      BY <1>2
    <2> QED
      BY <1>1, <1>2, <1>3, <2>1, SessionsFollow DEF Grows
  <1> QED
    BY <1>1, <1>2, <1>3, <1>4, <1>5, StepOfNone

LEMMA CloseStep == ASSUME FinInv, NEW p \in Processes, Close(p) PROVE FinInv'
  <1>1. job' = [job EXCEPT ![p] = Idle] /\ UNCHANGED <<view, head, holder, left>> /\ holder # p
    BY DEF Close
  <1>2. DOMAIN job = Processes /\ Fewer(left, left')
    BY <1>1, InvParts
  <1>3. DOMAIN job' = Processes /\ job'[p] = Idle /\ \A q \in Processes \ {p} : job'[q] = job[q]
    BY <1>1, <1>2
  <1> QED
    BY <1>1, <1>2, <1>3, IdleIs, InsideStep

LEMMA FailStep == ASSUME FinInv, NEW p \in Processes, Fail(p) PROVE FinInv'
  <1>1. /\ job' = [job EXCEPT ![p] = Idle] /\ UNCHANGED <<view, head>> /\ holder = p /\ holder' = None
        /\ Spend("fail")
    BY DEF Fail
  <1>2. DOMAIN job = Processes /\ Sound(view) /\ SessionsAreOver(view, left) /\ HeadIsExplained
    BY InvParts
  <1>3. DOMAIN job' = Processes /\ job'[p] = Idle /\ \A q \in Processes \ {p} : job'[q] = job[q]
    BY <1>1, <1>2
  <1>4. Fewer(left, left')
    BY <1>1, <1>2, SpendIs
  <1>5. HeadIsExplained'
    BY <1>1, <1>2, AsideHead
  <1>6. Grows(view, view') /\ SessionsAreOver(view', left')
    <2>1. view'.checkpoint = view.checkpoint
      BY <1>1
    <2> QED
      BY <1>1, <1>2, <1>4, <2>1, SessionsFollow DEF Grows
  <1> QED
    BY <1>1, <1>2, <1>3, <1>4, <1>5, <1>6, IdleIs, StepOf

LEMMA NewSessionStep ==
    ASSUME FinInv, NEW p \in Processes, NEW r \in Records, NEW phase \in P4b, NEW h, NewSession(p, r, phase, h)
    PROVE  FinInv'
  <1> DEFINE previous == view.checkpoint[r][phase]
             new == [kind |-> "session", rec |-> r, phase |-> phase, actor |-> h,
                     basis |-> Basis(view, r, phase), previous |-> previous,
                     session |-> left["session"], revision |-> 0, act |-> 0]
  <1>1. /\ job[p] = Idle /\ job' = [job EXCEPT ![p] = new] /\ UNCHANGED <<view, head, holder>>
        /\ Spend("session")
        /\ previous # Unsaved => previous.actor = h \/ CheckpointCompleted(r, phase, previous)
    BY DEF NewSession
  <1>2. DOMAIN job = Processes /\ SessionsAreOver(view, left) /\ holder # p
    BY <1>1, InvParts, IdleIs, FreeWhenIdle
  <1>3. DOMAIN job' = Processes /\ job'[p] = new /\ \A q \in Processes \ {p} : job'[q] = job[q]
    BY <1>1, <1>2
  <1>4. Fewer(left, left') /\ left["session"] > 0 /\ left'["session"] = left["session"] - 1
    BY <1>1, <1>2, SpendIs
  <1>5. previous.session \notin 1..left["session"] /\ left["session"] \in Nat
    BY <1>2 DEF SessionsAreOver
  <1>6. /\ previous.session # left["session"] /\ left["session"] \notin 1..left'["session"]
    BY <1>4, <1>5
  <1>7. previous # Unsaved /\ previous.actor # h => Confirmed(view, r, phase, previous)
    BY <1>1 DEF CheckpointCompleted, Confirmed
  <1> HIDE DEF previous
  <1>8. /\ new.kind = "session" /\ new.rec = r /\ new.phase = phase /\ new.actor = h /\ new.previous = previous
        /\ new.session = left["session"] /\ new.revision = 0 /\ new.act = 0
        /\ DOMAIN new = {"kind", "rec", "phase", "actor", "basis", "previous", "session", "revision", "act"}
    OBVIOUS
  <1> HIDE DEF new
  <1>9. SessionOK(view, left', new) /\ ~Holds(new)
    BY <1>6, <1>7, <1>8 DEF SessionOK, Holds
  <1>10. JobOK(view, left', new)
    BY <1>8, <1>9 DEF JobOK
  <1> QED
    BY <1>1, <1>2, <1>3, <1>4, <1>9, <1>10, InsideStep

LEMMA ResumeStep ==
    ASSUME FinInv, NEW p \in Processes, NEW r \in Records, NEW phase \in P4b, NEW h, Resume(p, r, phase, h)
    PROVE  FinInv'
  <1> DEFINE previous == view.checkpoint[r][phase]
             new == [kind |-> "session", rec |-> r, phase |-> phase, actor |-> h,
                     basis |-> previous.basis, previous |-> previous,
                     session |-> previous.session, revision |-> previous.revision, act |-> 0]
  <1>1. /\ job[p] = Idle /\ job' = [job EXCEPT ![p] = new] /\ UNCHANGED <<view, head, holder>>
        /\ Spend("session")
        /\ previous # Unsaved /\ previous.actor = h
    BY DEF Resume
  <1>2. DOMAIN job = Processes /\ SessionsAreOver(view, left) /\ Sorted(view) /\ holder # p
    BY <1>1, InvParts, IdleIs, FreeWhenIdle
  <1>3. DOMAIN job' = Processes /\ job'[p] = new /\ \A q \in Processes \ {p} : job'[q] = job[q]
    BY <1>1, <1>2
  <1>4. Fewer(left, left') /\ left["session"] > 0 /\ left'["session"] = left["session"] - 1
    BY <1>1, <1>2, SpendIs
  <1>5. previous.session \notin 1..left["session"] /\ left["session"] \in Nat /\ previous.revision \in Nat
    BY <1>2 DEF SessionsAreOver, Sorted
  <1>6. previous.session \notin 1..left'["session"]
    BY <1>4, <1>5
  <1> HIDE DEF previous
  <1>8. /\ new.kind = "session" /\ new.rec = r /\ new.phase = phase /\ new.actor = h /\ new.previous = previous
        /\ new.session = previous.session /\ new.revision = previous.revision /\ new.act = 0
        /\ DOMAIN new = {"kind", "rec", "phase", "actor", "basis", "previous", "session", "revision", "act"}
    OBVIOUS
  <1> HIDE DEF new
  <1>9. SessionOK(view, left', new) /\ ~Holds(new)
    BY <1>1, <1>5, <1>6, <1>8 DEF SessionOK, Holds
  <1>10. JobOK(view, left', new)
    BY <1>8, <1>9 DEF JobOK
  <1> QED
    BY <1>1, <1>2, <1>3, <1>4, <1>9, <1>10, InsideStep

(* What was prepared on what is there is believed.                         *)
LEMMA PreparedIsBelieved ==
    ASSUME NEW v, Sound(v), NEW p, DOMAIN p = PlanFields, StandsOn(v, p.rec, p.phase, p.basis),
           p.actor \in v.active,
           p.phase \in P4b /\ p.checkpoint # Unsaved => v.checkpoint[p.rec][p.phase] = p.checkpoint,
           p.phase \in P4c => v.sources[Registry].sha = p.before /\ ~Withdrawn(v, p.rec)
    PROVE  Believed(Prepared(v, p), Len(v.plans) + 1)
  <1> DEFINE u == Prepared(v, p)
             i == Len(v.plans) + 1
             new == [p EXCEPT !.at = v.n + 1]
  <1>1. Sorted(v) /\ v.findings = {}
    BY DEF Sound
  <1>2. p.phase \in P4c => v.sources[Registry].sha = p.before
    OBVIOUS
  <1>3. /\ u.checkpoint = v.checkpoint /\ u.sources = v.sources /\ u.done = v.done /\ u.aborted = v.aborted
        /\ u.own = v.own /\ u.facts = v.facts /\ u.active = v.active /\ u.findings = v.findings
        /\ u.plans[i] = new /\ i \notin v.done \cup v.aborted
    <2>1. Adds(v, u, p)
      BY <1>1, <1>2, PreparedLeaves
    <2> HIDE DEF u
    <2> QED
      BY <2>1 DEF Adds
  <1>4. /\ new.rec = p.rec /\ new.phase = p.phase /\ new.basis = p.basis /\ new.before = p.before
        /\ new.actor = p.actor /\ new.checkpoint = p.checkpoint
    BY DEF PlanFields
  <1> HIDE DEF u, i, new
  <1>5. StandsOn(u, p.rec, p.phase, p.basis)
    BY <1>3, HaveDepends DEF StandsOn
  <1>6. Withdrawn(u, p.rec) <=> Withdrawn(v, p.rec)
    BY <1>3 DEF Withdrawn
  <1>7. Believed(u, i)
    BY <1>1, <1>3, <1>4, <1>5, <1>6 DEF Believed
  <1> QED
    BY <1>7 DEF u, i

LEMMA KindIs ==
    ASSUME NEW v, NEW l, NEW j, JobOK(v, l, j)
    PROVE  /\ j.kind = "session" => SessionOK(v, l, j)
           /\ j.kind = "init" => v.sources[Registry].sha = NoRegister /\ v.initial # NoRegister
           /\ j.kind = "work" => WorkOK(v, j)
           /\ j.kind = "recovery" => RecoveryOK(v, j)
  BY DEF JobOK, Idle

LEMMA SaveStep == ASSUME FinInv, NEW p \in Processes, NEW open, Save(p, open) PROVE FinInv'
  <1> DEFINE s == job[p]
             c == [session |-> s.session, revision |-> s.revision + 1, previous |-> s.revision,
                   actor |-> s.actor, basis |-> s.basis, open |-> open]
  <1>1. /\ s.kind = "session" /\ s.act = 0 /\ holder = None /\ Spend("save") /\ SessionStands(s)
        /\ view' = Checkpointed(view, s.rec, s.phase, c)
        /\ job' = [job EXCEPT ![p].previous = c, ![p].revision = @ + 1]
        /\ UNCHANGED <<policy, head, holder>>
    BY DEF Save
  <1>2. /\ Sound(view) /\ Sorted(view) /\ SessionsAreOver(view, left) /\ DOMAIN job = Processes
        /\ HeadIsExplained /\ JobOK(view, left, s) /\ holder # p
    BY <1>1, InvParts, FinalisationAssumption
  <1>3. SessionOK(view, left, s)
    BY <1>1, <1>2, KindIs
  <1>4. view.checkpoint[s.rec][s.phase] = s.previous
    BY <1>1 DEF SessionStands
  <1>5. Fewer(left, left')
    BY <1>1, <1>2, SpendIs
  <1>6. /\ s.rec \in Records /\ s.phase \in P4b /\ s.revision \in Nat /\ s.session \notin 1..left["session"]
        /\ IF s.previous # Unsaved /\ s.previous.session = s.session
           THEN s.previous.revision = s.revision /\ s.previous.actor = s.actor ELSE s.revision = 0
        /\ DOMAIN s = {"kind", "rec", "phase", "actor", "basis", "previous", "session", "revision", "act"}
    BY <1>3 DEF SessionOK
  <1>7. /\ c.session = s.session /\ c.revision = s.revision + 1 /\ c.previous = s.revision /\ c.actor = s.actor
        /\ c # Unsaved
    <2>1. DOMAIN c = {"session", "revision", "previous", "actor", "basis", "open"}
      OBVIOUS
    <2>2. DOMAIN Unsaved = {"session", "revision"}
      BY DEF Unsaved
    <2>3. c # Unsaved
      BY <2>1, <2>2
    <2> QED
      BY <2>3
  <1>8. /\ DOMAIN job' = Processes /\ \A q \in Processes \ {p} : job'[q] = job[q]
        /\ DOMAIN job'[p] = DOMAIN s /\ job'[p].previous = c /\ job'[p].revision = s.revision + 1
        /\ job'[p].kind = "session" /\ job'[p].rec = s.rec /\ job'[p].phase = s.phase
        /\ job'[p].actor = s.actor /\ job'[p].session = s.session /\ job'[p].act = 0
    <2> HIDE DEF c
    <2>1. job' = [job EXCEPT ![p] = [[job[p] EXCEPT !.previous = c] EXCEPT !.revision = s.revision + 1]]
      BY <1>1, <1>2, <1>6
    <2> QED
      BY <1>1, <1>2, <1>6, <2>1
  <1> HIDE DEF s, c
  <1>9. LET prior == view.checkpoint[s.rec][s.phase]
        IN  IF prior # Unsaved /\ prior.session = c.session
            THEN c.previous = prior.revision /\ c.revision = prior.revision + 1 /\ c.actor = prior.actor
            ELSE c.previous = 0 /\ c.revision = 1
    BY <1>4, <1>6, <1>7
  <1>10. Sound(view')
    BY <1>1, <1>2, <1>6, <1>7, <1>9, CheckpointedSound
  <1>11. /\ Keeps(view, view', {"n", "checkpoint"})
         /\ \A r \in Records \ {s.rec} : view'.checkpoint[r] = view.checkpoint[r]
         /\ \A x \in P4b \ {s.phase} : view'.checkpoint[s.rec][x] = view.checkpoint[s.rec][x]
         /\ view'.checkpoint[s.rec][s.phase] = c
    BY <1>1, <1>2, <1>6, <1>9, CheckpointedIs
  <1>12. /\ view'.plans = view.plans /\ view'.done = view.done /\ view'.aborted = view.aborted
         /\ view'.initial = view.initial /\ view'.sources = view.sources
    BY <1>11 DEF Keeps, Fields
  <1>13. HeadIsExplained' /\ Grows(view, view')
    BY <1>1, <1>2, <1>12, HeadStays DEF Grows
  <1>14. SessionsAreOver(view', left')
    <2>1. left["session"] \in Nat /\ left'["session"] \in Nat /\ left'["session"] <= left["session"]
      BY <1>2, <1>5 DEF SessionsAreOver, Fewer
    <2>2. 1..left'["session"] \subseteq 1..left["session"]
      BY <2>1
    <2>3. ASSUME NEW r \in Records, NEW phase \in P4b
          PROVE  view'.checkpoint[r][phase].session \notin 1..left["session"]
      <3>1. CASE r = s.rec /\ phase = s.phase
        BY <1>6, <1>7, <1>11, <3>1
      <3>2. CASE ~(r = s.rec /\ phase = s.phase)
        <4>1. view'.checkpoint[r][phase] = view.checkpoint[r][phase]
          BY <1>11, <3>2
        <4> QED
          BY <1>2, <4>1 DEF SessionsAreOver
      <3> QED
        BY <3>1, <3>2
    <2> QED
      BY <1>5, <2>1, <2>2, <2>3 DEF SessionsAreOver, Fewer
  <1>15. JobOK(view', left', job'[p]) /\ ~Holds(job'[p])
    <2>1. s.session \notin 1..left'["session"]
      <3>1. left["session"] \in Nat /\ left'["session"] \in Nat /\ left'["session"] <= left["session"]
        BY <1>2, <1>5 DEF SessionsAreOver, Fewer
      <3>2. 1..left'["session"] \subseteq 1..left["session"]
        BY <3>1
      <3> QED
        BY <1>6, <3>2
    <2>2. SessionOK(view', left', job'[p])
      BY <1>6, <1>7, <1>8, <2>1 DEF SessionOK
    <2> QED
      BY <1>8, <2>2 DEF JobOK, Holds
  <1> QED
    BY <1>1, <1>2, <1>5, <1>8, <1>10, <1>13, <1>14, <1>15, StepOf

(* An act that is completed under a head that is its own.                  *)
LEMMA CompletionHolds ==
    ASSUME FinInv, NEW i \in DOMAIN view.plans, Believed(view, i),
           view.plans[i].phase = "review" => Approved(view, view.plans[i].rec),
           view' = Completed(view, i), head' = head,
           view.plans[i].phase \in P4c /\ view.plans[i].after # Current => head = view.plans[i].after
    PROVE  Sound(view') /\ Grows(view, view') /\ view'.checkpoint = view.checkpoint /\ HeadIsExplained'
  <1>1. Sound(view) /\ HeadIsExplained /\ WellMade(view, i)
    BY InvParts DEF Sound
  <1>2. Sound(view')
    BY <1>1, CompletedSound
  <1>3. /\ Grows(view, view') /\ view'.checkpoint = view.checkpoint /\ view'.initial = view.initial
        /\ view'.plans = view.plans /\ view'.done = view.done \cup {i} /\ view'.aborted = view.aborted
        /\ view.plans[i].phase \in P4b => view'.sources[Registry].sha = view.sources[Registry].sha
        /\ view.plans[i].phase \in P4c => view'.sources[Registry].sha = view.plans[i].after
    BY <1>1, CompletedLeaves
  <1>4. HeadIsExplained'
    <2>1. CASE view.plans[i].phase \in P4b
      <3>1. view.plans[i].phase \notin P4c
        BY <2>1, RolesDiffer
      <3> QED
        BY <1>1, <1>3, <2>1, <3>1, HeadStays
    <2>2. CASE view.plans[i].phase \in P4c /\ head = view.plans[i].after
      BY <1>3, <2>2 DEF HeadIsExplained, Current
    <2>3. CASE view.plans[i].phase \in P4c /\ head # view.plans[i].after
      <3>1. view'.sources[Registry].sha = view.sources[Registry].sha
        BY <1>3, <2>3 DEF Current
      <3> QED
        BY <1>1, <1>3, <2>3, <3>1, HeadStays
    <2> QED
      BY <1>1, <2>1, <2>2, <2>3 DEF WellMade
  <1> QED
    BY <1>2, <1>3, <1>4

LEMMA CompletionStep ==
    ASSUME FinInv, NEW i \in DOMAIN view.plans, Believed(view, i),
           view.plans[i].phase = "review" => Approved(view, view.plans[i].rec),
           view' = Completed(view, i), head' = head,
           view.plans[i].phase \in P4c /\ view.plans[i].after # Current => head = view.plans[i].after,
           NEW p \in Processes, Holds(job[p]), holder' = None, job' = [job EXCEPT ![p] = Idle], left' = left
    PROVE  FinInv'
  <1>1. /\ DOMAIN job = Processes /\ SessionsAreOver(view, left) /\ Fewer(left, left') /\ holder = p
    BY InvParts
  <1>2. Sound(view') /\ Grows(view, view') /\ view'.checkpoint = view.checkpoint /\ HeadIsExplained'
    BY CompletionHolds
  <1>3. SessionsAreOver(view', left')
    BY <1>1, <1>2, SessionsFollow
  <1>4. DOMAIN job' = Processes /\ job'[p] = Idle /\ \A q \in Processes \ {p} : job'[q] = job[q]
    BY <1>1
  <1> QED
    BY <1>1, <1>2, <1>3, <1>4, IdleIs, StepOf

LEMMA PublishCompleteStep == ASSUME FinInv, NEW p \in Processes, PublishComplete(p) PROVE FinInv'
  <1> DEFINE i == job[p].act
  <1>1. /\ job[p].kind = "session" /\ i # 0 /\ view' = Completed(view, i) /\ job' = [job EXCEPT ![p] = Idle]
        /\ holder' = None /\ UNCHANGED <<policy, head, left>>
    BY DEF PublishComplete
  <1>2. SessionOK(view, left, job[p])
    BY <1>1, InvParts, KindIs
  <1>3. i \in DOMAIN view.plans /\ view.plans[i].phase \in P4b /\ Believed(view, i)
    BY <1>1, <1>2 DEF SessionOK
  <1>4. view.plans[i].phase \notin P4c /\ view.plans[i].phase # "review" /\ Holds(job[p])
    BY <1>1, <1>3, RolesDiffer DEF P4c, Holds
  <1> HIDE DEF i
  <1> QED
    BY <1>1, <1>3, <1>4, CompletionStep

LEMMA FirstOpenIs ==
    ASSUME NEW v, Sorted(v), NEW r, NEW phases, Open(v, r, phases) # {}
    PROVE  FirstOpen(v, r, phases) \in Open(v, r, phases) /\ Open(v, r, phases) \subseteq DOMAIN v.plans
  <1> DEFINE O == Open(v, r, phases)
  <1>1. O \subseteq DOMAIN v.plans /\ DOMAIN v.plans = 1..Len(v.plans) /\ Len(v.plans) \in Nat
    BY PlansOf DEF Open
  <1> HIDE DEF O
  <1>2. O \in SUBSET Nat
    BY <1>1
  <1>3. \E m \in O : \A x \in O : m <= x
    BY <1>2, LeastExists DEF O
  <1>4. FirstOpen(v, r, phases) = CHOOSE m \in O : \A x \in O : m <= x
    BY DEF FirstOpen, O
  <1>5. FirstOpen(v, r, phases) \in O
    BY <1>3, <1>4, Zenon
  <1> QED
    BY <1>1, <1>5 DEF O

LEMMA RecoverManualStep == ASSUME FinInv, NEW r \in Records, NEW h, RecoverManual(r, h) PROVE FinInv'
  <1> DEFINE i == FirstOpen(view, r, P4b)
             act == view.plans[i]
  <1>1. /\ holder = None /\ Open(view, r, P4b) # {}
        /\ MaySnapshot(r, act.phase, h) /\ act.actor = h
        /\ Basis(view, r, act.phase) = act.basis
        /\ act.checkpoint # Unsaved => view.checkpoint[r][act.phase] = act.checkpoint
        /\ view' = Completed(view, i)
        /\ UNCHANGED <<policy, head, holder, job, left>>
    BY Zenon DEF RecoverManual
  <1>2. Sound(view) /\ Sorted(view) /\ SessionsAreOver(view, left) /\ Fewer(left, left') /\ view.findings = {}
    BY <1>1, InvParts
  <1>3. i \in Open(view, r, P4b) /\ Open(view, r, P4b) \subseteq DOMAIN view.plans
    BY <1>1, <1>2, FirstOpenIs
  <1> HIDE DEF i
  <1>4. i \in DOMAIN view.plans /\ act.rec = r /\ act.phase \in P4b /\ i \notin view.done \cup view.aborted
    BY <1>3 DEF Open
  <1>5. act.phase \notin P4c /\ act.phase # "review"
    BY <1>4, RolesDiffer DEF P4c
  <1>6. Believed(view, i)
    BY <1>1, <1>2, <1>4, <1>5 DEF Believed, StandsOn, MaySnapshot
  <1>7. Sound(view') /\ Grows(view, view') /\ view'.checkpoint = view.checkpoint /\ HeadIsExplained'
    BY <1>1, <1>4, <1>5, <1>6, CompletionHolds
  <1>8. SessionsAreOver(view', left')
    BY <1>2, <1>7, SessionsFollow
  <1> QED
    BY <1>1, <1>2, <1>7, <1>8, StepOfNone

(* Up to the record that an act is prepared.                               *)
LEMMA PreparationHolds ==
    ASSUME FinInv, NEW plan, DOMAIN plan = PlanFields,
           plan.rec \in Records, plan.phase \in P4b \cup P4c, StandsOn(view, plan.rec, plan.phase, plan.basis),
           plan.actor \in view.active,
           plan.phase \in P4b /\ plan.checkpoint # Unsaved => view.checkpoint[plan.rec][plan.phase] = plan.checkpoint,
           plan.phase \in P4c =>
             /\ Current = plan.before /\ plan.before # NoRegister
             /\ ~plan.basis[Cases].sha.open /\ ~Withdrawn(view, plan.rec),
           plan.phase \in {"resolve", "review"} => plan.after = plan.before,
           plan.phase = "finalise" =>
             /\ plan.after = Allocate(plan.before, plan.rec, plan.after.res[plan.rec], Len(view.plans) + 1)
             /\ plan.basis[Resolution] = Pair(view, plan.rec, Resolution)
             /\ Acts(view, plan.rec, "resolve") # {}
             /\ plan.after.res[plan.rec] = Published(view, plan.rec, "resolve").made,
           view' = Prepared(view, plan), head' = head
    PROVE  LET i == Len(view'.plans)
           IN  /\ Sound(view') /\ Grows(view, view') /\ view'.checkpoint = view.checkpoint /\ HeadIsExplained'
               /\ i # 0 /\ i \in DOMAIN view'.plans /\ view'.plans[i].phase = plan.phase
               /\ view'.plans[i].rec = plan.rec /\ Believed(view', i)
               /\ \A r \in Records : Approved(view, r) => Approved(view', r)
  <1>1. Sound(view) /\ Sorted(view) /\ HeadIsExplained
    BY InvParts
  <1>2. DOMAIN plan.basis = Inputs(plan.phase)
    BY DEF StandsOn, Basis
  <1>3. plan.phase \in P4c => view.sources[Registry].sha = plan.before
    BY DEF Current
  <1>4. Sound(view') /\ \A r \in Records : Approved(view, r) => Approved(view', r)
    BY <1>1, <1>2, <1>3, PreparedSound
  <1>5. Adds(view, view', plan)
    BY <1>1, <1>3, PreparedLeaves
  <1>6. Believed(view', Len(view.plans) + 1)
    BY <1>1, <1>3, PreparedIsBelieved
  <1>7. Len(view'.plans) = Len(view.plans) + 1
    BY <1>5 DEF Adds
  <1>8. /\ Grows(view, view') /\ view'.checkpoint = view.checkpoint /\ view'.initial = view.initial
        /\ view'.sources = view.sources /\ view'.done = view.done /\ view'.aborted = view.aborted
        /\ Len(view'.plans) \in DOMAIN view'.plans /\ Len(view'.plans) # 0
        /\ view'.plans[Len(view'.plans)] = [plan EXCEPT !.at = view.n + 1]
    BY <1>5, <1>7 DEF Adds
  <1>9. [plan EXCEPT !.at = view.n + 1].phase = plan.phase /\ [plan EXCEPT !.at = view.n + 1].rec = plan.rec
    BY DEF PlanFields
  <1>10. HeadIsExplained'
    BY <1>1, <1>8, HeadStays DEF Grows
  <1> QED
    BY <1>4, <1>6, <1>7, <1>8, <1>9, <1>10

LEMMA PublishPrepareStep == ASSUME FinInv, NEW p \in Processes, PublishPrepare(p) PROVE FinInv'
  <1> DEFINE s == job[p]
             made == IF s.phase = "pseudonymise"
                     THEN [of |-> Draft, spans |-> s.basis[Spans].sha, policy |-> s.basis[Policy].sha]
                     ELSE [of |-> Made(s.phase), act |-> Len(view.plans) + 1, open |-> s.previous.open]
             checkpoint == IF s.phase = "pseudonymise" THEN Unsaved ELSE s.previous
             plan == [rec |-> s.rec, phase |-> s.phase, basis |-> s.basis, actor |-> s.actor,
                      checkpoint |-> checkpoint,
                      before |-> NoRegister, after |-> NoRegister, made |-> made, at |-> 0]
             i == Len(view'.plans)
  <1>1. /\ s.kind = "session" /\ s.act = 0 /\ holder = None /\ SessionStands(s)
        /\ view' = Prepared(view, plan) /\ holder' = p /\ job' = [job EXCEPT ![p].act = Len(view'.plans)]
        /\ UNCHANGED <<policy, head, left>>
    BY DEF PublishPrepare
  <1> HIDE DEF made
  <1>2. /\ Sound(view) /\ SessionsAreOver(view, left) /\ DOMAIN job = Processes /\ Fewer(left, left')
        /\ JobOK(view, left, s)
    BY <1>1, InvParts
  <1>3. SessionOK(view, left, s)
    BY <1>1, <1>2, KindIs
  <1>4. /\ s.rec \in Records /\ s.phase \in P4b /\ s.phase \notin P4c
        /\ s.phase \notin {"resolve", "finalise", "review"}
    BY <1>3, RolesDiffer DEF SessionOK, P4c
  <1>5. /\ StandsOn(view, s.rec, s.phase, s.basis) /\ s.actor \in view.active
        /\ view.checkpoint[s.rec][s.phase] = s.previous
    BY <1>1 DEF SessionStands, MaySnapshot, StandsOn
  <1>6. /\ DOMAIN plan = PlanFields /\ plan.rec = s.rec /\ plan.phase = s.phase /\ plan.basis = s.basis
        /\ plan.actor = s.actor /\ plan.checkpoint = checkpoint
    BY DEF PlanFields
  <1>7. checkpoint # Unsaved => checkpoint = s.previous
    OBVIOUS
  <1> HIDE DEF plan, checkpoint, i
  <1>8. /\ Sound(view') /\ Grows(view, view') /\ view'.checkpoint = view.checkpoint /\ HeadIsExplained'
        /\ i # 0 /\ i \in DOMAIN view'.plans /\ view'.plans[i].phase = plan.phase /\ Believed(view', i)
    BY <1>1, <1>4, <1>5, <1>6, <1>7, PreparationHolds DEF i
  <1>9. /\ DOMAIN job' = Processes /\ \A q \in Processes \ {p} : job'[q] = job[q]
        /\ job'[p] = [s EXCEPT !.act = i]
    BY <1>1, <1>2 DEF i
  <1>10. JobOK(view', left', job'[p]) /\ Holds(job'[p])
    <2>1. DOMAIN s = {"kind", "rec", "phase", "actor", "basis", "previous", "session", "revision", "act"}
      BY <1>3 DEF SessionOK
    <2>2. /\ DOMAIN job'[p] = DOMAIN s /\ job'[p].act = i /\ job'[p].kind = "session" /\ job'[p].rec = s.rec
          /\ job'[p].phase = s.phase /\ job'[p].actor = s.actor /\ job'[p].previous = s.previous
          /\ job'[p].session = s.session /\ job'[p].revision = s.revision
      BY <1>1, <1>9, <2>1
    <2>3. Confirmed(view, s.rec, s.phase, s.previous) => Confirmed(view', s.rec, s.phase, s.previous)
      BY <1>2, <1>8, ConfirmedStays DEF Sound
    <2> HIDE DEF s
    <2>4. SessionOK(view', left', job'[p])
      BY <1>1, <1>3, <1>4, <1>6, <1>8, <2>2, <2>3 DEF SessionOK
    <2> QED
      BY <1>8, <2>2, <2>4 DEF JobOK, Holds
  <1>11. SessionsAreOver(view', left')
    BY <1>2, <1>8, SessionsFollow
  <1> QED
    BY <1>1, <1>2, <1>8, <1>9, <1>10, <1>11, StepOf

LEMMA ManualStep == ASSUME FinInv, ManualNext PROVE FinInv'
  <1>1. CASE Refresh
    BY <1>1, RefreshStep
  <1>2. ASSUME NEW p \in Processes, NEW r \in Records, NEW phase \in P4b, NEW h \in Humans,
               NewSession(p, r, phase, h) \/ Resume(p, r, phase, h)
        PROVE  FinInv'
    BY <1>2, NewSessionStep, ResumeStep
  <1>3. ASSUME NEW p \in Processes, NEW open \in BOOLEAN, Save(p, open) PROVE FinInv'
    BY <1>3, SaveStep
  <1>4. ASSUME NEW p \in Processes, PublishPrepare(p) \/ PublishComplete(p) \/ Close(p) \/ Fail(p) PROVE FinInv'
    BY <1>4, PublishPrepareStep, PublishCompleteStep, CloseStep, FailStep
  <1>5. ASSUME NEW r \in Records, NEW h \in Humans, RecoverManual(r, h) PROVE FinInv'
    BY <1>5, RecoverManualStep
  <1>6. ASSUME NEW x \in Policies, EditPolicy(x) PROVE FinInv'
    BY <1>6, EditPolicyStep
  <1>7. ASSUME NEW r \in Records, NEW x \in Texts, ConfirmText(r, x) PROVE FinInv'
    BY <1>7, ConfirmTextStep
  <1>8. ASSUME NEW r \in Records, NEW a \in Human, Decide(r, a) PROVE FinInv'
    BY <1>8, DecideStep
  <1>9. ASSUME NEW h \in Humans, Retire(h) PROVE FinInv'
    BY <1>9, RetireStep
  <1> QED
    BY <1>1, <1>2, <1>3, <1>4, <1>5, <1>6, <1>7, <1>8, <1>9, Zenon DEF ManualNext

-----------------------------------------------------------------------------
(* The steps of the finalisation.                                          *)
LEMMA IdleAfter ==
    ASSUME FinInv, NEW p \in Processes, Holds(job[p]), Sound(view'), Grows(view, view'),
           view'.checkpoint = view.checkpoint, HeadIsExplained', Done(p)
    PROVE  FinInv'
  <1>1. holder' = None /\ job' = [job EXCEPT ![p] = Idle] /\ left' = left
    BY DEF Done
  <1>2. /\ DOMAIN job = Processes /\ SessionsAreOver(view, left) /\ Fewer(left, left') /\ holder = p
    BY <1>1, InvParts
  <1>3. SessionsAreOver(view', left')
    BY <1>2, SessionsFollow
  <1>4. DOMAIN job' = Processes /\ job'[p] = Idle /\ \A q \in Processes \ {p} : job'[q] = job[q]
    BY <1>1, <1>2
  <1> QED
    BY <1>1, <1>2, <1>3, <1>4, IdleIs, StepOf

LEMMA TakeInitStep == ASSUME FinInv, NEW p \in Processes, TakeInit(p) PROVE FinInv'
  <1> DEFINE new == [kind |-> "init", act |-> 0]
  <1>1. /\ job[p] = Idle /\ holder = None /\ Current = NoRegister /\ head \in {NoRegister, view.initial}
        /\ view' = IF view.initial = NoRegister THEN InitPrepared(view, Empty) ELSE view
        /\ holder' = p /\ job' = [job EXCEPT ![p] = new] /\ head' = head /\ left' = left
    BY DEF TakeInit
  <1>2. /\ Sound(view) /\ Sorted(view) /\ SessionsAreOver(view, left) /\ DOMAIN job = Processes
        /\ Fewer(left, left') /\ HeadIsExplained
    BY <1>1, InvParts
  <1>3. /\ Sound(view') /\ view'.plans = view.plans /\ view'.done = view.done /\ view'.aborted = view.aborted
        /\ view'.checkpoint = view.checkpoint /\ view'.sources = view.sources /\ view'.initial # NoRegister
        /\ view'.initial = view.initial \/ view.initial = NoRegister
    <2>1. CASE view.initial # NoRegister
      BY <1>1, <1>2, <2>1
    <2>2. CASE view.initial = NoRegister
      <3>1. Sound(view') /\ Keeps(view, view', {"n", "initial"}) /\ view'.initial = Empty
        BY <1>1, <1>2, <2>2, InitPreparedSound, InitPreparedIs
      <3> QED
        BY <2>2, <3>1, EmptyIs DEF Keeps, Fields
    <2> QED
      BY <2>1, <2>2
  <1>4. HeadIsExplained' /\ Grows(view, view')
    BY <1>1, <1>2, <1>3, HeadStays DEF Grows
  <1>5. SessionsAreOver(view', left')
    BY <1>2, <1>3, SessionsFollow
  <1>6. DOMAIN job' = Processes /\ job'[p] = new /\ \A q \in Processes \ {p} : job'[q] = job[q]
    BY <1>1, <1>2
  <1>7. JobOK(view', left', new) /\ Holds(new)
    BY <1>1, <1>3 DEF JobOK, Holds, Current
  <1> QED
    BY <1>1, <1>2, <1>3, <1>4, <1>5, <1>6, <1>7, StepOf

LEMMA InitHeadStep == ASSUME FinInv, NEW p \in Processes, InitHead(p) PROVE FinInv'
  <1>1. job[p].kind = "init" /\ head' = view.initial /\ UNCHANGED <<view, holder, job, left>>
    BY DEF InitHead
  <1>2. Current = NoRegister
    BY <1>1, InvParts, KindIs DEF Current
  <1>3. HeadIsExplained'
    BY <1>1, <1>2 DEF HeadIsExplained, Current
  <1> QED
    BY <1>1, <1>3, HeadStep

LEMMA InitCompleteStep == ASSUME FinInv, NEW p \in Processes, InitComplete(p) PROVE FinInv'
  <1>1. /\ job[p].kind = "init" /\ head = view.initial /\ view' = Initialised(view) /\ head' = head /\ Done(p)
    BY DEF InitComplete, Done
  <1>2. Sound(view) /\ Sorted(view)
    BY InvParts
  <1>3. view.sources[Registry].sha = NoRegister /\ view.initial # NoRegister /\ Holds(job[p])
    BY <1>1, InvParts, KindIs DEF Holds
  <1>4. Sound(view')
    BY <1>1, <1>2, <1>3, InitialisedSound
  <1>5. Keeps(view, view', {"n", "sources"}) /\ view'.sources[Registry] = [sha |-> view.initial, at |-> view.n + 1]
    BY <1>1, <1>2, <1>3, InitialisedIs
  <1>6. view'.checkpoint = view.checkpoint /\ Grows(view, view')
    BY <1>5 DEF Keeps, Fields, Grows
  <1>7. HeadIsExplained'
    BY <1>1, <1>5 DEF HeadIsExplained, Current
  <1> QED
    BY <1>1, <1>3, <1>4, <1>6, <1>7, IdleAfter

(* A final text that is still what its sources make of it, over cases none *)
(* of which is open, is fit to be approved.                                *)
LEMMA PackageIsApproved ==
    ASSUME Sound(view), NEW r \in Records, PackageStands(r), ~Pair(view, r, Cases).sha.open
    PROVE  Approved(view, r)
  <1> DEFINE p == Published(view, r, "finalise")
             named == Published(view, r, "resolve")
  <1>1. /\ Acts(view, r, "finalise") # {} /\ p.after = Current
        /\ \A role \in Inputs("finalise") \ {Registry} : p.basis[role] = Pair(view, r, role)
        /\ Answered(r)
        /\ p.made = Rendered(Pair(view, r, Text).sha, named.made, Current)
    BY Zenon DEF PackageStands
  <1>2. Acts(view, r, "resolve") # {} /\ HasBasis(view, r, "resolve") /\ named.basis = Basis(view, r, "resolve")
    BY <1>1 DEF Answered
  <1>3. PICK i \in Acts(view, r, "finalise") : p = view.plans[i] /\ i \in DOMAIN view.plans
    <2>1. Sorted(view)
      BY DEF Sound
    <2> QED
      BY <1>1, <2>1, PublishedIs
  <1>4. WellMade(view, i) /\ p.rec = r /\ p.phase = "finalise"
    BY <1>3 DEF Sound, Acts
  <1>5. p.basis[Resolution] = Pair(view, r, Resolution)
    BY <1>1, RolesOf, RolesDiffer DEF Resolution, Registry
  <1>6. Current.res[r] = named.made
    BY <1>1, <1>3, <1>4, <1>5 DEF WellMade
  <1>7. \A role \in Base : Pair(view, r, role).sha \notin {None, NoRegister}
    BY <1>2, RolesOf DEF HasBasis
  <1> QED
    BY <1>1, <1>2, <1>6, <1>7 DEF Approved, Current

LEMMA OpenWorkStep ==
    ASSUME FinInv, NEW p \in Processes, NEW r \in Records, NEW h, OpenWork(p, r, h)
    PROVE  FinInv'
  <1> DEFINE new == [kind |-> "work", rec |-> r, actor |-> h, act |-> 0, shown |-> None,
                     base |-> Basis(view, r, "resolve"), registry |-> Current]
  <1>1. /\ job[p] = Idle /\ Spend("open") /\ Current # NoRegister /\ ~Pair(view, r, Cases).sha.open
        /\ job' = [job EXCEPT ![p] = new] /\ UNCHANGED <<view, head, holder>>
    BY DEF OpenWork
  <1>2. DOMAIN job = Processes /\ SessionsAreOver(view, left) /\ holder # p
    BY <1>1, InvParts, IdleIs, FreeWhenIdle
  <1>3. DOMAIN job' = Processes /\ job'[p] = new /\ \A q \in Processes \ {p} : job'[q] = job[q]
    BY <1>1, <1>2
  <1>4. Fewer(left, left')
    BY <1>1, <1>2, SpendIs
  <1>5. DOMAIN new.base = Inputs("resolve") /\ new.base[Cases] = Pair(view, r, Cases)
    BY RolesOf DEF Basis
  <1>6. /\ DOMAIN new = {"kind", "rec", "actor", "act", "shown", "base", "registry"}
        /\ new.kind = "work" /\ new.rec = r /\ new.act = 0 /\ new.registry = Current
    OBVIOUS
  <1> HIDE DEF new
  <1>7. WorkOK(view, new) /\ ~Holds(new)
    BY <1>1, <1>5, <1>6 DEF WorkOK, Holds
  <1>8. JobOK(view, left', new)
    BY <1>6, <1>7 DEF JobOK
  <1> QED
    BY <1>1, <1>2, <1>3, <1>4, <1>7, <1>8, InsideStep

LEMMA ShowStep == ASSUME FinInv, NEW p \in Processes, Show(p) PROVE FinInv'
  <1> DEFINE w == job[p]
             shown == Basis(view, w.rec, "review")
  <1>1. /\ w.kind = "work" /\ w.act = 0 /\ job' = [job EXCEPT ![p].shown = shown]
        /\ UNCHANGED <<view, policy, head, holder, left>>
    BY DEF Show
  <1>2. DOMAIN job = Processes /\ Fewer(left, left') /\ ~Holds(w) /\ holder # p /\ JobOK(view, left, w)
    BY <1>1, InvParts, FreeWhenIdle DEF Holds
  <1>3. WorkOK(view, w)
    BY <1>1, <1>2, KindIs
  <1> HIDE DEF shown
  <1>4. /\ DOMAIN job' = Processes /\ \A q \in Processes \ {p} : job'[q] = job[q]
        /\ job'[p] = [w EXCEPT !.shown = shown]
    BY <1>1, <1>2
  <1>5. /\ DOMAIN job'[p] = DOMAIN w /\ job'[p].kind = "work" /\ job'[p].rec = w.rec /\ job'[p].act = 0
        /\ job'[p].base = w.base /\ job'[p].registry = w.registry
    BY <1>1, <1>3, <1>4 DEF WorkOK
  <1> HIDE DEF w
  <1>6. JobOK(view, left', job'[p]) /\ ~Holds(job'[p])
    <2>1. WorkOK(view, job'[p])
      BY <1>1, <1>3, <1>5 DEF WorkOK
    <2> QED
      BY <1>5, <2>1 DEF JobOK, Holds
  <1> QED
    BY <1>1, <1>2, <1>4, <1>6, InsideStep

(* commit, up to the record that the act is prepared: what was checked     *)
(* under the locks is what the plan says.                                  *)
LEMMA MayCommitIs ==
    ASSUME FinInv, NEW p \in Processes, MayCommit(p)
    PROVE  LET w == job[p]
           IN  /\ w.kind = "work" /\ w.act = 0 /\ holder = None /\ Fewer(left, left')
               /\ WorkOK(view, w) /\ w.rec \in Records
               /\ w.actor \in view.active /\ ~Withdrawn(view, w.rec)
               /\ StandsOn(view, w.rec, "resolve", w.base)
               /\ Current = w.registry /\ head = Current /\ w.registry # NoRegister
               /\ ~w.base[Cases].sha.open /\ ~Pair(view, w.rec, Cases).sha.open
  <1> DEFINE w == job[p]
  <1>1. /\ w.kind = "work" /\ w.act = 0 /\ holder = None /\ Spend("act") /\ WorkStands(w)
    BY DEF MayCommit
  <1>2. WorkOK(view, w) /\ Fewer(left, left')
    BY <1>1, InvParts, KindIs, SpendIs
  <1>3. /\ w.actor \in view.active /\ ~Withdrawn(view, w.rec)
        /\ StandsOn(view, w.rec, "resolve", w.base) /\ head = Current /\ Current = w.registry
    BY <1>1 DEF WorkStands, MaySnapshot, Unblocked
  <1>4. w.rec \in Records /\ w.registry # NoRegister /\ ~w.base[Cases].sha.open
    BY <1>2 DEF WorkOK
  <1>5. w.base[Cases] = Pair(view, w.rec, Cases)
    BY <1>3, RolesOf DEF StandsOn, Basis
  <1> QED
    BY <1>1, <1>2, <1>3, <1>4, <1>5

LEMMA PrepareStep ==
    ASSUME FinInv, NEW p \in Processes, MayCommit(p), NEW phase \in P4c, NEW basis, NEW after, NEW made,
           StandsOn(view, job[p].rec, phase, basis), ~basis[Cases].sha.open,
           phase \in {"resolve", "review"} => after = job[p].registry,
           phase = "review" => Approved(view, job[p].rec),
           phase = "finalise" =>
             /\ after = Allocate(job[p].registry, job[p].rec, after.res[job[p].rec], Len(view.plans) + 1)
             /\ basis[Resolution] = Pair(view, job[p].rec, Resolution)
             /\ Acts(view, job[p].rec, "resolve") # {}
             /\ after.res[job[p].rec] = Published(view, job[p].rec, "resolve").made,
           Prepare(p, phase, basis, after, made)
    PROVE  FinInv'
  <1> DEFINE w == job[p]
             plan == [rec |-> w.rec, phase |-> phase, basis |-> basis, actor |-> w.actor,
                      checkpoint |-> Unsaved, before |-> w.registry, after |-> after,
                      made |-> made, at |-> 0]
             i == Len(view'.plans)
  <1>1. /\ view' = Prepared(view, plan) /\ holder' = p /\ job' = [job EXCEPT ![p].act = Len(view'.plans)]
        /\ UNCHANGED <<policy, head>>
    BY DEF Prepare
  <1>2. /\ w.kind = "work" /\ w.act = 0 /\ holder = None /\ Fewer(left, left')
        /\ WorkOK(view, w) /\ w.rec \in Records
        /\ w.actor \in view.active /\ ~Withdrawn(view, w.rec)
        /\ Current = w.registry /\ w.registry # NoRegister
    BY MayCommitIs
  <1>3. /\ Sound(view) /\ SessionsAreOver(view, left) /\ DOMAIN job = Processes
    BY <1>1, InvParts
  <1>4. phase \notin P4b
    BY RolesDiffer
  <1>5. /\ DOMAIN plan = PlanFields /\ plan.rec = w.rec /\ plan.phase = phase /\ plan.basis = basis
        /\ plan.actor = w.actor /\ plan.before = w.registry /\ plan.after = after
    BY DEF PlanFields
  <1> HIDE DEF plan, i
  <1>6. /\ Sound(view') /\ Grows(view, view') /\ view'.checkpoint = view.checkpoint /\ HeadIsExplained'
        /\ i # 0 /\ i \in DOMAIN view'.plans /\ view'.plans[i].phase = plan.phase
        /\ view'.plans[i].rec = plan.rec /\ Believed(view', i)
        /\ \A r \in Records : Approved(view, r) => Approved(view', r)
    BY <1>1, <1>2, <1>4, <1>5, PreparationHolds DEF i
  <1>7. /\ DOMAIN job' = Processes /\ \A q \in Processes \ {p} : job'[q] = job[q]
        /\ job'[p] = [w EXCEPT !.act = i]
    BY <1>1, <1>3 DEF i
  <1>8. /\ DOMAIN job'[p] = DOMAIN w /\ job'[p].act = i /\ job'[p].kind = "work" /\ job'[p].rec = w.rec
        /\ job'[p].base = w.base /\ job'[p].registry = w.registry
    BY <1>2, <1>7 DEF WorkOK
  <1>9. JobOK(view', left', job'[p]) /\ Holds(job'[p])
    <2>1. phase = "review" => Approved(view', w.rec)
      BY <1>2, <1>6
    <2> HIDE DEF w
    <2>2. WorkOK(view', job'[p])
      BY <1>2, <1>5, <1>6, <1>8, <2>1 DEF WorkOK
    <2> QED
      BY <1>6, <1>8, <2>2 DEF JobOK, Holds
  <1>10. SessionsAreOver(view', left')
    BY <1>2, <1>3, <1>6, SessionsFollow
  <1> QED
    BY <1>1, <1>2, <1>6, <1>7, <1>9, <1>10, StepOf

LEMMA AcceptResolutionStep == ASSUME FinInv, NEW p \in Processes, AcceptResolution(p) PROVE FinInv'
  <1> DEFINE w == job[p]
  <1>1. MayCommit(p)
    BY DEF AcceptResolution
  <1>2. StandsOn(view, w.rec, "resolve", w.base) /\ ~w.base[Cases].sha.open
    BY <1>1, MayCommitIs
  <1>3. PICK entity : Prepare(p, "resolve", w.base, w.registry, [act |-> NewOp, entity |-> entity])
    BY Zenon DEF AcceptResolution
  <1> DEFINE made == [act |-> NewOp, entity |-> entity]
  <1>4. Prepare(p, "resolve", w.base, w.registry, made)
    BY <1>3
  <1>5. "resolve" \in P4c /\ "resolve" # "review" /\ "resolve" # "finalise"
    BY DEF P4c
  <1> HIDE DEF w, made
  <1> QED
    BY <1>1, <1>2, <1>4, <1>5, PrepareStep DEF w

LEMMA FinaliseStep == ASSUME FinInv, NEW p \in Processes, Finalise(p) PROVE FinInv'
  <1> DEFINE w == job[p]
             resolution == Published(view, w.rec, "resolve").made
             after == Allocate(Current, w.rec, resolution, NewOp)
             basis == Basis(view, w.rec, "finalise")
             made == Rendered(w.base[Text].sha, resolution, after)
  <1>1. /\ MayCommit(p) /\ Answered(w.rec) /\ HasBasis(view, w.rec, "finalise")
        /\ Prepare(p, "finalise", basis, after, made)
    BY DEF Finalise
  <1>2. /\ Current = w.registry /\ w.registry # NoRegister /\ w.rec \in Records
        /\ ~Pair(view, w.rec, Cases).sha.open
    BY <1>1, MayCommitIs
  <1>3. IsRegister(Current)
    <2>1. RegistersGrow(view)
      BY InvParts DEF Sound
    <2>2. Current \in Ever(view)
      BY <1>2 DEF Ever, Current
    <2> QED
      BY <2>1, <2>2 DEF RegistersGrow
  <1>4. after.res[w.rec] = resolution
    BY <1>2, <1>3, AllocatedIs
  <1>5. StandsOn(view, w.rec, "finalise", basis)
    BY <1>1 DEF StandsOn
  <1>6. basis[Cases] = Pair(view, w.rec, Cases) /\ basis[Resolution] = Pair(view, w.rec, Resolution)
    BY RolesOf DEF Basis
  <1>7. Acts(view, w.rec, "resolve") # {}
    BY <1>1 DEF Answered
  <1>8. after = Allocate(w.registry, w.rec, after.res[w.rec], Len(view.plans) + 1)
    <2>1. after = Allocate(Current, w.rec, resolution, Len(view.plans) + 1)
      BY DEF NewOp
    <2> HIDE DEF after, resolution
    <2> QED
      BY <1>2, <1>4, <2>1
  <1>9. "finalise" \in P4c /\ "finalise" \notin {"resolve", "review"}
    BY DEF P4c
  <1>10. after.res[w.rec] = Published(view, w.rec, "resolve").made
    BY <1>4
  <1> HIDE DEF after, resolution, basis, made
  <1> QED
    BY <1>1, <1>2, <1>5, <1>6, <1>7, <1>8, <1>9, <1>10, PrepareStep

LEMMA AcceptTextStep == ASSUME FinInv, NEW p \in Processes, AcceptText(p) PROVE FinInv'
  <1> DEFINE w == job[p]
             made == [of |-> Gate, act |-> NewOp]
  <1>1. /\ MayCommit(p) /\ StandsOn(view, w.rec, "review", w.shown) /\ PackageStands(w.rec)
        /\ Prepare(p, "review", w.shown, w.registry, made)
    BY DEF AcceptText
  <1>2. w.rec \in Records /\ ~Pair(view, w.rec, Cases).sha.open /\ Sound(view)
    BY <1>1, MayCommitIs, InvParts
  <1>3. Approved(view, w.rec)
    BY <1>1, <1>2, PackageIsApproved
  <1>4. w.shown[Cases] = Pair(view, w.rec, Cases)
    BY <1>1, RolesOf DEF StandsOn, Basis
  <1>5. "review" \in P4c /\ "review" # "finalise"
    BY DEF P4c
  <1> HIDE DEF made
  <1> QED
    BY <1>1, <1>2, <1>3, <1>4, <1>5, PrepareStep

LEMMA WorkingIs ==
    ASSUME FinInv, NEW p \in Processes, job[p].kind = "work", job[p].act # 0
    PROVE  LET i == job[p].act
           IN  /\ i \in DOMAIN view.plans /\ view.plans[i].phase \in P4c /\ Believed(view, i)
               /\ view.plans[i].before = Current /\ i \notin view.done \cup view.aborted /\ Holds(job[p])
               /\ view.plans[i].phase = "review" => Approved(view, view.plans[i].rec)
  <1>1. WorkOK(view, job[p])
    BY InvParts, KindIs
  <1> QED
    BY <1>1 DEF WorkOK, Believed, Current, Holds

LEMMA MoveHeadStep == ASSUME FinInv, NEW p \in Processes, MoveHead(p) PROVE FinInv'
  <1> DEFINE i == job[p].act
  <1>1. job[p].kind = "work" /\ i # 0 /\ head' = view.plans[i].after /\ UNCHANGED <<view, holder, job, left>>
    BY DEF MoveHead
  <1>2. /\ i \in DOMAIN view.plans /\ view.plans[i].phase \in P4c
        /\ view.plans[i].before = Current /\ i \notin view.done \cup view.aborted
    BY <1>1, WorkingIs
  <1> HIDE DEF i
  <1>3. HeadIsPending'
    BY <1>1, <1>2 DEF HeadIsPending, Current
  <1> QED
    BY <1>1, <1>3, HeadStep DEF HeadIsExplained

LEMMA CompleteWorkStep == ASSUME FinInv, NEW p \in Processes, CompleteWork(p) PROVE FinInv'
  <1> DEFINE i == job[p].act
  <1>1. /\ job[p].kind = "work" /\ i # 0 /\ head = view.plans[i].after
        /\ view' = Completed(view, i) /\ Done(p) /\ head' = head
    BY DEF CompleteWork, Done
  <1>2. /\ i \in DOMAIN view.plans /\ Believed(view, i) /\ Holds(job[p])
        /\ view.plans[i].phase = "review" => Approved(view, view.plans[i].rec)
    BY <1>1, WorkingIs
  <1> HIDE DEF i
  <1>3. Sound(view') /\ Grows(view, view') /\ view'.checkpoint = view.checkpoint /\ HeadIsExplained'
    BY <1>1, <1>2, CompletionHolds
  <1> QED
    BY <1>1, <1>2, <1>3, IdleAfter

LEMMA LeaveWorkStep == ASSUME FinInv, NEW p \in Processes, LeaveWork(p) PROVE FinInv'
  <1>1. job[p].kind = "work" /\ job[p].act # 0 /\ view' = PolicySeen(view, policy) /\ Done(p) /\ head' = head
    BY DEF LeaveWork, Done
  <1>2. Sound(view) /\ Sorted(view) /\ HeadIsExplained /\ Holds(job[p])
    BY <1>1, InvParts DEF Holds
  <1>3. Sound(view') /\ Aside(view, view')
    BY <1>1, <1>2, PolicySeenSound, PolicySeenAside
  <1>4. Grows(view, view') /\ view'.checkpoint = view.checkpoint /\ HeadIsExplained'
    BY <1>1, <1>2, <1>3, AsideGrows, AsideHead DEF Aside
  <1> QED
    BY <1>1, <1>2, <1>3, <1>4, IdleAfter

-----------------------------------------------------------------------------
(* The steps of the recovery.                                              *)
LEMMA TakeUpStep ==
    ASSUME FinInv, NEW p \in Processes, NEW r \in Records, NEW h, TakeUp(p, r, h)
    PROVE  FinInv'
  <1> DEFINE new == [kind |-> "recovery", rec |-> r, actor |-> h, act |-> FirstOpen(view, r, P4c)]
  <1>1. /\ job[p] = Idle /\ holder = None /\ Open(view, r, P4c) # {} /\ Unblocked(r) /\ Spend("recover")
        /\ holder' = p /\ job' = [job EXCEPT ![p] = new] /\ view' = view /\ head' = head
    BY DEF TakeUp
  <1>2. /\ Sound(view) /\ Sorted(view) /\ SessionsAreOver(view, left) /\ DOMAIN job = Processes
        /\ HeadIsExplained
    BY <1>1, InvParts
  <1>3. DOMAIN job' = Processes /\ job'[p] = new /\ \A q \in Processes \ {p} : job'[q] = job[q]
    BY <1>1, <1>2
  <1>4. Fewer(left, left')
    BY <1>1, <1>2, SpendIs
  <1>5. FirstOpen(view, r, P4c) \in Open(view, r, P4c) /\ ~Withdrawn(view, r)
    BY <1>1, <1>2, FirstOpenIs DEF Unblocked
  <1>6. JobOK(view', left', new) /\ Holds(new)
    BY <1>1, <1>5 DEF JobOK, RecoveryOK, Holds
  <1>7. HeadIsExplained'
    BY <1>1, <1>2, AsideHead
  <1>8. Grows(view, view') /\ SessionsAreOver(view', left')
    <2>1. view'.checkpoint = view.checkpoint
      BY <1>1
    <2> QED
      BY <1>1, <1>2, <1>4, <2>1, SessionsFollow DEF Grows
  <1> QED
    BY <1>1, <1>2, <1>3, <1>4, <1>6, <1>7, <1>8, StepOf

LEMMA RecoveringIs ==
    ASSUME FinInv, NEW p \in Processes, Recovering(p)
    PROVE  LET w == job[p]
               i == w.act
           IN  /\ w.kind = "recovery" /\ Holds(w) /\ w.rec \in Records /\ ~Withdrawn(view, w.rec)
               /\ i \in DOMAIN view.plans /\ view.plans[i].rec = w.rec /\ view.plans[i].phase \in P4c
               /\ i \notin view.done \cup view.aborted
  <1>1. job[p].kind = "recovery"
    BY DEF Recovering
  <1>2. RecoveryOK(view, job[p])
    BY <1>1, InvParts, KindIs
  <1> QED
    BY <1>1, <1>2 DEF RecoveryOK, Open, Holds

(* What recovery finds not to be stale and computes again is believed.     *)
LEMMA RecoverableIs ==
    ASSUME FinInv, NEW p \in Processes, Recovering(p), ~ActIsStale(job[p])
    PROVE  LET w == job[p]
               i == w.act
           IN  /\ Believed(view, i) /\ view.plans[i].before = Current
               /\ PlanIsSound(w) /\ view.plans[i].phase = "review" => Approved(view, w.rec)
  <1> DEFINE w == job[p]
             i == w.act
             act == view.plans[i]
  <1>1. /\ w.rec \in Records /\ ~Withdrawn(view, w.rec) /\ i \in DOMAIN view.plans /\ act.rec = w.rec
        /\ act.phase \in P4c /\ i \notin view.done \cup view.aborted
    BY RecoveringIs
  <1>2. /\ Current = act.before /\ StandsOn(view, w.rec, act.phase, act.basis)
        /\ act.actor \in view.active
    BY DEF ActIsStale
  <1>3. Sound(view) /\ view.findings = {} /\ WellMade(view, i)
    BY <1>1, InvParts DEF Sound
  <1>4. act.phase \notin P4b
    BY <1>1, RolesDiffer
  <1>5. Believed(view, i)
    BY <1>1, <1>2, <1>3, <1>4 DEF Believed, Current
  <1>6. ASSUME PlanIsSound(w), act.phase = "review" PROVE Approved(view, w.rec)
    <2>1. PackageStands(w.rec)
      BY <1>6 DEF PlanIsSound
    <2>2. ~act.basis[Cases].sha.open
      BY <1>1, <1>3 DEF WellMade
    <2>3. act.basis[Cases] = Pair(view, w.rec, Cases)
      BY <1>2, <1>6, RolesOf DEF StandsOn, Basis
    <2> QED
      BY <1>1, <1>3, <2>1, <2>2, <2>3, PackageIsApproved
  <1> QED
    BY <1>2, <1>5, <1>6

LEMMA PutHeadBackStep == ASSUME FinInv, NEW p \in Processes, PutHeadBack(p) PROVE FinInv'
  <1>1. head' = Current /\ UNCHANGED <<view, holder, job, left>>
    BY DEF PutHeadBack
  <1>2. HeadIsExplained'
    BY <1>1 DEF HeadIsExplained, Current
  <1> QED
    BY <1>1, <1>2, HeadStep

LEMMA AbortStep == ASSUME FinInv, NEW p \in Processes, Abort(p) PROVE FinInv'
  <1> DEFINE i == job[p].act
  <1>1. /\ Recovering(p) /\ (head = Current \/ head # view.plans[i].after)
        /\ view' = Aborted(view, i) /\ Done(p) /\ head' = head
    BY DEF Abort, Done
  <1>2. i \in DOMAIN view.plans /\ Holds(job[p]) /\ Sound(view) /\ Sorted(view) /\ HeadIsExplained
    BY <1>1, RecoveringIs, InvParts
  <1> HIDE DEF i
  <1>3. Sound(view')
    BY <1>1, <1>2, AbortedSound
  <1>4. Keeps(view, view', {"n", "aborted"}) /\ view'.aborted = view.aborted \cup {i}
    BY <1>1, <1>2, AbortedIs
  <1>5. /\ view'.plans = view.plans /\ view'.done = view.done /\ view'.initial = view.initial
        /\ view'.checkpoint = view.checkpoint /\ view'.sources = view.sources
    BY <1>4 DEF Keeps, Fields
  <1>6. HeadIsExplained'
    <2>1. CASE head = Current
      BY <1>1, <1>5, <2>1 DEF HeadIsExplained, Current
    <2>2. CASE head # view.plans[i].after
      BY <1>1, <1>2, <1>4, <1>5, <2>2, HeadStays
    <2> QED
      BY <1>1, <2>1, <2>2
  <1> QED
    BY <1>1, <1>2, <1>3, <1>5, <1>6, IdleAfter DEF Grows

LEMMA RecoverHeadStep == ASSUME FinInv, NEW p \in Processes, RecoverHead(p) PROVE FinInv'
  <1> DEFINE i == job[p].act
  <1>1. /\ Recovering(p) /\ ~ActIsStale(job[p]) /\ head' = view.plans[i].after
        /\ UNCHANGED <<view, holder, job, left>>
    BY DEF RecoverHead
  <1>2. /\ i \in DOMAIN view.plans /\ view.plans[i].phase \in P4c
        /\ view.plans[i].before = Current /\ i \notin view.done \cup view.aborted
    BY <1>1, RecoveringIs, RecoverableIs
  <1> HIDE DEF i
  <1>3. HeadIsPending'
    BY <1>1, <1>2 DEF HeadIsPending, Current
  <1> QED
    BY <1>1, <1>3, HeadStep DEF HeadIsExplained

LEMMA RecoverCompleteStep == ASSUME FinInv, NEW p \in Processes, RecoverComplete(p) PROVE FinInv'
  <1> DEFINE i == job[p].act
  <1>1. /\ Recovering(p) /\ ~ActIsStale(job[p]) /\ PlanIsSound(job[p])
        /\ view.plans[i].after # Current => head = view.plans[i].after
        /\ view' = Completed(view, i) /\ Done(p) /\ head' = head
    BY DEF RecoverComplete, Done
  <1>2. /\ i \in DOMAIN view.plans /\ Holds(job[p]) /\ view.plans[i].rec = job[p].rec /\ Believed(view, i)
        /\ view.plans[i].phase = "review" => Approved(view, view.plans[i].rec)
    BY <1>1, RecoveringIs, RecoverableIs
  <1> HIDE DEF i
  <1>3. Sound(view') /\ Grows(view, view') /\ view'.checkpoint = view.checkpoint /\ HeadIsExplained'
    BY <1>1, <1>2, CompletionHolds
  <1> QED
    BY <1>1, <1>2, <1>3, IdleAfter

LEMMA GiveUpStep == ASSUME FinInv, NEW p \in Processes, GiveUp(p) PROVE FinInv'
  <1>1. Recovering(p) /\ (view' = view \/ view' = PolicySeen(view, policy)) /\ Done(p) /\ head' = head
    BY DEF GiveUp, Done
  <1>2. Sound(view) /\ Sorted(view) /\ HeadIsExplained /\ Holds(job[p])
    BY <1>1, InvParts, RecoveringIs
  <1>3. Sound(view') /\ (view' = view \/ Aside(view, view'))
    BY <1>1, <1>2, PolicySeenSound, PolicySeenAside
  <1>4. Grows(view, view') /\ view'.checkpoint = view.checkpoint
    BY <1>3, AsideGrows DEF Aside, Grows
  <1>5. HeadIsExplained'
    BY <1>1, <1>2, <1>3, AsideHead
  <1> QED
    BY <1>1, <1>2, <1>3, <1>4, <1>5, IdleAfter

LEMMA WorkStep == ASSUME FinInv, WorkNext PROVE FinInv'
  <1>1. ASSUME NEW p \in Processes, NEW r \in Records, NEW h \in Humans, OpenWork(p, r, h) \/ TakeUp(p, r, h)
        PROVE  FinInv'
    BY <1>1, OpenWorkStep, TakeUpStep
  <1>2. ASSUME NEW p \in Processes, TakeInit(p) \/ InitHead(p) \/ InitComplete(p) PROVE FinInv'
    BY <1>2, TakeInitStep, InitHeadStep, InitCompleteStep
  <1>3. ASSUME NEW p \in Processes, AcceptResolution(p) \/ Finalise(p) \/ Show(p) \/ AcceptText(p) PROVE FinInv'
    BY <1>3, AcceptResolutionStep, FinaliseStep, ShowStep, AcceptTextStep
  <1>4. ASSUME NEW p \in Processes, MoveHead(p) \/ CompleteWork(p) \/ LeaveWork(p) PROVE FinInv'
    BY <1>4, MoveHeadStep, CompleteWorkStep, LeaveWorkStep
  <1>5. ASSUME NEW p \in Processes, PutHeadBack(p) \/ Abort(p) PROVE FinInv'
    BY <1>5, PutHeadBackStep, AbortStep
  <1>6. ASSUME NEW p \in Processes, RecoverHead(p) \/ RecoverComplete(p) \/ GiveUp(p) PROVE FinInv'
    BY <1>6, RecoverHeadStep, RecoverCompleteStep, GiveUpStep
  <1> QED
    BY <1>1, <1>2, <1>3, <1>4, <1>5, <1>6, Zenon DEF WorkNext

LEMMA NoStep == ASSUME FinInv, UNCHANGED vars PROVE FinInv'
  <1>1. UNCHANGED <<view, holder, job, left>> /\ head' = head
    BY DEF vars
  <1>2. HeadIsExplained'
    BY <1>1, InvParts, AsideHead
  <1> QED
    BY <1>1, <1>2, HeadStep

LEMMA InitInv == ASSUME Init PROVE FinInv
  <1>1. PICK s \in Scenarios :
          /\ view = s.view /\ head = s.view.sources[Registry].sha /\ left = s.left
          /\ holder = None /\ job = [p \in Processes |-> Idle]
    BY DEF Init
  <1>2. Sound(view) /\ SessionsAreOver(view, left)
    BY <1>1, FinalisationAssumption
  <1>3. HeadIsExplained
    BY <1>1 DEF HeadIsExplained, Current
  <1>4. OneHolder
    <2>1. \A p \in Processes : job[p] = Idle
      BY <1>1
    <2> QED
      BY <1>1, <2>1, IdleIs, FinalisationAssumption DEF OneHolder
  <1>5. JobsOK
    BY <1>1, IdleIs DEF JobsOK
  <1> QED
    BY <1>2, <1>3, <1>4, <1>5 DEF FinInv

-----------------------------------------------------------------------------
(* The results.                                                            *)

(* At every moment the journal is Sound, one process at most holds the     *)
(* locks, what it has prepared there is still believed, and nobody else    *)
(* holds more than what the commands check again under the locks           *)
(* (Work._recheck, Session._recheck, validate_prepared).                   *)
THEOREM FinalisationInvariant == Spec => []FinInv
  <1>1. Init => FinInv
    BY InitInv
  <1>2. FinInv /\ [Next]_vars => FinInv'
    BY ManualStep, WorkStep, NoStep DEF Next
  <1> QED
    BY <1>1, <1>2, PTL DEF Spec

(* No command of the manual work or of the finalisation, whatever was      *)
(* interrupted or happened in between, writes an event that the fold       *)
(* refuses and that would stop its record for good (expand,                *)
(* Expansion.consume).                                                     *)
THEOREM NothingIsRejected == Spec => []NothingRejected
  <1>1. FinInv => NothingRejected
    BY DEF FinInv, Sound, NothingRejected
  <1> QED
    BY <1>1, FinalisationInvariant, PTL

(* The head of the register's store is what the journal proves, or what an *)
(* act that has not ended makes of it, or the register that is being made: *)
(* current never has to refuse the head as foreign or rolled back.         *)
THEOREM HeadIsAlwaysExplained == Spec => []HeadIsExplained
  <1>1. FinInv => HeadIsExplained
    BY DEF FinInv
  <1> QED
    BY <1>1, FinalisationInvariant, PTL

LEMMA SoundNames == ASSUME Sound(view) PROVE NamesAreStable
  <1> DEFINE current == view.sources[Registry].sha
  <1>1. Counted \subseteq Afters(view) /\ Afters(view) \subseteq Ever(view)
    BY DEF Counted, Afters, Ever, P4c
  <1>2. RegistersGrow(view)
    BY DEF Sound
  <1>3. ASSUME NEW a \in Counted
        PROVE  /\ a \in Ever(view) /\ current \in Ever(view)
               /\ DOMAIN a.names \subseteq DOMAIN current.names
               /\ \A e \in DOMAIN a.names : a.names[e] = current.names[e]
    <2>1. a \in Ever(view) /\ a \in Afters(view)
      BY <1>1
    <2>2. current # NoRegister
      BY <1>2, <2>1 DEF RegistersGrow
    <2>3. current \in Ever(view)
      BY <2>2 DEF Ever
    <2> QED
      BY <1>2, <2>1, <2>3 DEF RegistersGrow
  <1>4. ASSUME NEW a \in Counted, NEW b \in Counted
        PROVE  /\ a.version <= b.version => DOMAIN a.names \subseteq DOMAIN b.names
               /\ \A x \in DOMAIN a.names, y \in DOMAIN b.names : (x = y) <=> (a.names[x] = b.names[y])
    <2>1. a.version <= b.version => DOMAIN a.names \subseteq DOMAIN b.names
      BY <1>2, <1>3 DEF RegistersGrow
    <2>2. \A d, e \in DOMAIN current.names : current.names[d] = current.names[e] => d = e
      BY <1>2, <1>3 DEF RegistersGrow, IsRegister
    <2>3. /\ DOMAIN a.names \subseteq DOMAIN current.names /\ DOMAIN b.names \subseteq DOMAIN current.names
          /\ \A e \in DOMAIN a.names : a.names[e] = current.names[e]
          /\ \A e \in DOMAIN b.names : b.names[e] = current.names[e]
      BY <1>3
    <2> HIDE DEF current
    <2>4. \A x \in DOMAIN a.names, y \in DOMAIN b.names : (x = y) <=> (a.names[x] = b.names[y])
      BY <2>2, <2>3
    <2> QED
      BY <2>1, <2>4
  <1> QED
    BY <1>4 DEF NamesAreStable

(* Over all registers that ever counted, of all records, a person has one  *)
(* number, a number one person, and nobody is dropped: pseudonyms are      *)
(* stable (allocate, validate_registry).                                   *)
THEOREM NamesStayStable == Spec => []NamesAreStable
  <1>1. FinInv => NamesAreStable
    BY SoundNames DEF FinInv
  <1> QED
    BY <1>1, FinalisationInvariant, PTL

LEMMA SoundGates == ASSUME Sound(view) PROVE ApprovedIsTrue
  <1> SUFFICES ASSUME NEW r \in Records, Gate \in Have(view, r)
               PROVE  LET named == Published(view, r, "resolve")
                      IN  /\ ~Pair(view, r, Cases).sha.open
                          /\ Answered(r)
                          /\ Current.res[r] = named.made
                          /\ Published(view, r, "finalise").made =
                                 Rendered(Pair(view, r, Text).sha, named.made, Current)
    BY Zenon DEF ApprovedIsTrue
  <1>1. Refers(view, r) /\ Inputs("review") \cap Artefacts \subseteq Have(view, r)
    BY UsableGate
  <1>2. GateIsTrue(view, r)
    BY DEF Sound
  <1>3. Approved(view, r)
    BY <1>1, <1>2 DEF GateIsTrue
  <1>4. HasBasis(view, r, "resolve")
    <2>1. Inputs("resolve") = Base /\ Base \subseteq Inputs("review")
      BY RolesOf
    <2>2. \A role \in Base : Pair(view, r, role).sha \notin {None, NoRegister}
      BY <1>3 DEF Approved
    <2> QED
      BY <1>1, <2>1, <2>2 DEF HasBasis
  <1>5. Answered(r)
    BY <1>3, <1>4 DEF Approved, Answered
  <1> QED
    BY <1>3, <1>5 DEF Approved, Current

(* A final text that counts as accepted by a human is made from the text   *)
(* confirmed now, from cases none of which is open, with the number which  *)
(* the current register gives the person named for exactly these cases     *)
(* (verify_package, accept_text).                                          *)
THEOREM ApprovedStaysTrue == Spec => []ApprovedIsTrue
  <1>1. FinInv => ApprovedIsTrue
    BY SoundGates DEF FinInv
  <1> QED
    BY <1>1, FinalisationInvariant, PTL

(* Only a session that saves changes a checkpoint.                         *)
LEMMA CheckpointsRemain ==
    ASSUME NEW v, Sorted(v)
    PROVE  /\ \A sha : PolicySeen(v, sha).checkpoint = v.checkpoint
           /\ \A r, sha : TextConfirmed(v, r, sha).checkpoint = v.checkpoint
           /\ \A h : Retired(v, h).checkpoint = v.checkpoint
           /\ \A r, a, verdict : Decided(v, r, a, verdict).checkpoint = v.checkpoint
           /\ \A p : Prepared(v, p).checkpoint = v.checkpoint
           /\ \A i : Aborted(v, i).checkpoint = v.checkpoint
           /\ \A i : Completed(v, i).checkpoint = v.checkpoint
           /\ \A ref : InitPrepared(v, ref).checkpoint = v.checkpoint
           /\ Initialised(v).checkpoint = v.checkpoint
  <1>1. "checkpoint" \in DOMAIN v
    BY FieldsOf DEF Fields
  <1>2. \A r : Rejected(v, r).checkpoint = v.checkpoint
    BY <1>1 DEF Rejected
  <1>3. \A sha : PolicySeen(v, sha).checkpoint = v.checkpoint
    BY <1>1 DEF PolicySeen
  <1>4. \A r, sha : TextConfirmed(v, r, sha).checkpoint = v.checkpoint
    BY <1>1 DEF TextConfirmed
  <1>5. \A h : Retired(v, h).checkpoint = v.checkpoint
    BY <1>1 DEF Retired
  <1>6. \A r, a, verdict : Decided(v, r, a, verdict).checkpoint = v.checkpoint
    BY <1>1 DEF Decided
  <1>7. \A p : Prepared(v, p).checkpoint = v.checkpoint
    BY <1>1, <1>2 DEF Prepared
  <1>8. \A i : Aborted(v, i).checkpoint = v.checkpoint
    BY <1>1 DEF Aborted
  <1>9. ASSUME NEW i PROVE Completed(v, i).checkpoint = v.checkpoint
    <2> DEFINE p == v.plans[i]
               u == [v EXCEPT !.n = @ + 1, !.done = @ \cup {i},
                              !.sources[Registry] =
                                  IF p.phase \in P4c /\ p.after # @.sha THEN [sha |-> p.after, at |-> p.at] ELSE @]
               a == Made(p.phase)
               f == v.facts[p.rec][a]
               refs == [role \in DOMAIN p.basis |-> IF role = Registry THEN p.after ELSE p.basis[role].sha]
    <2>1. "checkpoint" \in DOMAIN u /\ u.checkpoint = v.checkpoint
      BY <1>1
    <2>2. \/ Completed(v, i) = Rejected(v, p.rec)
          \/ Completed(v, i) = [u EXCEPT !.own[p.rec][Resolution] = [sha |-> p.made, at |-> u.n]]
          \/ Completed(v, i) = [u EXCEPT !.facts[p.rec][a] =
                 [f EXCEPT !.sha = p.made, !.refs = refs, !.at = u.n,
                           !.verdict = IF a \in Human THEN "ACCEPT" ELSE f.verdict]]
      BY Zenon DEF Completed
    <2> HIDE DEF u, f, a, refs
    <2> QED
      BY <1>2, <2>1, <2>2
  <1>10. \A ref : InitPrepared(v, ref).checkpoint = v.checkpoint
    BY <1>1, <1>2 DEF InitPrepared
  <1>11. Initialised(v).checkpoint = v.checkpoint
    BY <1>1, <1>2 DEF Initialised
  <1> QED
    BY <1>3, <1>4, <1>5, <1>6, <1>7, <1>8, <1>9, <1>10, <1>11

LEMMA OnlySavesCheckpoint ==
    ASSUME FinInv, Next
    PROVE  view'.checkpoint = view.checkpoint \/ \E p \in Processes, open \in BOOLEAN : Save(p, open)
  <1>1. Sorted(view)
    BY InvParts
  <1> DEFINE Same == view'.checkpoint = view.checkpoint
  <1>2. CASE Refresh
    BY <1>1, <1>2, CheckpointsRemain DEF Refresh
  <1>3. ASSUME NEW p \in Processes, NEW r \in Records, NEW phase \in P4b, NEW h \in Humans,
               NewSession(p, r, phase, h) \/ Resume(p, r, phase, h)
        PROVE  Same
    BY <1>3 DEF NewSession, Resume
  <1>4. ASSUME NEW p \in Processes, PublishPrepare(p) \/ PublishComplete(p) \/ Close(p) \/ Fail(p) PROVE Same
    <2>1. CASE PublishPrepare(p)
      BY <1>1, <2>1, CheckpointsRemain, ZenonT(40) DEF PublishPrepare
    <2>2. CASE PublishComplete(p)
      BY <1>1, <2>2, CheckpointsRemain, Zenon DEF PublishComplete
    <2>3. CASE Close(p) \/ Fail(p)
      BY <2>3 DEF Close, Fail
    <2> QED
      BY <1>4, <2>1, <2>2, <2>3
  <1>5. ASSUME NEW r \in Records, NEW h \in Humans, RecoverManual(r, h) PROVE Same
    BY <1>1, <1>5, CheckpointsRemain, Zenon DEF RecoverManual
  <1>6. ASSUME NEW x \in Policies, EditPolicy(x) PROVE Same
    BY <1>6 DEF EditPolicy
  <1>7. ASSUME NEW r \in Records, NEW x \in Texts, ConfirmText(r, x) PROVE Same
    BY <1>1, <1>7, CheckpointsRemain DEF ConfirmText
  <1>8. ASSUME NEW r \in Records, NEW a \in Human, Decide(r, a) PROVE Same
    BY <1>1, <1>8, CheckpointsRemain DEF Decide
  <1>9. ASSUME NEW h \in Humans, Retire(h) PROVE Same
    BY <1>1, <1>9, CheckpointsRemain, Zenon DEF Retire
  <1>10. ASSUME NEW p \in Processes, NEW r \in Records, NEW h \in Humans, OpenWork(p, r, h) \/ TakeUp(p, r, h)
         PROVE  Same
    BY <1>10 DEF OpenWork, TakeUp
  <1>11. ASSUME NEW p \in Processes, TakeInit(p) \/ InitHead(p) \/ InitComplete(p) PROVE Same
    BY <1>1, <1>11, CheckpointsRemain DEF TakeInit, InitHead, InitComplete
  <1>12. ASSUME NEW p \in Processes, AcceptResolution(p) \/ Finalise(p) \/ Show(p) \/ AcceptText(p) PROVE Same
    <2>1. ASSUME NEW phase, NEW basis, NEW after, NEW made, Prepare(p, phase, basis, after, made) PROVE Same
      BY <1>1, <2>1, CheckpointsRemain, Zenon DEF Prepare
    <2>2. CASE AcceptResolution(p) \/ Finalise(p) \/ AcceptText(p)
      BY <2>1, <2>2, Zenon DEF AcceptResolution, Finalise, AcceptText
    <2>3. CASE Show(p)
      BY <2>3, Zenon DEF Show
    <2> QED
      BY <1>12, <2>2, <2>3
  <1>13. ASSUME NEW p \in Processes, MoveHead(p) \/ CompleteWork(p) \/ LeaveWork(p) PROVE Same
    BY <1>1, <1>13, CheckpointsRemain DEF MoveHead, CompleteWork, LeaveWork
  <1>14. ASSUME NEW p \in Processes, PutHeadBack(p) \/ Abort(p) PROVE Same
    BY <1>1, <1>14, CheckpointsRemain DEF PutHeadBack, Abort
  <1>15. ASSUME NEW p \in Processes, RecoverHead(p) \/ RecoverComplete(p) \/ GiveUp(p) PROVE Same
    BY <1>1, <1>15, CheckpointsRemain DEF RecoverHead, RecoverComplete, GiveUp
  <1> HIDE DEF Same
  <1>16. CASE ManualNext
    BY <1>2, <1>3, <1>4, <1>5, <1>6, <1>7, <1>8, <1>9, <1>16, Zenon DEF ManualNext, Same
  <1>17. CASE WorkNext
    BY <1>10, <1>11, <1>12, <1>13, <1>14, <1>15, <1>17, Zenon DEF WorkNext, Same
  <1> QED
    BY <1>16, <1>17 DEF Next

(* What is saved over another human's revision: it was completed.          *)
LEMMA SavesOverNobody ==
    ASSUME FinInv, NEW p \in Processes, NEW open, Save(p, open), NEW r \in Records, NEW phase \in P4b,
           LET old == view.checkpoint[r][phase]
               new == view'.checkpoint[r][phase]
           IN  old # Unsaved /\ new # old /\ new.actor # old.actor
    PROVE  CheckpointCompleted(r, phase, view.checkpoint[r][phase])
  <1> DEFINE s == job[p]
             c == [session |-> s.session, revision |-> s.revision + 1, previous |-> s.revision,
                   actor |-> s.actor, basis |-> s.basis, open |-> open]
  <1>1. /\ s.kind = "session" /\ SessionStands(s) /\ view' = Checkpointed(view, s.rec, s.phase, c)
    BY DEF Save
  <1>2. Sorted(view) /\ JobOK(view, left, s)
    BY InvParts
  <1>3. SessionOK(view, left, s)
    BY <1>1, <1>2, KindIs
  <1>4. view.checkpoint[s.rec][s.phase] = s.previous
    BY <1>1 DEF SessionStands
  <1>5. /\ s.rec \in Records /\ s.phase \in P4b
        /\ IF s.previous # Unsaved /\ s.previous.session = s.session
           THEN s.previous.revision = s.revision /\ s.previous.actor = s.actor ELSE s.revision = 0
        /\ s.previous # Unsaved /\ s.previous.actor # s.actor => Confirmed(view, s.rec, s.phase, s.previous)
    BY <1>3 DEF SessionOK
  <1>6. /\ c.session = s.session /\ c.revision = s.revision + 1 /\ c.previous = s.revision /\ c.actor = s.actor
    OBVIOUS
  <1> HIDE DEF s, c
  <1>7. LET prior == view.checkpoint[s.rec][s.phase]
        IN  IF prior # Unsaved /\ prior.session = c.session
            THEN c.previous = prior.revision /\ c.revision = prior.revision + 1 /\ c.actor = prior.actor
            ELSE c.previous = 0 /\ c.revision = 1
    BY <1>4, <1>5, <1>6
  <1>8. /\ \A x \in Records \ {s.rec} : view'.checkpoint[x] = view.checkpoint[x]
        /\ \A x \in P4b \ {s.phase} : view'.checkpoint[s.rec][x] = view.checkpoint[s.rec][x]
        /\ view'.checkpoint[s.rec][s.phase] = c
    BY <1>1, <1>2, <1>5, <1>7, CheckpointedIs, SMTT(30)
  <1>9. r = s.rec /\ phase = s.phase
    BY <1>8
  <1>10. Confirmed(view, r, phase, view.checkpoint[r][phase])
    BY <1>4, <1>5, <1>6, <1>8, <1>9
  <1> QED
    BY <1>10 DEF Confirmed, CheckpointCompleted

(* What one human has saved and not yet published is never replaced by     *)
(* another human's session, however the sessions and the commands of both  *)
(* interleave (Session.__init__, Session._recheck).                        *)
THEOREM NobodyIsTakenOver == Spec => NoSilentTakeover
  <1> DEFINE Kept == \A r \in Records, phase \in P4b :
                       LET old == view.checkpoint[r][phase]
                           new == view'.checkpoint[r][phase]
                       IN  old # Unsaved /\ new # old /\ new.actor # old.actor =>
                             CheckpointCompleted(r, phase, old)
  <1>1. FinInv /\ [Next]_vars => [Kept]_vars
    <2> SUFFICES ASSUME FinInv, Next, NEW r \in Records, NEW phase \in P4b,
                        LET old == view.checkpoint[r][phase]
                            new == view'.checkpoint[r][phase]
                        IN  old # Unsaved /\ new # old /\ new.actor # old.actor
                 PROVE  CheckpointCompleted(r, phase, view.checkpoint[r][phase])
      BY Zenon DEF Kept
    <2>1. view'.checkpoint # view.checkpoint
      OBVIOUS
    <2>2. PICK p \in Processes, open \in BOOLEAN : Save(p, open)
      BY <2>1, OnlySavesCheckpoint
    <2> QED
      BY <2>2, SavesOverNobody
  <1> HIDE DEF Kept
  <1>2. Spec => [][Kept]_vars
    BY <1>1, FinalisationInvariant, PTL DEF Spec
  <1>3. [Kept]_vars <=> [\A r \in Records, phase \in P4b :
                           LET old == view.checkpoint[r][phase]
                               new == view'.checkpoint[r][phase]
                           IN  old # Unsaved /\ new # old /\ new.actor # old.actor =>
                                 CheckpointCompleted(r, phase, old)]_vars
    BY Zenon DEF Kept
  <1> QED
    BY <1>2, <1>3, PTL DEF NoSilentTakeover

=============================================================================
