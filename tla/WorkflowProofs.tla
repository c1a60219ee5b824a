--------------------------- MODULE WorkflowProofs ---------------------------
(***************************************************************************)
(* Proofs about the commands on one record, for every chain of steps that  *)
(* have a command, every set of processes, texts and metadata files, and   *)
(* from every journal that is Sound and Sourced.                           *)
(***************************************************************************)
EXTENDS Workflow, WellFoundedInduction, FiniteSetTheorems, SequenceTheorems, TLAPS

-----------------------------------------------------------------------------
(* The inductive invariant: the journal is Sound over a chain that is      *)
(* bound, the last act on an artifact is what the fold made of it, unless  *)
(* a withdrawal or nothing came of it, every command under way has planned *)
(* what its kind plans, and what an export was checked against stays true  *)
(* until it has published.                                                 *)
Linked(c, v, acts, a) ==
    LET f == v.facts[a]
        last == acts[a]
    IN  /\ last.at \in 0..v.n /\ last.time \in Nat
        /\ f.verdict = None => last.at = 0 /\ last.time = 0 /\ last.verdict # "ACCEPT"
        /\ f.verdict = "ACCEPT" => last.verdict = "ACCEPT" /\ last.sha = f.subject /\ last.at = f.decisionSeq
        /\ c.confirms[a] # NoText /\ last.verdict = "ACCEPT" =>
             last.sha.of = a /\ last.sha \in DOMAIN v.accepts /\ last.time <= v.accepts[last.sha]

ActsAreLinked(c, v, acts) ==
    /\ DOMAIN acts = DOMAIN c.kind
    /\ \A a \in DOMAIN c.kind : Linked(c, v, acts, a)
    /\ \A a, b \in DOMAIN c.kind : a # b => acts[a].at = 0 \/ acts[a].at # acts[b].at

(* A model began to run no earlier than the acceptance it appeals to.      *)
RunsFollow(c, v, acts) ==
    \A a, b \in DOMAIN c.kind :
        LET f == v.facts[a]
            last == acts[b]
        IN  KindOf(c, a) = "model" /\ b \in c.roles[a] /\ c.confirms[b] # NoText
            /\ f.receiptFor # None /\ last.verdict = "ACCEPT"
            /\ last.sha = f.receiptInputs[b] /\ last.at <= f.receiptSeq
            => last.time <= f.receiptFor.by

EventsOf(kind) ==
    {"produced", "anchor", "receipt"}
    \cup (IF kind = "gate" THEN {"decision"} ELSE {})
    \cup (IF kind = "export" THEN {"publish"} ELSE {})
    \cup (IF kind = "derive" THEN {"observe"} ELSE {})

Ahead(w, todo) ==
    CASE w.kind = "ingest" -> todo \in {IngestTodo, <<"produced">>}
      [] w.kind = "confirm" -> todo \in {ConfirmTodo, <<"decision", "anchor">>, <<"anchor">>}
      [] OTHER -> todo \in Seq(EventsOf(w.kind)) /\ todo # << >>

(* What a command has planned; c is its chain.                             *)
WorkOK(c, w) ==
    /\ w.artifact \in DOMAIN c.kind /\ w.kind = KindOf(c, w.artifact)
    /\ w.sha.of = w.artifact /\ w.sha.from = w.inputs /\ w.at \in Nat
    /\ w.kind = "model" =>
         w.sha.by = w.at /\ \A b \in c.roles[w.artifact] : c.confirms[b] # NoText => w.under = w.inputs[b]
    /\ w.kind = "ingest" => \E s \in Texts : w.sha = TextOf(s)
    /\ w.kind = "export" => DOMAIN w.inputs = {"release.approved"}

(* The event it is about to write is written under the workspace lock.     *)
UnderLock(j) == j # Idle /\ j.at = "write" /\ Holds(j.work, Head(j.todo))

(* What it found when it took the lock, and what it has written since.     *)
Checked(c, v, w, todo) ==
    /\ w.kind = "ingest" /\ todo = <<"produced">> => v.facts[w.artifact].receiptFor = w.sha
    /\ w.kind = "export" => /\ "release.approved" \in Have(c, v)
                            /\ v.facts["release.approved"].sha = w.inputs["release.approved"]

JobOK(c, v, j) ==
    j # Idle =>
        /\ DOMAIN j = {"at", "work", "todo", "seen", "skip"} /\ j.at \in {"plan", "write", "append"}
        /\ WorkOK(c, j.work) /\ Ahead(j.work, j.todo)
        /\ j.at = "plan" => Holds(j.work, Head(j.todo)) /\ (j.work.kind = "ingest" => j.todo = IngestTodo)
        /\ j.at = "append" => j.work.kind \in {"model", "derive"}
        /\ UnderLock(j) => Checked(c, v, j.work, j.todo)

JobsOK ==
    /\ DOMAIN job = Processes /\ wlock \in Processes \cup {None}
    /\ \A p \in Processes : JobOK(chain, view, job[p]) /\ (wlock = p <=> UnderLock(job[p]))

LeftOK == DOMAIN left = Items \cup {"on"} /\ \A item \in Items : left[item] \in Nat

WorkInv ==
    /\ ChainIsBound(chain) /\ Sound(chain, view)
    /\ ActsAreLinked(chain, view, lastAct) /\ RunsFollow(chain, view, lastAct) /\ JobsOK
    /\ clock \in Nat /\ file \in MetadataInputs \cup {None} /\ LeftOK

-----------------------------------------------------------------------------
(* Induction over a set of numbers, and functions defined by it.           *)

LEMMA LeastExists ==
    ASSUME NEW S \in SUBSET Nat, S # {}
    PROVE  \E m \in S : \A x \in S : m <= x
  <1>1. PICK m \in S : \A x \in S : <<x, m>> \notin OpToRel(<, Nat)
    BY WFMin, NatLessThanWellFounded, Zenon
  <1>2. \A x \in S : ~(x < m)
    BY <1>1, Zenon DEF OpToRel
  <1> QED
    BY <1>2

LEMMA UpTo ==
    ASSUME NEW N \in Nat, NEW S, 0 \in S, \A n \in 0..(N - 1) : n \in S => n + 1 \in S
    PROVE  0..N \subseteq S
  <1> SUFFICES ASSUME (0..N) \ S # {} PROVE FALSE
    OBVIOUS
  <1>1. PICK m \in (0..N) \ S : \A x \in (0..N) \ S : m <= x
    BY LeastExists, (0..N) \ S \subseteq Nat, Zenon
  <1>2. m # 0 /\ m - 1 \in 0..(N - 1)
    BY <1>1
  <1>3. m - 1 \in S
    BY <1>1, <1>2
  <1>4. (m - 1) + 1 \in S
    BY <1>2, <1>3
  <1> QED
    BY <1>1, <1>4

(* A function on 0..N is defined by its value at 0 and by what each number *)
(* makes of the value before.                                              *)
Recursion(f, N, V, a, next) ==
    f \in [0..N -> V] /\ f[0] = a /\ \A n \in 1..N : f[n] = next[n][f[n - 1]]

LEMMA DefinedByRecursion ==
    ASSUME NEW N \in Nat, NEW V, NEW a \in V, NEW next \in [1..N -> [V -> V]]
    PROVE  \E f : Recursion(f, N, V, a, next)
  <1> DEFINE Upto(k) == \E f \in [0..k -> V] : f[0] = a /\ \A n \in 1..k : f[n] = next[n][f[n - 1]]
             S == {k \in 0..N : Upto(k)}
  <1>1. 0 \in S
    <2> DEFINE f == [n \in 0..0 |-> a]
    <2>1. f \in [0..0 -> V] /\ f[0] = a /\ \A n \in 1..0 : f[n] = next[n][f[n - 1]]
      OBVIOUS
    <2> HIDE DEF f
    <2>2. Upto(0)
      BY <2>1
    <2> QED
      BY <2>2
  <1>2. ASSUME NEW k \in 0..(N - 1), k \in S PROVE k + 1 \in S
    <2>1. PICK f \in [0..k -> V] : f[0] = a /\ \A n \in 1..k : f[n] = next[n][f[n - 1]]
      BY <1>2
    <2> DEFINE g == [n \in 0..(k + 1) |-> IF n \in 0..k THEN f[n] ELSE next[k + 1][f[k]]]
    <2>2. next[k + 1][f[k]] \in V
      BY <2>1
    <2>3. g \in [0..(k + 1) -> V] /\ g[0] = a
      BY <2>1, <2>2
    <2>4. \A n \in 1..(k + 1) : g[n] = next[n][g[n - 1]]
      <3> TAKE n \in 1..(k + 1)
      <3>1. CASE n \in 1..k
        <4>1. g[n] = f[n] /\ g[n - 1] = f[n - 1]
          BY <3>1
        <4> QED
          BY <3>1, <4>1, <2>1
      <3>2. CASE n = k + 1
        <4>1. g[n] = next[k + 1][f[k]] /\ g[n - 1] = f[k]
          BY <3>2
        <4> QED
          BY <3>2, <4>1
      <3> QED
        BY <3>1, <3>2
    <2>5. Upto(k + 1)
      BY <2>3, <2>4
    <2>6. k + 1 \in 0..N
      OBVIOUS
    <2> QED
      BY <2>5, <2>6
  <1> HIDE DEF S
  <1>3. 0..N \subseteq S
    BY <1>1, <1>2, UpTo, Zenon
  <1>4. N \in S
    BY <1>3
  <1>5. Upto(N)
    BY <1>4 DEF S
  <1> QED
    BY <1>5 DEF Recursion

-----------------------------------------------------------------------------
(* What is usable.                                                         *)

LEMMA AmongIs ==
    ASSUME NEW c, NEW v, ChainIsBound(c)
    PROVE  LET N == Len(c.order)
           IN  /\ N \in Nat /\ Among(c, v)[0] = {} /\ Have(c, v) = Among(c, v)[N]
               /\ \A n \in 1..N : /\ Among(c, v)[n] = Also(c, v, Among(c, v)[n - 1], c.order[n])
                                  /\ c.order[n] \in DOMAIN c.kind
               /\ \A n \in 0..N : Among(c, v)[n] \in SUBSET DOMAIN c.kind
  <1> DEFINE N == Len(c.order)
             V == SUBSET DOMAIN c.kind
             next == [n \in 1..N |-> [S \in V |-> Also(c, v, S, c.order[n])]]
             Wanted(f) == [n \in 0..N |-> IF n = 0 THEN {} ELSE Also(c, v, f[n - 1], c.order[n])]
  <1>1. N \in Nat /\ \A n \in 1..N : c.order[n] \in DOMAIN c.kind
    BY DEF ChainIsBound
  <1>2. PICK f : Recursion(f, N, V, {}, next)
    <2>1. next \in [1..N -> [V -> V]]
      BY <1>1 DEF Also
    <2> HIDE DEF next, N, V
    <2>2. {} \in V
      BY DEF V
    <2> QED
      BY <1>1, <2>1, <2>2, DefinedByRecursion, Zenon
  <1>3. f = Wanted(f)
    <2>1. f \in [0..N -> V] /\ f[0] = {} /\ \A n \in 1..N : f[n] = Also(c, v, f[n - 1], c.order[n])
      <3>1. f \in [0..N -> V] /\ f[0] = {} /\ \A n \in 1..N : f[n] = next[n][f[n - 1]]
        BY <1>2 DEF Recursion
      <3>2. \A n \in 1..N : f[n - 1] \in V
        BY <1>1, <3>1
      <3> QED
        BY <3>1, <3>2
    <2> HIDE DEF N, V
    <2>2. \A n \in 0..N : f[n] = IF n = 0 THEN {} ELSE Also(c, v, f[n - 1], c.order[n])
      BY <1>1, <2>1
    <2> QED
      BY <2>1, <2>2
  <1>4. Among(c, v) = CHOOSE g : g = Wanted(g)
    BY Zenon DEF Among
  <1>5. Among(c, v) = Wanted(Among(c, v))
    BY <1>3, <1>4, Zenon
  <1> DEFINE A == Among(c, v)
  <1> HIDE DEF A
  <1>6. A[0] = {} /\ \A n \in 1..N : A[n] = Also(c, v, A[n - 1], c.order[n])
    <2>1. \A n \in 0..N : A[n] = IF n = 0 THEN {} ELSE Also(c, v, A[n - 1], c.order[n])
      BY <1>5 DEF A
    <2> QED
      BY <1>1, <2>1
  <1>7. \A n \in 0..N : A[n] \in V
    <2> DEFINE S == {n \in 0..N : A[n] \in V}
    <2>1. 0 \in S
      BY <1>1, <1>6
    <2>2. ASSUME NEW n \in 0..(N - 1), n \in S PROVE n + 1 \in S
      <3>1. n + 1 \in 1..N /\ (n + 1) - 1 = n
        BY <1>1
      <3>2. A[n + 1] = Also(c, v, A[n], c.order[n + 1])
        BY <1>6, <3>1
      <3> QED
        BY <1>1, <2>2, <3>1, <3>2 DEF Also
    <2> HIDE DEF S
    <2>3. 0..N \subseteq S
      BY <1>1, <2>1, <2>2, UpTo, Zenon
    <2> QED
      BY <2>3 DEF S
  <1> QED
    BY <1>1, <1>6, <1>7 DEF A, Have

LEMMA UsableGrows ==
    ASSUME NEW c, NEW v, NEW S, NEW T, S \subseteq T, NEW a, IsUsable(c, v, S, a)
    PROVE  IsUsable(c, v, T, a)
  BY DEF IsUsable, Stale

LEMMA BoundIs ==
    ASSUME NEW c, ChainIsBound(c), NEW a \in DOMAIN c.kind
    PROVE  /\ StepsAreBound(c, a)
           /\ KindOf(c, a) \in {"ingest", "confirm", "gate", "export", "model", "derive"}
           /\ KindOf(c, a) = "model" => c.kind[a] = "model"
           /\ Egress(c, a) <=> KindOf(c, a) = "export"
           /\ KindOf(c, a) = "ingest" <=> a = "transcript.revision"
           /\ c.kind[a] = "model" => KindOf(c, a) = "model"
           /\ a \notin {"source", "metadata.input"}
  <1>1. StepsAreBound(c, a) /\ a \notin {"source", "metadata.input"}
    BY DEF ChainIsBound
  <1>2. KindOf(c, a) = "ingest" => c.kind[a] = "deterministic"
    BY <1>1 DEF StepsAreBound
  <1>3. a = "transcript.revision" => KindOf(c, a) = "ingest"
    BY DEF KindOf
  <1>4. a # "transcript.revision" =>
          /\ KindOf(c, a) \in {"confirm", "gate", "export", "model", "derive"}
          /\ KindOf(c, a) = "model" <=> c.kind[a] = "model"
          /\ KindOf(c, a) = "export" <=> c.kind[a] = "egress"
    BY DEF KindOf
  <1> QED
    BY <1>1, <1>2, <1>3, <1>4 DEF Egress

WorkKinds == {"ingest", "confirm", "gate", "export", "model", "derive"}

LEMMA KindIs ==
    ASSUME NEW c, ChainIsBound(c), NEW w, WorkOK(c, w)
    PROVE  /\ w.kind \in WorkKinds /\ w.artifact \in DOMAIN c.kind
           /\ w.kind = "ingest" <=> w.artifact = "transcript.revision"
           /\ w.kind = "model" <=> c.kind[w.artifact] = "model"
           /\ w.kind = "export" <=> Egress(c, w.artifact)
  <1>1. w.artifact \in DOMAIN c.kind /\ w.kind = KindOf(c, w.artifact)
    BY DEF WorkOK
  <1> QED
    BY <1>1, BoundIs DEF WorkKinds

(* What usable means for each kind of step.                                *)
Human(c, a) == KindOf(c, a) \in {"confirm", "gate"}
Since(c, v, a) == IF Human(c, a) THEN v.facts[a].decisionSeq ELSE v.facts[a].receiptSeq

LEMMA UsableIs ==
    ASSUME NEW c, NEW v, ChainIsBound(c), Sound(c, v), NEW S, NEW a \in DOMAIN c.kind, IsUsable(c, v, S, a)
    PROVE  LET f == v.facts[a]
           IN  /\ f.sha # None /\ c.roles[a] \subseteq S
               /\ Check_refs(c, v, a, f.sha.from, Since(c, v, a), ~Human(c, a))
               /\ Human(c, a) => f.verdict = "ACCEPT" /\ f.subject = f.sha
               /\ ~Human(c, a) => f.receiptFor = f.sha
               /\ ~Human(c, a) /\ ~Egress(c, a) => f.verdict = None
  <1> DEFINE f == v.facts[a]
  <1>1. StepsAreBound(c, a) /\ FactsAreBound(c, v, a)
    BY BoundIs DEF Sound
  <1>2. /\ f.sha # None /\ Derivable(c, f, a) /\ Accepted(c, f, a) /\ c.roles[a] \subseteq S
        /\ f.receiptFor # None => Check_refs(c, v, a, f.receiptInputs, f.receiptSeq, TRUE)
        /\ f.verdict = "ACCEPT" /\ ~Egress(c, a) => Check_refs(c, v, a, f.refs, f.decisionSeq, FALSE)
    BY DEF IsUsable, Stale
  <1>3. CASE Human(c, a)
    <2>1. ~Egress(c, a) /\ c.contract[a].decision /\ ~f.inherited
      BY <1>1, <1>3, BoundIs DEF StepsAreBound, FactsAreBound, Human
    <2>2. f.verdict = "ACCEPT" /\ f.subject = f.sha
      BY <1>2, <2>1 DEF Accepted
    <2>3. f.refs = f.sha.from
      BY <1>1, <2>2 DEF FactsAreBound
    <2> QED
      BY <1>2, <1>3, <2>1, <2>2, <2>3 DEF Since
  <1>4. CASE ~Human(c, a)
    <2>1. f.receiptFor # None
      <3>1. CASE KindOf(c, a) = "ingest"
        BY <1>1, <1>2, <3>1 DEF FactsAreBound
      <3>2. CASE KindOf(c, a) # "ingest"
        <4>1. KindOf(c, a) \in {"derive", "model", "export"}
          BY <1>4, <3>2, BoundIs DEF Human
        <4>2. c.contract[a].provenance
          BY <1>1, <4>1 DEF StepsAreBound
        <4> QED
          BY <1>2, <4>2 DEF Derivable
      <3> QED
        BY <3>1, <3>2
    <2>2. f.receiptFor = f.sha /\ f.receiptInputs = f.sha.from
      BY <1>1, <1>2, <2>1 DEF Derivable, FactsAreBound
    <2>3. ~Egress(c, a) => f.verdict = None
      <3>1. f.verdict # "ACCEPT" /\ (~Egress(c, a) => ~f.inherited)
        BY <1>1, <1>4 DEF FactsAreBound, Human
      <3> QED
        BY <1>2, <3>1 DEF Accepted
    <2> QED
      BY <1>2, <1>4, <2>1, <2>2, <2>3 DEF Since
  <1> QED
    BY <1>3, <1>4

LEMMA RolesAreOlder ==
    ASSUME NEW c, NEW v, ChainIsBound(c), Sound(c, v), NEW S, NEW a \in DOMAIN c.kind, IsUsable(c, v, S, a),
           NEW r \in c.roles[a]
    PROVE  /\ r \in S /\ r \in DOMAIN c.kind
           /\ v.facts[a].sha.from[r] = v.facts[r].sha
           /\ v.facts[r].epoch <= Since(c, v, a) /\ Since(c, v, a) <= v.facts[a].epoch
           /\ v.facts[r].epoch \in Nat /\ Since(c, v, a) \in Nat /\ v.facts[a].epoch \in Nat
  <1>1. StepsAreBound(c, a) /\ FactsAreBound(c, v, a)
    BY BoundIs DEF Sound
  <1>2. r \in S /\ Check_refs(c, v, a, v.facts[a].sha.from, Since(c, v, a), ~Human(c, a))
    BY UsableIs
  <1>3. r \in DOMAIN c.kind /\ KindOf(c, a) # "ingest"
    BY <1>1 DEF StepsAreBound
  <1>4. a # "transcript.revision"
    BY <1>3, BoundIs
  <1>5. r \in Required(c, v, a, v.facts[a].sha.from, ~Human(c, a))
    BY <1>4 DEF Required
  <1>6. r \in DOMAIN v.facts /\ v.n \in Nat
    BY <1>3 DEF Sound, Placed
  <1>7. Current(v, r) = [sha |-> v.facts[r].sha, at |-> v.facts[r].epoch]
    BY <1>6 DEF Current
  <1>8. v.facts[a].sha.from[r] = v.facts[r].sha /\ v.facts[r].epoch <= Since(c, v, a)
    BY <1>2, <1>5, <1>7 DEF Check_refs
  <1>9. FactsAreBound(c, v, r)
    BY <1>3 DEF Sound
  <1>10. Since(c, v, a) <= v.facts[a].epoch /\ Since(c, v, a) \in Nat /\ v.facts[a].epoch \in Nat
    BY <1>1, <1>6 DEF FactsAreBound, Since
  <1>11. v.facts[r].epoch \in Nat
    BY <1>6, <1>9 DEF FactsAreBound
  <1> QED
    BY <1>2, <1>3, <1>8, <1>10, <1>11

(* What is usable stands on what is usable, all the way back, and nothing  *)
(* behind it concerned it later.                                           *)
Settled(c, v, S, a) ==
    /\ IsUsable(c, v, S, a)
    /\ \A b \in c.behind[a] :
         b \in S /\ b \in DOMAIN c.kind /\ b # a /\ ~Egress(c, b) /\ v.facts[b].epoch <= Since(c, v, a)

LEMMA HaveIsSettled ==
    ASSUME NEW c, NEW v, ChainIsBound(c), Sound(c, v)
    PROVE  /\ Have(c, v) \subseteq DOMAIN c.kind
           /\ \A a \in Have(c, v) : Settled(c, v, Have(c, v), a)
  <1> DEFINE N == Len(c.order)
             A == Among(c, v)
             S == {n \in 0..N : \A a \in A[n] : Settled(c, v, A[n], a)}
  <1>1. /\ N \in Nat /\ A[0] = {} /\ Have(c, v) = A[N]
        /\ \A n \in 1..N : A[n] = Also(c, v, A[n - 1], c.order[n]) /\ c.order[n] \in DOMAIN c.kind
        /\ \A n \in 0..N : A[n] \in SUBSET DOMAIN c.kind
    BY AmongIs
  <1> HIDE DEF A, N
  <1>2. 0 \in S
    BY <1>1
  <1>3. ASSUME NEW n \in 0..(N - 1), n \in S PROVE n + 1 \in S
    <2> DEFINE a == c.order[n + 1]
               B == A[n]
               C == A[n + 1]
    <2>1. n + 1 \in 0..N /\ n + 1 \in 1..N /\ (n + 1) - 1 = n /\ n \in 0..N
      BY <1>1
    <2>2. /\ C = Also(c, v, B, a) /\ a \in DOMAIN c.kind /\ B \subseteq DOMAIN c.kind
          /\ \A b \in B : Settled(c, v, B, b)
      <3>1. A[n + 1] = Also(c, v, A[(n + 1) - 1], c.order[n + 1])
        BY <1>1, <2>1
      <3>2. \A b \in A[n] : Settled(c, v, A[n], b)
        BY <1>3
      <3> QED
        BY <1>1, <2>1, <3>1, <3>2
    <2> HIDE DEF a, B, C
    <2>3. B \subseteq C
      BY <2>2 DEF Also
    <2>4. ASSUME NEW b \in B PROVE Settled(c, v, C, b)
      BY <2>2, <2>3, UsableGrows DEF Settled
    <2>5. ASSUME NEW b \in C, b \notin B PROVE Settled(c, v, C, b)
      <3>1. b = a /\ IsUsable(c, v, B, a)
        BY <2>2, <2>5 DEF Also
      <3>2. IsUsable(c, v, C, b)
        BY <2>3, <3>1, UsableGrows
      <3>3. /\ c.behind[a] \subseteq c.roles[a] \cup UNION {c.behind[r] : r \in c.roles[a]}
            /\ \A r \in c.roles[a] : ~Egress(c, r)
        BY <2>2, BoundIs DEF StepsAreBound
      <3>4. ASSUME NEW x \in c.behind[a]
            PROVE  x \in B /\ x \in DOMAIN c.kind /\ ~Egress(c, x) /\ v.facts[x].epoch <= Since(c, v, a)
        <4>1. CASE x \in c.roles[a]
          BY <2>2, <3>1, <3>3, <4>1, RolesAreOlder
        <4>2. CASE x \notin c.roles[a]
          <5>1. PICK r \in c.roles[a] : x \in c.behind[r]
            BY <3>3, <4>2
          <5>2. r \in B /\ r \in DOMAIN c.kind /\ v.facts[r].epoch <= Since(c, v, a) /\ v.facts[r].epoch \in Nat
            BY <2>2, <3>1, RolesAreOlder
          <5>3. x \in B /\ x \in DOMAIN c.kind /\ ~Egress(c, x) /\ v.facts[x].epoch <= Since(c, v, r)
                /\ IsUsable(c, v, B, r)
            BY <2>2, <5>1, <5>2 DEF Settled
          <5>4. v.facts[x].epoch \in Nat /\ Since(c, v, r) \in Nat /\ Since(c, v, r) <= v.facts[r].epoch
                /\ Since(c, v, a) \in Nat
            <6>1. v.n \in Nat /\ FactsAreBound(c, v, x) /\ FactsAreBound(c, v, r) /\ FactsAreBound(c, v, a)
              BY <2>2, <5>2, <5>3 DEF Sound, Placed
            <6> QED
              BY <6>1 DEF FactsAreBound, Since
          <5> QED
            BY <5>2, <5>3, <5>4
        <4> QED
          BY <4>1, <4>2
      <3> QED
        BY <2>3, <2>5, <3>1, <3>2, <3>4 DEF Settled
    <2>6. \A b \in C : Settled(c, v, C, b)
      BY <2>4, <2>5
    <2> QED
      BY <2>1, <2>6 DEF C
  <1> HIDE DEF S
  <1>4. 0..N \subseteq S
    BY <1>1, <1>2, <1>3, UpTo, Zenon
  <1>5. N \in S /\ N \in 0..N
    BY <1>1, <1>4
  <1>6. \A a \in A[N] : Settled(c, v, A[N], a)
    BY <1>5 DEF S
  <1> QED
    BY <1>1, <1>5, <1>6

(* What leaves the system changes nothing that is usable inside it.        *)
Alike(c, v, u) ==
    /\ DOMAIN v.facts = DOMAIN c.kind /\ DOMAIN u.facts = DOMAIN c.kind
    /\ u.sources = v.sources
    /\ \A a \in DOMAIN c.kind : ~Egress(c, a) => u.facts[a] = v.facts[a]

LEMMA UsableAlike ==
    ASSUME NEW c, NEW v, NEW u, ChainIsBound(c), Alike(c, v, u), NEW S, NEW T,
           \A a \in DOMAIN c.kind : ~Egress(c, a) => (a \in S <=> a \in T),
           NEW a \in DOMAIN c.kind, ~Egress(c, a)
    PROVE  IsUsable(c, v, S, a) <=> IsUsable(c, u, T, a)
  <1>1. /\ c.roles[a] \subseteq DOMAIN c.kind /\ \A r \in c.roles[a] : ~Egress(c, r)
    BY BoundIs DEF StepsAreBound
  <1>2. c.roles[a] \subseteq S <=> c.roles[a] \subseteq T
    BY <1>1
  <1>3. u.facts[a] = v.facts[a] /\ u.sources = v.sources
    BY DEF Alike
  <1>4. \A r \in c.roles[a] \cup {"source", "metadata.input"} : Current(u, r) = Current(v, r)
    <2>1. \A r \in c.roles[a] : Current(u, r) = Current(v, r)
      BY <1>1 DEF Alike, Current
    <2>2. \A r \in {"source", "metadata.input"} : r \notin DOMAIN c.kind
      BY DEF ChainIsBound
    <2>3. \A r \in {"source", "metadata.input"} : Current(u, r) = Current(v, r)
      BY <2>2 DEF Alike, Current
    <2> QED
      BY <2>1, <2>3
  <1>5. ASSUME NEW refs, NEW seq, NEW receipt
        PROVE  Check_refs(c, v, a, refs, seq, receipt) <=> Check_refs(c, u, a, refs, seq, receipt)
    <2>1. Required(c, u, a, refs, receipt) = Required(c, v, a, refs, receipt)
      BY <1>3 DEF Required
    <2>2. Required(c, v, a, refs, receipt) \subseteq c.roles[a] \cup {"source", "metadata.input"}
      BY DEF Required
    <2> QED
      BY <1>4, <2>1, <2>2 DEF Check_refs
  <1>6. Stale(c, v, S, a) <=> Stale(c, u, T, a)
    BY <1>2, <1>3, <1>5 DEF Stale
  <1> QED
    BY <1>3, <1>6 DEF IsUsable

LEMMA HaveAlike ==
    ASSUME NEW c, NEW v, NEW u, ChainIsBound(c), Alike(c, v, u), NEW a \in DOMAIN c.kind, ~Egress(c, a)
    PROVE  a \in Have(c, v) <=> a \in Have(c, u)
  <1> DEFINE N == Len(c.order)
             A == Among(c, v)
             B == Among(c, u)
             S == {n \in 0..N : \A b \in DOMAIN c.kind : ~Egress(c, b) => (b \in A[n] <=> b \in B[n])}
  <1>1. /\ N \in Nat /\ A[0] = {} /\ Have(c, v) = A[N]
        /\ \A n \in 1..N : A[n] = Also(c, v, A[n - 1], c.order[n]) /\ c.order[n] \in DOMAIN c.kind
    BY AmongIs
  <1>2. /\ B[0] = {} /\ Have(c, u) = B[N]
        /\ \A n \in 1..N : B[n] = Also(c, u, B[n - 1], c.order[n])
    BY AmongIs
  <1> HIDE DEF A, B, N
  <1>3. 0 \in S
    BY <1>1, <1>2
  <1>4. ASSUME NEW n \in 0..(N - 1), n \in S PROVE n + 1 \in S
    <2> DEFINE x == c.order[n + 1]
    <2>1. n + 1 \in 0..N /\ n + 1 \in 1..N /\ (n + 1) - 1 = n /\ n \in 0..N
      BY <1>1
    <2>2. A[n + 1] = Also(c, v, A[n], x) /\ B[n + 1] = Also(c, u, B[n], x) /\ x \in DOMAIN c.kind
      BY <1>1, <1>2, <2>1
    <2>3. \A b \in DOMAIN c.kind : ~Egress(c, b) => (b \in A[n] <=> b \in B[n])
      BY <1>4
    <2> HIDE DEF x
    <2>4. ~Egress(c, x) => (IsUsable(c, v, A[n], x) <=> IsUsable(c, u, B[n], x))
      BY <2>2, <2>3, UsableAlike
    <2>5. \A b \in DOMAIN c.kind : ~Egress(c, b) => (b \in A[n + 1] <=> b \in B[n + 1])
      BY <2>2, <2>3, <2>4 DEF Also
    <2> QED
      BY <2>1, <2>5
  <1> HIDE DEF S
  <1>5. 0..N \subseteq S
    BY <1>1, <1>3, <1>4, UpTo, Zenon
  <1>6. N \in S
    BY <1>1, <1>5
  <1> QED
    BY <1>1, <1>2, <1>6 DEF S

-----------------------------------------------------------------------------
(* What each event changes in the view.                                    *)
ViewFields == {"n", "facts", "sources", "accepts", "findings"}
FactFields == {"sha", "history", "epoch", "producedAt", "receiptFor", "receiptInputs", "receiptSeq",
               "verdict", "subject", "refs", "decisionSeq", "withdrawal", "anchored", "inherited"}

Keeps(v, u, changed) == DOMAIN u = ViewFields /\ \A x \in ViewFields \ changed : u[x] = v[x]
KeepsFact(f, g, changed) == DOMAIN g = FactFields /\ \A x \in FactFields \ changed : g[x] = f[x]

(* Elsewhere nothing changes but an inheritance that ends.                 *)
Ends(f, g) == KeepsFact(f, g, {"inherited"}) /\ (g.inherited => f.inherited)
Beside(c, v, u, a) ==
    /\ DOMAIN u.facts = DOMAIN c.kind
    /\ \A b \in DOMAIN c.kind \ {a} :
         /\ Ends(v.facts[b], u.facts[b])
         /\ ~Egress(c, b) \/ a \notin c.requires[b] => u.facts[b] = v.facts[b]

LEMMA PlacedIs ==
    ASSUME NEW c, NEW v, Placed(c, v)
    PROVE  /\ DOMAIN v = ViewFields /\ v.n \in Nat /\ DOMAIN v.facts = DOMAIN c.kind
           /\ \A a \in DOMAIN c.kind : DOMAIN v.facts[a] = FactFields
           /\ DOMAIN v.sources = {"source", "metadata.input"}
  BY DEF Placed, NoView, NoFacts, ViewFields, FactFields

LEMMA DisinheritIs ==
    ASSUME NEW c, NEW v, Placed(c, v), NEW a \in DOMAIN c.kind
    PROVE  LET facts == Disinherit(c, v.facts, a)
           IN  /\ DOMAIN facts = DOMAIN c.kind
               /\ \A b \in DOMAIN c.kind :
                    /\ Ends(v.facts[b], facts[b])
                    /\ ~Egress(c, b) \/ (b # a /\ a \notin c.requires[b]) => facts[b] = v.facts[b]
  <1> DEFINE facts == Disinherit(c, v.facts, a)
  <1>1. DOMAIN facts = DOMAIN c.kind
    BY PlacedIs DEF Disinherit
  <1>2. ASSUME NEW b \in DOMAIN c.kind
        PROVE  /\ Ends(v.facts[b], facts[b])
               /\ ~Egress(c, b) \/ (b # a /\ a \notin c.requires[b]) => facts[b] = v.facts[b]
    <2>1. DOMAIN v.facts[b] = FactFields
      BY PlacedIs
    <2>2. \/ facts[b] = v.facts[b]
          \/ /\ Egress(c, b) /\ (b = a \/ a \in c.requires[b])
             /\ facts[b] = [v.facts[b] EXCEPT !.inherited = FALSE]
      BY PlacedIs DEF Disinherit
    <2>3. CASE facts[b] = v.facts[b]
      BY <2>1, <2>3 DEF Ends, KeepsFact
    <2>4. CASE /\ Egress(c, b) /\ (b = a \/ a \in c.requires[b])
               /\ facts[b] = [v.facts[b] EXCEPT !.inherited = FALSE]
      <3>1. KeepsFact(v.facts[b], facts[b], {"inherited"}) /\ ~facts[b].inherited
        BY <2>1, <2>4 DEF KeepsFact, FactFields
      <3> QED
        BY <2>4, <3>1 DEF Ends
    <2> QED
      BY <2>2, <2>3, <2>4
  <1> QED
    BY <1>1, <1>2

LEMMA EndsRefl == ASSUME NEW f, DOMAIN f = FactFields PROVE Ends(f, f)
  BY DEF Ends, KeepsFact

LEMMA ObservedIs ==
    ASSUME NEW c, NEW v, Placed(c, v), NEW role, NEW sha
    PROVE  LET u == Observed(v, role, sha)
           IN  /\ Keeps(v, u, {"n", "sources"}) /\ u.n = v.n + 1
               /\ u.sources = [v.sources EXCEPT ![role] = [sha |-> sha, at |-> v.n + 1]]
  BY PlacedIs DEF Observed, Keeps, ViewFields

LEMMA ProducedIs ==
    ASSUME NEW c, NEW v, Placed(c, v), NEW a \in DOMAIN c.kind, NEW sha
    PROVE  LET u == Produced(c, v, a, sha)
               f == v.facts[a]
               g == u.facts[a]
           IN  /\ Keeps(v, u, {"n", "facts"}) /\ u.n = v.n + 1 /\ Beside(c, v, u, a)
               /\ KeepsFact(f, g, {"sha", "history", "epoch", "producedAt", "inherited"})
               /\ g.sha = sha /\ g.history = f.history \cup {sha} /\ g.epoch = v.n + 1
               /\ g.inherited => f.inherited
               /\ f.sha = sha => g.inherited = f.inherited
  <1> DEFINE f == v.facts[a]
             facts == IF f.sha \notin {None, sha} THEN Disinherit(c, v.facts, a) ELSE v.facts
             new == [facts[a] EXCEPT !.sha = sha, !.history = @ \cup {sha},
                                     !.epoch = v.n + 1, !.producedAt = v.n + 1]
             all == [facts EXCEPT ![a] = new]
             u == Produced(c, v, a, sha)
  <1>1. /\ DOMAIN facts = DOMAIN c.kind
        /\ \A b \in DOMAIN c.kind :
             /\ Ends(v.facts[b], facts[b])
             /\ ~Egress(c, b) \/ (b # a /\ a \notin c.requires[b]) => facts[b] = v.facts[b]
        /\ f.sha = sha => facts[a] = v.facts[a]
    BY PlacedIs, DisinheritIs, EndsRefl
  <1>2. /\ Keeps(v, u, {"n", "facts"}) /\ u.n = v.n + 1 /\ u.facts = all
    BY PlacedIs DEF Produced, Keeps, ViewFields
  <1> HIDE DEF facts
  <1>3. /\ KeepsFact(facts[a], new, {"sha", "history", "epoch", "producedAt"})
        /\ new.sha = sha /\ new.history = facts[a].history \cup {sha} /\ new.epoch = v.n + 1
    BY <1>1 DEF Ends, KeepsFact, FactFields
  <1> HIDE DEF new
  <1>4. all[a] = new /\ DOMAIN all = DOMAIN c.kind /\ \A b \in DOMAIN c.kind \ {a} : all[b] = facts[b]
    BY <1>1
  <1> HIDE DEF all, u
  <1>5. /\ KeepsFact(f, new, {"sha", "history", "epoch", "producedAt", "inherited"})
        /\ new.history = f.history \cup {sha}
        /\ new.inherited => f.inherited
        /\ f.sha = sha => new.inherited = f.inherited
    BY <1>1, <1>3 DEF KeepsFact, Ends, FactFields
  <1>6. Beside(c, v, u, a)
    BY <1>1, <1>2, <1>4 DEF Beside
  <1> DEFINE g == u.facts[a]
  <1>7. g = new /\ new.sha = sha /\ new.epoch = v.n + 1
    BY <1>2, <1>3, <1>4
  <1> HIDE DEF g
  <1>8. /\ KeepsFact(f, g, {"sha", "history", "epoch", "producedAt", "inherited"})
        /\ g.sha = sha /\ g.history = f.history \cup {sha} /\ g.epoch = v.n + 1
        /\ g.inherited => f.inherited
        /\ f.sha = sha => g.inherited = f.inherited
    BY <1>5, <1>7
  <1> QED
    BY <1>2, <1>6, <1>8, Zenon DEF u, g

LEMMA AnchoredIs ==
    ASSUME NEW c, NEW v, Placed(c, v), NEW a \in DOMAIN c.kind
    PROVE  LET u == Anchored(v, a)
           IN  /\ Keeps(v, u, {"n", "facts"}) /\ u.n = v.n + 1 /\ Beside(c, v, u, a)
               /\ KeepsFact(v.facts[a], u.facts[a], {"anchored"}) /\ u.facts[a].anchored
               /\ \A b \in DOMAIN c.kind \ {a} : u.facts[b] = v.facts[b]
  <1> DEFINE new == [v.facts[a] EXCEPT !.anchored = TRUE]
             all == [v.facts EXCEPT ![a] = new]
             u == Anchored(v, a)
  <1>1. Keeps(v, u, {"n", "facts"}) /\ u.n = v.n + 1 /\ u.facts = all
    BY PlacedIs DEF Anchored, Keeps, ViewFields
  <1>2. KeepsFact(v.facts[a], new, {"anchored"}) /\ new.anchored
    BY PlacedIs DEF KeepsFact, FactFields
  <1> HIDE DEF new
  <1>3. all[a] = new /\ DOMAIN all = DOMAIN c.kind /\ \A b \in DOMAIN c.kind \ {a} : all[b] = v.facts[b]
    BY PlacedIs
  <1> HIDE DEF all, u
  <1>4. Beside(c, v, u, a)
    BY <1>1, <1>3, PlacedIs, EndsRefl DEF Beside
  <1> QED
    BY <1>1, <1>2, <1>3, <1>4 DEF u

LEMMA ReceiptedIs ==
    ASSUME NEW c, NEW v, Placed(c, v), NEW a \in DOMAIN c.kind, NEW receipt
    PROVE  LET u == Receipted(c, v, a, receipt)
               f == v.facts[a]
               g == u.facts[a]
               refused == c.kind[a] = "model" /\ ~Authorised(v, receipt)
           IN  /\ refused => (Keeps(v, u, {"n", "findings"}) /\ u.n = v.n + 1)
               /\ ~refused =>
                    /\ Keeps(v, u, {"n", "facts"}) /\ u.n = v.n + 1 /\ Beside(c, v, u, a)
                    /\ KeepsFact(f, g, {"receiptFor", "receiptInputs", "receiptSeq", "epoch", "inherited"})
                    /\ g.receiptFor = receipt.for /\ g.receiptInputs = receipt.inputs
                    /\ g.receiptSeq = v.n + 1 /\ g.epoch = v.n + 1
                    /\ g.inherited = IF Egress(c, a) THEN Inherits(v, a, receipt) ELSE f.inherited
                    /\ \A b \in DOMAIN c.kind \ {a} : u.facts[b] = v.facts[b]
  <1> DEFINE u == Receipted(c, v, a, receipt)
             refused == c.kind[a] = "model" /\ ~Authorised(v, receipt)
  <1>1. CASE refused
    BY <1>1, PlacedIs DEF Receipted, Keeps, ViewFields
  <1>2. CASE ~refused
    <2> DEFINE inherited == IF Egress(c, a) THEN Inherits(v, a, receipt) ELSE v.facts[a].inherited
    <2>1. inherited = IF Egress(c, a) THEN Inherits(v, a, receipt) ELSE v.facts[a].inherited
      OBVIOUS
    <2> DEFINE new == [v.facts[a] EXCEPT !.receiptFor = receipt.for, !.receiptInputs = receipt.inputs,
                                         !.receiptSeq = v.n + 1, !.epoch = v.n + 1,
                                         !.inherited = inherited]
               all == [v.facts EXCEPT ![a] = new]
    <2>2. Keeps(v, u, {"n", "facts"}) /\ u.n = v.n + 1 /\ u.facts = all
      BY <1>2, PlacedIs DEF Receipted, Keeps, ViewFields
    <2> HIDE DEF inherited
    <2>3. /\ KeepsFact(v.facts[a], new, {"receiptFor", "receiptInputs", "receiptSeq", "epoch", "inherited"})
          /\ new.receiptFor = receipt.for /\ new.receiptInputs = receipt.inputs
          /\ new.receiptSeq = v.n + 1 /\ new.epoch = v.n + 1 /\ new.inherited = inherited
      <3> DEFINE f == v.facts[a]
      <3>1. DOMAIN f = FactFields
        BY PlacedIs
      <3> HIDE DEF f
      <3>2. DOMAIN new = FactFields
        BY <3>1 DEF f
      <3>3. ASSUME NEW x \in FactFields \ {"receiptFor", "receiptInputs", "receiptSeq", "epoch", "inherited"}
            PROVE  new[x] = v.facts[a][x]
        BY <3>1, <3>3 DEF f
      <3>4. /\ new.receiptFor = receipt.for /\ new.receiptInputs = receipt.inputs
            /\ new.receiptSeq = v.n + 1 /\ new.epoch = v.n + 1 /\ new.inherited = inherited
        BY <3>1 DEF f, FactFields
      <3> QED
        BY <3>2, <3>3, <3>4 DEF KeepsFact
    <2> HIDE DEF new
    <2>4. all[a] = new /\ DOMAIN all = DOMAIN c.kind /\ \A b \in DOMAIN c.kind \ {a} : all[b] = v.facts[b]
      BY PlacedIs
    <2> HIDE DEF all, u
    <2>5. Beside(c, v, u, a)
      BY <2>2, <2>4, PlacedIs, EndsRefl DEF Beside
    <2> QED
      BY <1>2, <2>1, <2>2, <2>3, <2>4, <2>5 DEF u
  <1> QED
    BY <1>1, <1>2

(* What an acceptance makes of the times of acceptance.                    *)
AcceptsGrow(v, u, m, at) ==
    /\ DOMAIN u.accepts = DOMAIN v.accepts \cup {m} /\ u.accepts[m] = at
    /\ \A x \in DOMAIN v.accepts : x # m => u.accepts[x] = v.accepts[x]

LEMMA AcceptedIs ==
    ASSUME NEW c, NEW v, Placed(c, v), NEW a \in DOMAIN c.kind, NEW d, d.verdict = "ACCEPT"
    PROVE  LET u == DecisionRecorded(c, v, a, d)
               f == v.facts[a]
               g == u.facts[a]
           IN  /\ Keeps(v, u, {"n", "facts", "accepts"}) /\ u.n = v.n + 1
               /\ c.confirms[a] = NoText => u.accepts = v.accepts
               /\ c.confirms[a] # NoText => AcceptsGrow(v, u, d.subject, d.at)
               /\ f.withdrawal # 0 => u.facts = v.facts
               /\ f.withdrawal = 0 =>
                    /\ Beside(c, v, u, a) /\ \A b \in DOMAIN c.kind \ {a} : u.facts[b] = v.facts[b]
                    /\ KeepsFact(f, g, {"verdict", "subject", "refs", "decisionSeq", "epoch"})
                    /\ g.verdict = "ACCEPT" /\ g.subject = d.subject /\ g.refs = d.refs
                    /\ g.decisionSeq = v.n + 1 /\ g.epoch = v.n + 1
  <1> DEFINE f == v.facts[a]
             u == DecisionRecorded(c, v, a, d)
             accepts == IF c.confirms[a] # NoText
                        THEN [m \in DOMAIN v.accepts \cup {d.subject} |->
                                 IF m = d.subject THEN d.at ELSE v.accepts[m]]
                        ELSE v.accepts
             new == [v EXCEPT !.n = @ + 1, !.accepts = accepts]
             fact == [v.facts[a] EXCEPT !.verdict = d.verdict, !.subject = d.subject, !.refs = d.refs,
                                        !.decisionSeq = v.n + 1, !.epoch = v.n + 1, !.withdrawal = @]
             facts == [v.facts EXCEPT ![a] = fact]
  <1>1. u = IF f.withdrawal = 0 THEN [new EXCEPT !.facts = facts] ELSE new
    BY Zenon DEF DecisionRecorded
  <1>2. /\ Keeps(v, new, {"n", "accepts"}) /\ new.n = v.n + 1 /\ new.accepts = accepts
    BY PlacedIs DEF Keeps, ViewFields
  <1>3. /\ c.confirms[a] = NoText => accepts = v.accepts
        /\ c.confirms[a] # NoText =>
             /\ DOMAIN accepts = DOMAIN v.accepts \cup {d.subject} /\ accepts[d.subject] = d.at
             /\ \A x \in DOMAIN v.accepts : x # d.subject => accepts[x] = v.accepts[x]
    OBVIOUS
  <1> HIDE DEF u, new, accepts
  <1>4. /\ u.accepts = accepts /\ u.n = v.n + 1 /\ Keeps(v, u, {"n", "facts", "accepts"})
        /\ f.withdrawal = 0 => u.facts = facts
        /\ f.withdrawal # 0 => u.facts = v.facts
    BY <1>1, <1>2 DEF Keeps, ViewFields
  <1>5. /\ KeepsFact(f, fact, {"verdict", "subject", "refs", "decisionSeq", "epoch"})
        /\ fact.verdict = "ACCEPT" /\ fact.subject = d.subject /\ fact.refs = d.refs
        /\ fact.decisionSeq = v.n + 1 /\ fact.epoch = v.n + 1
    <2>1. DOMAIN f = FactFields
      BY PlacedIs
    <2> HIDE DEF f
    <2>2. DOMAIN fact = FactFields
      BY <2>1 DEF f
    <2>3. ASSUME NEW x \in FactFields \ {"verdict", "subject", "refs", "decisionSeq", "epoch"}
          PROVE  fact[x] = f[x]
      BY <2>1, <2>3 DEF f
    <2>4. /\ fact.verdict = "ACCEPT" /\ fact.subject = d.subject /\ fact.refs = d.refs
          /\ fact.decisionSeq = v.n + 1 /\ fact.epoch = v.n + 1
      BY <2>1 DEF f, FactFields
    <2> QED
      BY <2>2, <2>3, <2>4 DEF KeepsFact
  <1> HIDE DEF fact
  <1>6. facts[a] = fact /\ DOMAIN facts = DOMAIN c.kind /\ \A b \in DOMAIN c.kind \ {a} : facts[b] = v.facts[b]
    BY PlacedIs
  <1> HIDE DEF facts
  <1>7. f.withdrawal = 0 => Beside(c, v, u, a) /\ \A b \in DOMAIN c.kind \ {a} : u.facts[b] = v.facts[b]
    BY <1>4, <1>6, PlacedIs, EndsRefl DEF Beside
  <1>8. c.confirms[a] # NoText => AcceptsGrow(v, u, d.subject, d.at)
    BY <1>3, <1>4 DEF AcceptsGrow
  <1> DEFINE g == u.facts[a]
  <1>9. f.withdrawal = 0 =>
          /\ KeepsFact(f, g, {"verdict", "subject", "refs", "decisionSeq", "epoch"})
          /\ g.verdict = "ACCEPT" /\ g.subject = d.subject /\ g.refs = d.refs
          /\ g.decisionSeq = v.n + 1 /\ g.epoch = v.n + 1
    BY <1>4, <1>5, <1>6
  <1>10. c.confirms[a] = NoText => u.accepts = v.accepts
    BY <1>3, <1>4
  <1> HIDE DEF g
  <1> QED
    BY <1>4, <1>7, <1>8, <1>9, <1>10, Zenon DEF u, g

(* A withdrawal, or the undoing of the one in effect.                      *)
LEMMA DrawnIs ==
    ASSUME NEW c, NEW v, Placed(c, v), NEW a \in DOMAIN c.kind, NEW d,
           \/ d.verdict = "WITHDRAW"
           \/ d.verdict = "UNDO" /\ v.facts[a].withdrawal # 0 /\ d.undo_of = v.facts[a].withdrawal
    PROVE  LET u == DecisionRecorded(c, v, a, d)
               f == v.facts[a]
               g == u.facts[a]
           IN  /\ Keeps(v, u, {"n", "facts"}) /\ u.n = v.n + 1 /\ Beside(c, v, u, a)
               /\ KeepsFact(f, g, {"verdict", "subject", "refs", "decisionSeq", "epoch", "withdrawal", "inherited"})
               /\ g.verdict = d.verdict /\ g.decisionSeq = v.n + 1 /\ g.epoch = v.n + 1
               /\ g.withdrawal # 0 => d.verdict = "WITHDRAW"
               /\ g.inherited => f.inherited
  <1> DEFINE f == v.facts[a]
             u == DecisionRecorded(c, v, a, d)
             all == Disinherit(c, v.facts, a)
             new == [v EXCEPT !.n = @ + 1, !.accepts = v.accepts]
             standing == IF d.verdict = "UNDO" THEN 0 ELSE v.n + 1
             fact == [all[a] EXCEPT !.verdict = d.verdict, !.subject = d.subject, !.refs = d.refs,
                                    !.decisionSeq = v.n + 1, !.epoch = v.n + 1, !.withdrawal = standing]
             facts == [all EXCEPT ![a] = fact]
  <1>1. u = [new EXCEPT !.facts = facts]
    <2>1. d.verdict # "ACCEPT"
      OBVIOUS
    <2>2. CASE d.verdict = "WITHDRAW"
      <3> DEFINE was(x) == CASE d.verdict = "UNDO" -> 0 [] d.verdict = "WITHDRAW" -> v.n + 1 [] OTHER -> x
      <3>1. \A x : was(x) = standing
        BY <2>2
      <3>2. (CASE d.verdict = "UNDO" -> f.withdrawal # 0 /\ d.undo_of = f.withdrawal
               [] d.verdict = "WITHDRAW" -> TRUE
               [] OTHER -> f.withdrawal = 0)
        BY <2>2
      <3> HIDE DEF standing
      <3> QED
        BY <2>1, <3>1, <3>2 DEF DecisionRecorded
    <2>3. CASE d.verdict = "UNDO"
      <3> DEFINE was(x) == CASE d.verdict = "UNDO" -> 0 [] d.verdict = "WITHDRAW" -> v.n + 1 [] OTHER -> x
      <3>1. \A x : was(x) = standing
        BY <2>3
      <3>2. (CASE d.verdict = "UNDO" -> f.withdrawal # 0 /\ d.undo_of = f.withdrawal
               [] d.verdict = "WITHDRAW" -> TRUE
               [] OTHER -> f.withdrawal = 0)
        BY <2>3
      <3> HIDE DEF standing
      <3> QED
        BY <2>1, <3>1, <3>2 DEF DecisionRecorded
    <2> QED
      BY <2>2, <2>3
  <1>2. Keeps(v, new, {"n"}) /\ new.n = v.n + 1
    BY PlacedIs DEF Keeps, ViewFields
  <1>3. standing # 0 => d.verdict = "WITHDRAW"
    OBVIOUS
  <1> HIDE DEF u, new
  <1>4. Keeps(v, u, {"n", "facts"}) /\ u.n = v.n + 1 /\ u.facts = facts
    BY <1>1, <1>2 DEF Keeps, ViewFields
  <1>5. /\ DOMAIN all = DOMAIN c.kind
        /\ \A b \in DOMAIN c.kind :
             /\ Ends(v.facts[b], all[b])
             /\ ~Egress(c, b) \/ (b # a /\ a \notin c.requires[b]) => all[b] = v.facts[b]
    BY DisinheritIs
  <1> HIDE DEF all, standing
  <1>6. /\ KeepsFact(all[a], fact, {"verdict", "subject", "refs", "decisionSeq", "epoch", "withdrawal"})
        /\ fact.verdict = d.verdict /\ fact.decisionSeq = v.n + 1 /\ fact.epoch = v.n + 1
        /\ fact.withdrawal = standing
    <2> DEFINE h == all[a]
    <2>1. DOMAIN h = FactFields
      BY <1>5 DEF Ends, KeepsFact
    <2> HIDE DEF h
    <2>2. DOMAIN fact = FactFields
      BY <2>1 DEF h
    <2>3. ASSUME NEW x \in FactFields \ {"verdict", "subject", "refs", "decisionSeq", "epoch", "withdrawal"}
          PROVE  fact[x] = h[x]
      BY <2>1, <2>3 DEF h
    <2>4. /\ fact.verdict = d.verdict /\ fact.decisionSeq = v.n + 1 /\ fact.epoch = v.n + 1
          /\ fact.withdrawal = standing
      BY <2>1 DEF h, FactFields
    <2> QED
      BY <2>2, <2>3, <2>4 DEF KeepsFact, h
  <1> HIDE DEF fact
  <1>7. facts[a] = fact /\ DOMAIN facts = DOMAIN c.kind /\ \A b \in DOMAIN c.kind \ {a} : facts[b] = all[b]
    BY <1>5
  <1> HIDE DEF facts
  <1>8. Beside(c, v, u, a)
    BY <1>4, <1>5, <1>7 DEF Beside
  <1>9. /\ KeepsFact(f, fact, {"verdict", "subject", "refs", "decisionSeq", "epoch", "withdrawal", "inherited"})
        /\ fact.inherited => f.inherited
    BY <1>5, <1>6 DEF Ends, KeepsFact, FactFields
  <1> DEFINE g == u.facts[a]
  <1>10. g = fact
    BY <1>4, <1>7
  <1> HIDE DEF g
  <1>11. /\ KeepsFact(f, g, {"verdict", "subject", "refs", "decisionSeq", "epoch", "withdrawal", "inherited"})
         /\ g.verdict = d.verdict /\ g.decisionSeq = v.n + 1 /\ g.epoch = v.n + 1
         /\ g.withdrawal # 0 => d.verdict = "WITHDRAW"
         /\ g.inherited => f.inherited
    BY <1>3, <1>6, <1>9, <1>10
  <1> QED
    BY <1>4, <1>8, <1>11, Zenon DEF u, g

-----------------------------------------------------------------------------
(* Every event leaves a journal that is Sound.                             *)
LEMMA StillBeside ==
    ASSUME NEW c, NEW v, NEW u, Sound(c, v), Placed(c, v), NEW a \in DOMAIN c.kind, Beside(c, v, u, a),
           u.n = v.n + 1, DOMAIN v.accepts \subseteq DOMAIN u.accepts,
           NEW b \in DOMAIN c.kind, b # a
    PROVE  /\ FactsAreBound(c, u, b) /\ u.facts[b].decisionSeq = v.facts[b].decisionSeq
           /\ u.facts[b].decisionSeq \in 0..v.n
  <1>1. Ends(v.facts[b], u.facts[b]) /\ FactsAreBound(c, v, b) /\ v.n \in Nat
    BY PlacedIs DEF Beside, Sound
  <1> DEFINE f == v.facts[b]
             g == u.facts[b]
  <1>2. /\ g.epoch = f.epoch /\ g.receiptSeq = f.receiptSeq /\ g.decisionSeq = f.decisionSeq
        /\ g.verdict = f.verdict /\ g.sha = f.sha /\ g.history = f.history
        /\ g.receiptFor = f.receiptFor /\ g.receiptInputs = f.receiptInputs
        /\ g.subject = f.subject /\ g.refs = f.refs /\ g.withdrawal = f.withdrawal
        /\ (g.inherited => f.inherited)
    BY <1>1 DEF Ends, KeepsFact, FactFields
  <1> HIDE DEF f, g
  <1>3. FactsAreBound(c, u, b)
    BY <1>1, <1>2 DEF FactsAreBound, f, g
  <1> QED
    BY <1>1, <1>2, <1>3 DEF FactsAreBound, f, g

LEMMA StillSound ==
    ASSUME NEW c, NEW v, NEW u, Sound(c, v), NEW a \in DOMAIN c.kind, Beside(c, v, u, a), Placed(c, u),
           u.n = v.n + 1, DOMAIN v.accepts \subseteq DOMAIN u.accepts,
           FactsAreBound(c, u, a), u.facts[a].decisionSeq \in {v.facts[a].decisionSeq, v.n + 1}
    PROVE  Sound(c, u)
  <1>1. Placed(c, v) /\ v.n \in Nat
    BY PlacedIs DEF Sound
  <1>2. \A b \in DOMAIN c.kind : b # a =>
          /\ FactsAreBound(c, u, b) /\ u.facts[b].decisionSeq = v.facts[b].decisionSeq
          /\ u.facts[b].decisionSeq \in 0..v.n
    BY <1>1, StillBeside
  <1>3. ASSUME NEW b \in DOMAIN c.kind, NEW d \in DOMAIN c.kind, b # d
        PROVE  u.facts[b].decisionSeq = 0 \/ u.facts[b].decisionSeq # u.facts[d].decisionSeq
    <2>1. v.facts[b].decisionSeq = 0 \/ v.facts[b].decisionSeq # v.facts[d].decisionSeq
      BY <1>3 DEF Sound
    <2>2. CASE b # a /\ d # a
      BY <1>2, <2>1, <2>2
    <2>3. CASE b = a
      BY <1>1, <1>2, <1>3, <2>1, <2>3
    <2>4. CASE d = a
      BY <1>1, <1>2, <1>3, <2>1, <2>4
    <2> QED
      BY <2>2, <2>3, <2>4
  <1>4. \A b \in DOMAIN c.kind : FactsAreBound(c, u, b)
    BY <1>2
  <1> QED
    BY <1>3, <1>4 DEF Sound

LEMMA PlacedAgain ==
    ASSUME NEW c, NEW v, NEW u, Placed(c, v), NEW changed, Keeps(v, u, changed), changed \subseteq {"n", "facts", "findings"},
           u.n = v.n + 1,
           "facts" \in changed => \E a \in DOMAIN c.kind : Beside(c, v, u, a) /\ DOMAIN u.facts[a] = FactFields
    PROVE  Placed(c, u)
  <1>1. DOMAIN u = ViewFields /\ u.sources = v.sources /\ u.accepts = v.accepts /\ u.n \in Nat
    BY PlacedIs DEF Keeps, ViewFields
  <1>2. DOMAIN u.facts = DOMAIN c.kind /\ \A b \in DOMAIN c.kind : DOMAIN u.facts[b] = FactFields
    <2>1. CASE "facts" \in changed
      <3>1. PICK a \in DOMAIN c.kind : Beside(c, v, u, a) /\ DOMAIN u.facts[a] = FactFields
        BY <2>1
      <3> QED
        BY <3>1 DEF Beside, Ends, KeepsFact
    <2>2. CASE "facts" \notin changed
      <3>1. u.facts = v.facts
        BY <2>2 DEF Keeps, ViewFields
      <3> QED
        BY <3>1, PlacedIs
    <2> QED
      BY <2>1, <2>2
  <1> QED
    BY <1>1, <1>2 DEF Placed, NoView, NoFacts, ViewFields, FactFields

LEMMA StillSoundObserved ==
    ASSUME NEW c, NEW v, Sound(c, v), NEW role \in {"source", "metadata.input"}, NEW sha,
           role = "source" => sha \in Texts \cup {None}
    PROVE  Sound(c, Observed(v, role, sha))
  <1> DEFINE u == Observed(v, role, sha)
  <1>1. Placed(c, v) /\ v.n \in Nat /\ DOMAIN v.sources = {"source", "metadata.input"}
    BY PlacedIs DEF Sound
  <1>2. /\ Keeps(v, u, {"n", "sources"}) /\ u.n = v.n + 1
        /\ u.sources = [v.sources EXCEPT ![role] = [sha |-> sha, at |-> v.n + 1]]
    BY <1>1, ObservedIs
  <1> HIDE DEF u
  <1>3. u.facts = v.facts /\ u.accepts = v.accepts /\ DOMAIN u = ViewFields
    BY <1>2 DEF Keeps, ViewFields
  <1>4. DOMAIN u.sources = {"source", "metadata.input"} /\ u.sources["source"].sha \in Texts \cup {None}
    BY <1>1, <1>2 DEF Placed
  <1>5. Placed(c, u)
    BY <1>1, <1>2, <1>3, <1>4 DEF Placed, NoView, ViewFields
  <1>6. \A a \in DOMAIN c.kind : FactsAreBound(c, u, a)
    BY <1>1, <1>2, <1>3 DEF Sound, FactsAreBound
  <1>7. Sound(c, u)
    BY <1>3, <1>5, <1>6 DEF Sound
  <1> QED
    BY <1>7 DEF u

LEMMA StillSoundFindings ==
    ASSUME NEW c, NEW v, Sound(c, v), NEW u, Keeps(v, u, {"n", "findings"}), u.n = v.n + 1
    PROVE  Sound(c, u)
  <1>1. Placed(c, v) /\ v.n \in Nat
    BY PlacedIs DEF Sound
  <1>2. u.facts = v.facts /\ u.accepts = v.accepts
    BY DEF Keeps, ViewFields
  <1>3. Placed(c, u)
    BY <1>1, PlacedAgain
  <1>4. \A a \in DOMAIN c.kind : FactsAreBound(c, u, a)
    BY <1>1, <1>2 DEF Sound, FactsAreBound
  <1> QED
    BY <1>2, <1>3, <1>4 DEF Sound

LEMMA StillSoundProduced ==
    ASSUME NEW c, NEW v, Sound(c, v), NEW a \in DOMAIN c.kind, NEW sha, sha.of = a,
           KindOf(c, a) = "ingest" => v.facts[a].receiptFor # None
    PROVE  Sound(c, Produced(c, v, a, sha))
  <1> DEFINE u == Produced(c, v, a, sha)
             f == v.facts[a]
             g == u.facts[a]
  <1>1. Placed(c, v) /\ v.n \in Nat /\ FactsAreBound(c, v, a)
    BY PlacedIs DEF Sound
  <1>2. /\ Keeps(v, u, {"n", "facts"}) /\ u.n = v.n + 1 /\ Beside(c, v, u, a)
        /\ KeepsFact(f, g, {"sha", "history", "epoch", "producedAt", "inherited"})
        /\ g.sha = sha /\ g.history = f.history \cup {sha} /\ g.epoch = v.n + 1
        /\ g.inherited => f.inherited
    BY <1>1, ProducedIs
  <1> HIDE DEF u
  <1>3. u.accepts = v.accepts
    BY <1>2 DEF Keeps, ViewFields
  <1>4. Placed(c, u)
    <2>1. DOMAIN u.facts[a] = FactFields
      BY <1>2 DEF KeepsFact
    <2> QED
      BY <1>1, <1>2, <2>1, PlacedAgain
  <1>5. /\ g.receiptSeq = f.receiptSeq /\ g.decisionSeq = f.decisionSeq /\ g.verdict = f.verdict
        /\ g.receiptFor = f.receiptFor /\ g.receiptInputs = f.receiptInputs
        /\ g.subject = f.subject /\ g.refs = f.refs /\ g.withdrawal = f.withdrawal
    BY <1>2 DEF KeepsFact, FactFields
  <1> HIDE DEF f, g
  <1>6. FactsAreBound(c, u, a)
    BY <1>1, <1>2, <1>3, <1>5 DEF FactsAreBound, f, g
  <1>7. Sound(c, u)
    BY <1>1, <1>2, <1>3, <1>4, <1>5, <1>6, StillSound DEF f, g
  <1> QED
    BY <1>7 DEF u

LEMMA StillSoundAnchored ==
    ASSUME NEW c, NEW v, Sound(c, v), NEW a \in DOMAIN c.kind
    PROVE  Sound(c, Anchored(v, a))
  <1> DEFINE u == Anchored(v, a)
             f == v.facts[a]
             g == u.facts[a]
  <1>1. Placed(c, v) /\ v.n \in Nat /\ FactsAreBound(c, v, a)
    BY PlacedIs DEF Sound
  <1>2. /\ Keeps(v, u, {"n", "facts"}) /\ u.n = v.n + 1 /\ Beside(c, v, u, a)
        /\ KeepsFact(f, g, {"anchored"})
    BY <1>1, AnchoredIs
  <1> HIDE DEF u
  <1>3. u.accepts = v.accepts
    BY <1>2 DEF Keeps, ViewFields
  <1>4. Placed(c, u)
    <2>1. DOMAIN u.facts[a] = FactFields
      BY <1>2 DEF KeepsFact
    <2> QED
      BY <1>1, <1>2, <2>1, PlacedAgain
  <1>5. /\ g.epoch = f.epoch /\ g.receiptSeq = f.receiptSeq /\ g.decisionSeq = f.decisionSeq
        /\ g.verdict = f.verdict /\ g.sha = f.sha /\ g.history = f.history
        /\ g.receiptFor = f.receiptFor /\ g.receiptInputs = f.receiptInputs
        /\ g.subject = f.subject /\ g.refs = f.refs /\ g.withdrawal = f.withdrawal
        /\ g.inherited = f.inherited
    BY <1>2 DEF KeepsFact, FactFields
  <1> HIDE DEF f, g
  <1>6. FactsAreBound(c, u, a)
    BY <1>1, <1>2, <1>3, <1>5 DEF FactsAreBound, f, g
  <1>7. Sound(c, u)
    BY <1>1, <1>2, <1>3, <1>4, <1>5, <1>6, StillSound DEF f, g
  <1> QED
    BY <1>7 DEF u

LEMMA StillSoundReceipted ==
    ASSUME NEW c, NEW v, Sound(c, v), NEW a \in DOMAIN c.kind, NEW receipt,
           receipt.for.from = receipt.inputs, KindOf(c, a) = "model" => receipt.for.by \in Nat,
           KindOf(c, a) = "ingest" => receipt.for # None
    PROVE  Sound(c, Receipted(c, v, a, receipt))
  <1> DEFINE u == Receipted(c, v, a, receipt)
             f == v.facts[a]
             g == u.facts[a]
             refused == c.kind[a] = "model" /\ ~Authorised(v, receipt)
  <1>1. Placed(c, v) /\ v.n \in Nat /\ FactsAreBound(c, v, a)
    BY PlacedIs DEF Sound
  <1>2. CASE refused
    <2>1. Keeps(v, u, {"n", "findings"}) /\ u.n = v.n + 1
      BY <1>1, <1>2, ReceiptedIs
    <2> QED
      BY <2>1, StillSoundFindings
  <1>3. CASE ~refused
    <2>1. /\ Keeps(v, u, {"n", "facts"}) /\ u.n = v.n + 1 /\ Beside(c, v, u, a)
          /\ KeepsFact(f, g, {"receiptFor", "receiptInputs", "receiptSeq", "epoch", "inherited"})
          /\ g.receiptFor = receipt.for /\ g.receiptInputs = receipt.inputs
          /\ g.receiptSeq = v.n + 1 /\ g.epoch = v.n + 1
          /\ ~Egress(c, a) => g.inherited = f.inherited
      BY <1>1, <1>3, ReceiptedIs
    <2> HIDE DEF u, refused
    <2>2. u.accepts = v.accepts
      BY <2>1 DEF Keeps, ViewFields
    <2>3. Placed(c, u)
      <3>1. DOMAIN u.facts[a] = FactFields
        BY <2>1 DEF KeepsFact
      <3> QED
        BY <1>1, <2>1, <3>1, PlacedAgain
    <2>4. /\ g.decisionSeq = f.decisionSeq /\ g.verdict = f.verdict /\ g.sha = f.sha /\ g.history = f.history
          /\ g.subject = f.subject /\ g.refs = f.refs /\ g.withdrawal = f.withdrawal
      BY <2>1 DEF KeepsFact, FactFields
    <2> HIDE DEF f, g
    <2>5. FactsAreBound(c, u, a)
      BY <1>1, <2>1, <2>2, <2>4 DEF FactsAreBound, f, g
    <2>6. Sound(c, u)
      BY <1>1, <2>1, <2>2, <2>3, <2>4, <2>5, StillSound DEF f, g
    <2> QED
      BY <2>6 DEF u
  <1> QED
    BY <1>2, <1>3

LEMMA StillSoundAccepted ==
    ASSUME NEW c, NEW v, Sound(c, v), NEW a \in DOMAIN c.kind, NEW d, d.verdict = "ACCEPT",
           KindOf(c, a) \in {"confirm", "gate"}, d.subject.of = a, d.refs = d.subject.from, d.at \in Nat
    PROVE  Sound(c, DecisionRecorded(c, v, a, d))
  <1> DEFINE u == DecisionRecorded(c, v, a, d)
             f == v.facts[a]
             g == u.facts[a]
  <1>1. Placed(c, v) /\ v.n \in Nat /\ FactsAreBound(c, v, a)
    BY PlacedIs DEF Sound
  <1>2. /\ Keeps(v, u, {"n", "facts", "accepts"}) /\ u.n = v.n + 1
        /\ c.confirms[a] = NoText => u.accepts = v.accepts
        /\ c.confirms[a] # NoText => AcceptsGrow(v, u, d.subject, d.at)
        /\ f.withdrawal # 0 => u.facts = v.facts
        /\ f.withdrawal = 0 =>
             /\ Beside(c, v, u, a)
             /\ KeepsFact(f, g, {"verdict", "subject", "refs", "decisionSeq", "epoch"})
             /\ g.verdict = "ACCEPT" /\ g.subject = d.subject /\ g.refs = d.refs
             /\ g.decisionSeq = v.n + 1 /\ g.epoch = v.n + 1
    BY <1>1, AcceptedIs
  <1> HIDE DEF u
  <1>3. /\ DOMAIN v.accepts \subseteq DOMAIN u.accepts
        /\ \A m \in DOMAIN u.accepts : u.accepts[m] \in Nat
        /\ c.confirms[a] # NoText => d.subject \in DOMAIN u.accepts
    BY <1>1, <1>2 DEF AcceptsGrow, Placed
  <1>4. Beside(c, v, u, a) /\ DOMAIN u.facts[a] = FactFields
    BY <1>1, <1>2, PlacedIs, EndsRefl DEF Beside, KeepsFact
  <1>5. Placed(c, u)
    <2>1. DOMAIN u = ViewFields /\ u.sources = v.sources /\ u.n \in Nat
      BY <1>1, <1>2 DEF Keeps, ViewFields
    <2>2. DOMAIN u.facts = DOMAIN c.kind /\ \A b \in DOMAIN c.kind : DOMAIN u.facts[b] = FactFields
      BY <1>4 DEF Beside, Ends, KeepsFact
    <2> QED
      BY <1>1, <1>3, <2>1, <2>2 DEF Placed, NoView, NoFacts, ViewFields, FactFields
  <1>6. FactsAreBound(c, u, a) /\ g.decisionSeq \in {f.decisionSeq, v.n + 1}
    <2>1. CASE f.withdrawal # 0
      <3>1. g = f
        BY <1>2, <2>1
      <3> HIDE DEF f, g
      <3>2. FactsAreBound(c, u, a)
        BY <1>1, <1>2, <1>3, <3>1 DEF FactsAreBound, f, g
      <3> QED
        BY <3>1, <3>2
    <2>2. CASE f.withdrawal = 0
      <3>1. /\ g.sha = f.sha /\ g.history = f.history /\ g.receiptSeq = f.receiptSeq
            /\ g.receiptFor = f.receiptFor /\ g.receiptInputs = f.receiptInputs
            /\ g.withdrawal = 0 /\ g.inherited = f.inherited
        BY <1>2, <2>2 DEF KeepsFact, FactFields
      <3> HIDE DEF f, g
      <3>2. FactsAreBound(c, u, a)
        BY <1>1, <1>2, <1>3, <2>2, <3>1 DEF FactsAreBound, Verdicts, f, g
      <3> QED
        BY <1>2, <2>2, <3>2
    <2> QED
      BY <2>1, <2>2
  <1>7. Sound(c, u)
    BY <1>2, <1>3, <1>4, <1>5, <1>6, StillSound
  <1> QED
    BY <1>7 DEF u

LEMMA StillSoundDrawn ==
    ASSUME NEW c, NEW v, Sound(c, v), NEW a \in DOMAIN c.kind, NEW d,
           \/ d.verdict = "WITHDRAW"
           \/ d.verdict = "UNDO" /\ v.facts[a].withdrawal # 0 /\ d.undo_of = v.facts[a].withdrawal
    PROVE  Sound(c, DecisionRecorded(c, v, a, d))
  <1> DEFINE u == DecisionRecorded(c, v, a, d)
             f == v.facts[a]
             g == u.facts[a]
  <1>1. Placed(c, v) /\ v.n \in Nat /\ FactsAreBound(c, v, a)
    BY PlacedIs DEF Sound
  <1>2. /\ Keeps(v, u, {"n", "facts"}) /\ u.n = v.n + 1 /\ Beside(c, v, u, a)
        /\ KeepsFact(f, g, {"verdict", "subject", "refs", "decisionSeq", "epoch", "withdrawal", "inherited"})
        /\ g.verdict = d.verdict /\ g.decisionSeq = v.n + 1 /\ g.epoch = v.n + 1
        /\ g.withdrawal # 0 => d.verdict = "WITHDRAW"
        /\ g.inherited => f.inherited
    BY <1>1, DrawnIs
  <1> HIDE DEF u
  <1>3. u.accepts = v.accepts
    BY <1>2 DEF Keeps, ViewFields
  <1>4. Placed(c, u)
    <2>1. DOMAIN u.facts[a] = FactFields
      BY <1>2 DEF KeepsFact
    <2> QED
      BY <1>1, <1>2, <2>1, PlacedAgain
  <1>5. /\ g.sha = f.sha /\ g.history = f.history /\ g.receiptSeq = f.receiptSeq
        /\ g.receiptFor = f.receiptFor /\ g.receiptInputs = f.receiptInputs
    BY <1>2 DEF KeepsFact, FactFields
  <1> HIDE DEF f, g
  <1>6. FactsAreBound(c, u, a)
    BY <1>1, <1>2, <1>5 DEF FactsAreBound, Verdicts, f, g
  <1>7. Sound(c, u)
    BY <1>1, <1>2, <1>3, <1>4, <1>6, StillSound DEF f, g
  <1> QED
    BY <1>7 DEF u

-----------------------------------------------------------------------------
(* Acts and runs, from one view to the next.                               *)
SameDecisions(c, v, u) ==
    \A a \in DOMAIN c.kind : /\ u.facts[a].verdict = v.facts[a].verdict
                             /\ u.facts[a].subject = v.facts[a].subject
                             /\ u.facts[a].decisionSeq = v.facts[a].decisionSeq

SameReceipts(c, v, u, S) ==
    \A a \in S : /\ u.facts[a].receiptFor = v.facts[a].receiptFor
                 /\ u.facts[a].receiptInputs = v.facts[a].receiptInputs
                 /\ u.facts[a].receiptSeq = v.facts[a].receiptSeq

LEMMA ActsStand ==
    ASSUME NEW c, NEW v, NEW u, NEW acts, ActsAreLinked(c, v, acts), v.n \in Nat,
           SameDecisions(c, v, u), u.accepts = v.accepts, u.n = v.n + 1
    PROVE  ActsAreLinked(c, u, acts)
  <1>1. ASSUME NEW a \in DOMAIN c.kind PROVE Linked(c, u, acts, a)
    <2>1. Linked(c, v, acts, a)
      BY DEF ActsAreLinked
    <2> QED
      BY <2>1 DEF Linked, SameDecisions
  <1> QED
    BY <1>1 DEF ActsAreLinked

LEMMA RunsStand ==
    ASSUME NEW c, NEW v, NEW u, NEW acts, RunsFollow(c, v, acts), SameReceipts(c, v, u, DOMAIN c.kind)
    PROVE  RunsFollow(c, u, acts)
  BY DEF RunsFollow, SameReceipts

(* A model's receipt is taken only when the run began after the acceptance *)
(* it appeals to.                                                          *)
LEMMA RunsAgain ==
    ASSUME NEW c, NEW v, NEW u, NEW acts, ActsAreLinked(c, v, acts), RunsFollow(c, v, acts), Sound(c, v),
           NEW w, WorkOK(c, w), NEW a \in DOMAIN c.kind, a = w.artifact,
           SameReceipts(c, v, u, DOMAIN c.kind \ {a}),
           u.facts[a].receiptFor = w.sha, u.facts[a].receiptInputs = w.inputs,
           w.kind = "model" => w.under \in DOMAIN v.accepts /\ v.accepts[w.under] <= w.at
    PROVE  RunsFollow(c, u, acts)
  <1> SUFFICES ASSUME NEW x \in DOMAIN c.kind, NEW b \in DOMAIN c.kind,
                      KindOf(c, x) = "model", b \in c.roles[x], c.confirms[b] # NoText,
                      u.facts[x].receiptFor # None, acts[b].verdict = "ACCEPT",
                      acts[b].sha = u.facts[x].receiptInputs[b], acts[b].at <= u.facts[x].receiptSeq
               PROVE  acts[b].time <= u.facts[x].receiptFor.by
    BY DEF RunsFollow
  <1>1. CASE x # a
    BY <1>1 DEF RunsFollow, SameReceipts
  <1>2. CASE x = a
    <2>1. w.kind = "model" /\ w.sha.by = w.at /\ w.under = w.inputs[b] /\ w.at \in Nat
      BY <1>2 DEF WorkOK
    <2>2. Linked(c, v, acts, b)
      BY DEF ActsAreLinked
    <2>3. acts[b].time \in Nat /\ acts[b].sha \in DOMAIN v.accepts /\ acts[b].time <= v.accepts[acts[b].sha]
      BY <2>2 DEF Linked
    <2>4. v.accepts[acts[b].sha] \in Nat
      BY <2>3 DEF Sound, Placed
    <2> QED
      BY <1>2, <2>1, <2>3, <2>4
  <1> QED
    BY <1>1, <1>2

LEMMA RunsAfterAct ==
    ASSUME NEW c, NEW v, NEW u, NEW acts, ActsAreLinked(c, v, acts), RunsFollow(c, v, acts), Sound(c, v),
           NEW a \in DOMAIN c.kind, NEW act, act.at = v.n + 1, SameReceipts(c, v, u, DOMAIN c.kind)
    PROVE  RunsFollow(c, u, [acts EXCEPT ![a] = act])
  <1> DEFINE new == [acts EXCEPT ![a] = act]
  <1>1. new[a] = act /\ \A b \in DOMAIN c.kind : b # a => new[b] = acts[b]
    BY DEF ActsAreLinked
  <1> HIDE DEF new
  <1>2. ASSUME NEW x \in DOMAIN c.kind, NEW b \in DOMAIN c.kind,
               KindOf(c, x) = "model", b \in c.roles[x], c.confirms[b] # NoText,
               u.facts[x].receiptFor # None, new[b].verdict = "ACCEPT",
               new[b].sha = u.facts[x].receiptInputs[b], new[b].at <= u.facts[x].receiptSeq
        PROVE  new[b].time <= u.facts[x].receiptFor.by
    <2>1. b # a
      <3>1. v.n \in Nat /\ v.facts[x].receiptSeq \in 0..v.facts[x].epoch /\ v.facts[x].epoch \in 0..v.n
        BY DEF Sound, Placed, FactsAreBound
      <3> QED
        BY <1>1, <1>2, <3>1 DEF SameReceipts
    <2> QED
      BY <1>1, <1>2, <2>1 DEF RunsFollow, SameReceipts
  <1>3. RunsFollow(c, u, new)
    BY <1>2 DEF RunsFollow
  <1> QED
    BY <1>3 DEF new

(* A new act is the last on its artifact and the only one at its place.    *)
LEMMA ActsAgain ==
    ASSUME NEW c, NEW v, NEW u, NEW acts, ActsAreLinked(c, v, acts), v.n \in Nat, u.n = v.n + 1,
           NEW a \in DOMAIN c.kind, NEW act, act.at = v.n + 1,
           \A b \in DOMAIN c.kind \ {a} : /\ u.facts[b].verdict = v.facts[b].verdict
                                          /\ u.facts[b].subject = v.facts[b].subject
                                          /\ u.facts[b].decisionSeq = v.facts[b].decisionSeq,
           DOMAIN v.accepts \subseteq DOMAIN u.accepts,
           \A m \in DOMAIN v.accepts : m.of # a => u.accepts[m] = v.accepts[m],
           Linked(c, u, [acts EXCEPT ![a] = act], a)
    PROVE  ActsAreLinked(c, u, [acts EXCEPT ![a] = act])
  <1> DEFINE new == [acts EXCEPT ![a] = act]
  <1>1. /\ DOMAIN new = DOMAIN c.kind /\ new[a] = act
        /\ \A b \in DOMAIN c.kind : b # a => new[b] = acts[b]
    BY DEF ActsAreLinked
  <1>2. Linked(c, u, new, a)
    OBVIOUS
  <1> HIDE DEF new
  <1>3. ASSUME NEW b \in DOMAIN c.kind, b # a PROVE Linked(c, u, new, b) /\ new[b].at \in 0..v.n
    <2>1. Linked(c, v, acts, b) /\ new[b] = acts[b]
      BY <1>1, <1>3 DEF ActsAreLinked
    <2> QED
      BY <1>3, <2>1 DEF Linked
  <1>4. ASSUME NEW b \in DOMAIN c.kind, NEW d \in DOMAIN c.kind, b # d
        PROVE  new[b].at = 0 \/ new[b].at # new[d].at
    <2>1. acts[b].at = 0 \/ acts[b].at # acts[d].at
      BY <1>4 DEF ActsAreLinked
    <2> QED
      BY <1>1, <1>3, <1>4, <2>1
  <1>5. ActsAreLinked(c, u, new)
    BY <1>1, <1>2, <1>3, <1>4 DEF ActsAreLinked
  <1> QED
    BY <1>5 DEF new

LEMMA BesideKeeps ==
    ASSUME NEW c, NEW v, NEW u, NEW a, Beside(c, v, u, a), NEW b \in DOMAIN c.kind \ {a}
    PROVE  /\ u.facts[b].verdict = v.facts[b].verdict /\ u.facts[b].subject = v.facts[b].subject
           /\ u.facts[b].decisionSeq = v.facts[b].decisionSeq
           /\ u.facts[b].receiptFor = v.facts[b].receiptFor
           /\ u.facts[b].receiptInputs = v.facts[b].receiptInputs
           /\ u.facts[b].receiptSeq = v.facts[b].receiptSeq
  BY DEF Beside, Ends, KeepsFact, FactFields

LEMMA FactKeeps ==
    ASSUME NEW f, NEW g, NEW changed, KeepsFact(f, g, changed)
    PROVE  /\ {"verdict", "subject", "decisionSeq"} \cap changed = {} =>
                g.verdict = f.verdict /\ g.subject = f.subject /\ g.decisionSeq = f.decisionSeq
           /\ {"receiptFor", "receiptInputs", "receiptSeq"} \cap changed = {} =>
                g.receiptFor = f.receiptFor /\ g.receiptInputs = f.receiptInputs /\ g.receiptSeq = f.receiptSeq
  BY DEF KeepsFact, FactFields

(* What a command with this plan may be about to write.                    *)
MayWrite(w, event) ==
    \/ event \in {"produced", "anchor", "receipt"}
    \/ event = "decision" /\ w.kind \in {"gate", "confirm"}
    \/ event = "publish" /\ w.kind = "export"
    \/ event = "observe" /\ w.kind = "derive"

Wrote(c, v, u, acts, new, w, event) ==
    /\ Sound(c, u) /\ ActsAreLinked(c, u, new) /\ RunsFollow(c, u, new)
    /\ SameReceipts(c, v, u, DOMAIN c.kind \ {w.artifact})
    /\ w.kind = "export" => Alike(c, v, u)
    /\ w.kind = "ingest" /\ event = "receipt" => u.facts[w.artifact].receiptFor = w.sha

AcceptOf(w, at) == [verdict |-> "ACCEPT", sha |-> w.sha, at |-> at, time |-> w.at]

LEMMA WroteObservation ==
    ASSUME NEW c, NEW v, NEW acts, ChainIsBound(c), Sound(c, v), ActsAreLinked(c, v, acts), RunsFollow(c, v, acts),
           NEW w, w.kind = "derive", NEW sha
    PROVE  Wrote(c, v, Observed(v, "metadata.input", sha), acts, acts, w, "observe")
  <1> DEFINE u == Observed(v, "metadata.input", sha)
  <1>1. Placed(c, v) /\ v.n \in Nat
    BY PlacedIs DEF Sound
  <1>2. /\ Keeps(v, u, {"n", "sources"}) /\ u.n = v.n + 1
        /\ u.sources = [v.sources EXCEPT !["metadata.input"] = [sha |-> sha, at |-> v.n + 1]]
    BY <1>1, ObservedIs
  <1>3. Sound(c, u)
    BY StillSoundObserved
  <1> HIDE DEF u
  <1>4. u.facts = v.facts /\ u.accepts = v.accepts
    BY <1>2 DEF Keeps, ViewFields
  <1>5. SameDecisions(c, v, u) /\ SameReceipts(c, v, u, DOMAIN c.kind) /\ SameReceipts(c, v, u, DOMAIN c.kind \ {w.artifact})
    BY <1>4 DEF SameDecisions, SameReceipts
  <1>6. Wrote(c, v, u, acts, acts, w, "observe")
    BY <1>1, <1>2, <1>3, <1>4, <1>5, ActsStand, RunsStand DEF Wrote
  <1> QED
    BY <1>6 DEF u

LEMMA WroteAside ==
    ASSUME NEW c, NEW v, NEW u, NEW acts, Sound(c, v), Sound(c, u),
           ActsAreLinked(c, v, acts), RunsFollow(c, v, acts),
           NEW w, WorkOK(c, w), NEW event \in {"produced", "anchor"},
           Keeps(v, u, {"n", "facts"}), u.n = v.n + 1, Beside(c, v, u, w.artifact),
           NEW changed, KeepsFact(v.facts[w.artifact], u.facts[w.artifact], changed),
           changed \subseteq {"sha", "history", "epoch", "producedAt", "inherited", "anchored"},
           w.kind = "export" => Egress(c, w.artifact)
    PROVE  Wrote(c, v, u, acts, acts, w, event)
  <1>1. Placed(c, v) /\ Placed(c, u) /\ v.n \in Nat /\ w.artifact \in DOMAIN c.kind
    BY PlacedIs DEF Sound, WorkOK
  <1>2. u.accepts = v.accepts /\ u.sources = v.sources
    BY DEF Keeps, ViewFields
  <1>3. SameDecisions(c, v, u) /\ SameReceipts(c, v, u, DOMAIN c.kind) /\ SameReceipts(c, v, u, DOMAIN c.kind \ {w.artifact})
    <2>1. /\ u.facts[w.artifact].verdict = v.facts[w.artifact].verdict
          /\ u.facts[w.artifact].subject = v.facts[w.artifact].subject
          /\ u.facts[w.artifact].decisionSeq = v.facts[w.artifact].decisionSeq
          /\ u.facts[w.artifact].receiptFor = v.facts[w.artifact].receiptFor
          /\ u.facts[w.artifact].receiptInputs = v.facts[w.artifact].receiptInputs
          /\ u.facts[w.artifact].receiptSeq = v.facts[w.artifact].receiptSeq
      BY FactKeeps
    <2> QED
      BY <2>1, BesideKeeps DEF SameDecisions, SameReceipts
  <1>4. w.kind = "export" => Alike(c, v, u)
    BY <1>1, <1>2, PlacedIs DEF Alike, Beside
  <1> QED
    BY <1>1, <1>2, <1>3, <1>4, ActsStand, RunsStand DEF Wrote

LEMMA WroteReceipt ==
    ASSUME NEW c, NEW v, NEW acts, ChainIsBound(c), Sound(c, v), ActsAreLinked(c, v, acts), RunsFollow(c, v, acts),
           NEW w, WorkOK(c, w)
    PROVE  Wrote(c, v, Receipted(c, v, w.artifact,
                                 [for |-> w.sha, inputs |-> w.inputs, under |-> w.under, start |-> w.at]),
                 acts, acts, w, "receipt")
  <1> DEFINE a == w.artifact
             r == [for |-> w.sha, inputs |-> w.inputs, under |-> w.under, start |-> w.at]
             u == Receipted(c, v, a, r)
             refused == c.kind[a] = "model" /\ ~Authorised(v, r)
  <1>1. Placed(c, v) /\ v.n \in Nat /\ a \in DOMAIN c.kind /\ w.kind = KindOf(c, a)
    BY PlacedIs DEF Sound, WorkOK
  <1>2. r.for = w.sha /\ r.inputs = w.inputs /\ r.under = w.under /\ r.start = w.at
    OBVIOUS
  <1> HIDE DEF r
  <1>3. Sound(c, u)
    <2>1. r.for.from = r.inputs /\ (KindOf(c, a) = "model" => r.for.by \in Nat)
      BY <1>1, <1>2 DEF WorkOK
    <2>2. KindOf(c, a) = "ingest" => r.for # None
      BY <1>1, <1>2, WorkflowAssumption DEF WorkOK
    <2> QED
      BY <1>1, <2>1, <2>2, StillSoundReceipted
  <1>4. w.kind = "model" <=> c.kind[a] = "model"
    BY KindIs
  <1>5. w.kind = "export" => Egress(c, a)
    BY KindIs
  <1>6. CASE refused
    <2>1. Keeps(v, u, {"n", "findings"}) /\ u.n = v.n + 1
      BY <1>1, <1>6, ReceiptedIs
    <2> HIDE DEF u
    <2>2. u.facts = v.facts /\ u.accepts = v.accepts /\ w.kind \notin {"ingest", "export"}
      BY <1>4, <1>6, <2>1 DEF Keeps, ViewFields
    <2>3. SameDecisions(c, v, u) /\ SameReceipts(c, v, u, DOMAIN c.kind) /\ SameReceipts(c, v, u, DOMAIN c.kind \ {a})
      BY <2>2 DEF SameDecisions, SameReceipts
    <2>4. Wrote(c, v, u, acts, acts, w, "receipt")
      BY <1>1, <1>3, <2>1, <2>2, <2>3, ActsStand, RunsStand DEF Wrote
    <2> QED
      BY <2>4 DEF u, r
  <1>7. CASE ~refused
    <2>1. /\ Keeps(v, u, {"n", "facts"}) /\ u.n = v.n + 1 /\ Beside(c, v, u, a)
          /\ KeepsFact(v.facts[a], u.facts[a], {"receiptFor", "receiptInputs", "receiptSeq", "epoch", "inherited"})
          /\ u.facts[a].receiptFor = r.for /\ u.facts[a].receiptInputs = r.inputs
      BY <1>1, <1>7, ReceiptedIs, SMTT(30)
    <2>2. w.kind = "model" => w.under \in DOMAIN v.accepts /\ v.accepts[w.under] <= w.at
      BY <1>2, <1>4, <1>7 DEF Authorised
    <2> HIDE DEF u
    <2>3. u.accepts = v.accepts /\ u.sources = v.sources
      BY <2>1 DEF Keeps, ViewFields
    <2>4. SameDecisions(c, v, u) /\ SameReceipts(c, v, u, DOMAIN c.kind \ {a})
      <3>1. /\ u.facts[a].verdict = v.facts[a].verdict /\ u.facts[a].subject = v.facts[a].subject
            /\ u.facts[a].decisionSeq = v.facts[a].decisionSeq
        BY <2>1, FactKeeps
      <3> QED
        BY <2>1, <3>1, BesideKeeps DEF SameDecisions, SameReceipts
    <2>5. w.kind = "export" => Alike(c, v, u)
      BY <1>1, <1>5, <2>1, <2>3, PlacedIs DEF Alike, Beside
    <2>6. RunsFollow(c, u, acts)
      BY <1>1, <1>2, <2>1, <2>2, <2>4, RunsAgain
    <2>7. Wrote(c, v, u, acts, acts, w, "receipt")
      BY <1>1, <1>2, <1>3, <2>1, <2>3, <2>4, <2>5, <2>6, ActsStand DEF Wrote
    <2> QED
      BY <2>7 DEF u, r
  <1> QED
    BY <1>6, <1>7

LEMMA WroteDecision ==
    ASSUME NEW c, NEW v, NEW acts, ChainIsBound(c), Sound(c, v), ActsAreLinked(c, v, acts), RunsFollow(c, v, acts),
           NEW w, WorkOK(c, w), w.kind \in {"gate", "confirm"},
           NEW d, d = [verdict |-> "ACCEPT", subject |-> w.sha, refs |-> w.inputs, undo_of |-> 0, at |-> w.at],
           NEW u, u = DecisionRecorded(c, v, w.artifact, d)
    PROVE  Wrote(c, v, u, acts, [acts EXCEPT ![w.artifact] = AcceptOf(w, u.n)], w, "decision")
  <1> DEFINE a == w.artifact
             act == AcceptOf(w, u.n)
             new == [acts EXCEPT ![a] = act]
             f == v.facts[a]
             g == u.facts[a]
  <1>1. Placed(c, v) /\ v.n \in Nat /\ a \in DOMAIN c.kind /\ w.kind = KindOf(c, a)
    BY PlacedIs DEF Sound, WorkOK
  <1>2. /\ d.verdict = "ACCEPT" /\ d.subject = w.sha /\ d.refs = w.inputs /\ d.at = w.at
    OBVIOUS
  <1>3. /\ Keeps(v, u, {"n", "facts", "accepts"}) /\ u.n = v.n + 1
        /\ c.confirms[a] = NoText => u.accepts = v.accepts
        /\ c.confirms[a] # NoText => AcceptsGrow(v, u, d.subject, d.at)
        /\ f.withdrawal # 0 => u.facts = v.facts
        /\ f.withdrawal = 0 =>
             /\ Beside(c, v, u, a)
             /\ KeepsFact(f, g, {"verdict", "subject", "refs", "decisionSeq", "epoch"})
             /\ g.verdict = "ACCEPT" /\ g.subject = d.subject /\ g.decisionSeq = v.n + 1
    BY <1>1, <1>2, AcceptedIs
  <1>4. Sound(c, u)
    BY <1>1, <1>2, StillSoundAccepted DEF WorkOK
  <1>5. w.sha.of = a /\ w.at \in Nat
    BY DEF WorkOK
  <1>6. Beside(c, v, u, a) /\ SameReceipts(c, v, u, DOMAIN c.kind)
    <2>1. CASE f.withdrawal # 0
      BY <1>1, <1>3, <2>1, PlacedIs, EndsRefl DEF Beside, SameReceipts
    <2>2. CASE f.withdrawal = 0
      <3>1. Beside(c, v, u, a) /\ KeepsFact(f, g, {"verdict", "subject", "refs", "decisionSeq", "epoch"})
        BY <1>3, <2>2
      <3>2. /\ g.receiptFor = f.receiptFor /\ g.receiptInputs = f.receiptInputs /\ g.receiptSeq = f.receiptSeq
        BY <3>1, FactKeeps
      <3>3. SameReceipts(c, v, u, DOMAIN c.kind)
        BY <3>1, <3>2, BesideKeeps DEF SameReceipts
      <3> QED
        BY <3>1, <3>3
    <2> QED
      BY <2>1, <2>2
  <1>7. act.at = v.n + 1 /\ act.verdict = "ACCEPT" /\ act.sha = w.sha /\ act.time = w.at
    BY <1>3 DEF AcceptOf
  <1>8. new[a] = act
    BY <1>1 DEF ActsAreLinked
  <1> HIDE DEF act
  <1>9. /\ DOMAIN v.accepts \subseteq DOMAIN u.accepts
        /\ \A m \in DOMAIN v.accepts : m.of # a => u.accepts[m] = v.accepts[m]
        /\ c.confirms[a] # NoText => w.sha \in DOMAIN u.accepts /\ u.accepts[w.sha] = w.at
    BY <1>2, <1>3, <1>5 DEF AcceptsGrow
  <1> HIDE DEF new
  <1>10. Linked(c, u, new, a)
    <2>1. g.verdict # None /\ (g.verdict = "ACCEPT" => g.subject = w.sha /\ g.decisionSeq = v.n + 1)
      <3>1. CASE f.withdrawal # 0
        <4>1. f.verdict = "WITHDRAW"
          BY <1>1, <3>1 DEF Sound, FactsAreBound
        <4> QED
          BY <1>3, <3>1, <4>1, WorkflowAssumption DEF Verdicts
      <3>2. CASE f.withdrawal = 0
        BY <1>2, <1>3, <3>2, WorkflowAssumption DEF Verdicts
      <3> QED
        BY <3>1, <3>2
    <2> HIDE DEF f, g
    <2>2. /\ act.at \in 0..u.n /\ act.time \in Nat /\ act.time <= w.at
      BY <1>1, <1>3, <1>5, <1>7
    <2> QED
      BY <1>3, <1>5, <1>7, <1>8, <1>9, <2>1, <2>2 DEF Linked, g
  <1>11. ActsAreLinked(c, u, new)
    <2>1. /\ u.n = v.n + 1 /\ act.at = v.n + 1 /\ v.n \in Nat /\ a \in DOMAIN c.kind
          /\ \A b \in DOMAIN c.kind \ {a} : /\ u.facts[b].verdict = v.facts[b].verdict
                                            /\ u.facts[b].subject = v.facts[b].subject
                                            /\ u.facts[b].decisionSeq = v.facts[b].decisionSeq
      BY <1>1, <1>3, <1>6, <1>7, BesideKeeps
    <2> QED
      BY <1>9, <1>10, <2>1, ActsAgain, SMTT(30) DEF new
  <1>12. RunsFollow(c, u, new)
    BY <1>1, <1>6, <1>7, RunsAfterAct DEF new
  <1>13. Wrote(c, v, u, acts, new, w, "decision")
    BY <1>4, <1>6, <1>11, <1>12 DEF Wrote, SameReceipts
  <1> QED
    BY <1>13 DEF new, act

LEMMA WroteNothing ==
    ASSUME NEW c, NEW v, NEW acts, Sound(c, v), ActsAreLinked(c, v, acts), RunsFollow(c, v, acts), NEW w, NEW event,
           w.kind = "ingest" /\ event = "receipt" => v.facts[w.artifact].receiptFor = w.sha
    PROVE  Wrote(c, v, v, acts, acts, w, event)
  <1>1. DOMAIN v.facts = DOMAIN c.kind
    BY PlacedIs DEF Sound
  <1> QED
    BY <1>1 DEF Wrote, SameReceipts, Alike

LEMMA AppliedWrites ==
    ASSUME NEW c, NEW v, NEW acts, ChainIsBound(c), Sound(c, v), ActsAreLinked(c, v, acts), RunsFollow(c, v, acts),
           NEW w, WorkOK(c, w), NEW event, MayWrite(w, event),
           w.kind = "ingest" /\ event = "produced" => v.facts[w.artifact].receiptFor = w.sha,
           NEW u, u = Applied(c, v, w, event),
           NEW new, new = IF event = "decision" THEN [acts EXCEPT ![w.artifact] = AcceptOf(w, u.n)] ELSE acts
    PROVE  Wrote(c, v, u, acts, new, w, event)
  <1>1. Placed(c, v) /\ w.artifact \in DOMAIN c.kind /\ w.kind = KindOf(c, w.artifact) /\ w.sha.of = w.artifact
    BY DEF Sound, WorkOK
  <1>2. w.kind = "export" => Egress(c, w.artifact)
    BY KindIs
  <1>3. CASE event = "observe"
    <2>1. u = Observed(v, "metadata.input", w.inputs["metadata.input"]) /\ new = acts /\ w.kind = "derive"
      BY <1>3 DEF Applied, MayWrite
    <2> QED
      BY <1>3, <2>1, WroteObservation
  <1>4. CASE event = "produced"
    <2>1. u = Produced(c, v, w.artifact, w.sha) /\ new = acts
      BY <1>4 DEF Applied
    <2>2. KindOf(c, w.artifact) = "ingest" => v.facts[w.artifact].receiptFor # None
      BY <1>1, <1>4, WorkflowAssumption DEF WorkOK
    <2>3. Sound(c, u)
      BY <1>1, <2>1, <2>2, StillSoundProduced
    <2>4. /\ Keeps(v, u, {"n", "facts"}) /\ u.n = v.n + 1 /\ Beside(c, v, u, w.artifact)
          /\ KeepsFact(v.facts[w.artifact], u.facts[w.artifact], {"sha", "history", "epoch", "producedAt", "inherited"})
      BY <1>1, <2>1, ProducedIs
    <2> QED
      BY <1>2, <1>4, <2>1, <2>3, <2>4, WroteAside
  <1>5. CASE event = "anchor"
    <2>1. u = Anchored(v, w.artifact) /\ new = acts
      BY <1>5 DEF Applied
    <2>2. Sound(c, u)
      BY <1>1, <2>1, StillSoundAnchored
    <2>3. /\ Keeps(v, u, {"n", "facts"}) /\ u.n = v.n + 1 /\ Beside(c, v, u, w.artifact)
          /\ KeepsFact(v.facts[w.artifact], u.facts[w.artifact], {"anchored"})
      BY <1>1, <2>1, AnchoredIs
    <2> QED
      BY <1>2, <1>5, <2>1, <2>2, <2>3, WroteAside
  <1>6. CASE event = "receipt"
    <2>1. u = Receipted(c, v, w.artifact,
                        [for |-> w.sha, inputs |-> w.inputs, under |-> w.under, start |-> w.at]) /\ new = acts
      BY <1>6 DEF Applied
    <2> QED
      BY <1>6, <2>1, WroteReceipt
  <1>7. CASE event = "decision"
    <2> DEFINE d == [verdict |-> "ACCEPT", subject |-> w.sha, refs |-> w.inputs, undo_of |-> 0, at |-> w.at]
    <2>1. u = DecisionRecorded(c, v, w.artifact, d) /\ w.kind \in {"gate", "confirm"}
      BY <1>7 DEF Applied, MayWrite
    <2>2. new = [acts EXCEPT ![w.artifact] = AcceptOf(w, u.n)]
      BY <1>7
    <2>3. Wrote(c, v, u, acts, [acts EXCEPT ![w.artifact] = AcceptOf(w, u.n)], w, "decision")
      BY <2>1, WroteDecision, Zenon
    <2> QED
      BY <1>7, <2>2, <2>3
  <1>8. CASE event = "publish"
    <2>1. u = v /\ new = acts
      BY <1>8 DEF Applied
    <2> QED
      BY <1>8, <2>1, WroteNothing
  <1> QED
    BY <1>3, <1>4, <1>5, <1>6, <1>7, <1>8 DEF MayWrite

-----------------------------------------------------------------------------
(* Plans.                                                                  *)
LEMMA AheadIs ==
    ASSUME NEW w, w.kind \in WorkKinds, NEW todo, Ahead(w, todo)
    PROVE  /\ todo # << >> /\ MayWrite(w, Head(todo))
           /\ Tail(todo) = << >> \/ Ahead(w, Tail(todo))
           /\ w.kind = "ingest" =>
                \/ Head(todo) = "receipt" /\ Tail(todo) = <<"produced">>
                \/ Head(todo) = "produced" /\ todo = <<"produced">> /\ Tail(todo) = << >>
           /\ w.kind = "confirm" /\ Head(todo) = "anchor" => Tail(todo) = << >>
           /\ Head(todo) = "publish" => w.kind = "export"
           /\ Head(todo) = "decision" => w.kind \in {"gate", "confirm"}
  <1>1. CASE w.kind = "ingest"
    <2>1. todo = <<"receipt", "produced">> \/ todo = <<"produced">>
      BY <1>1 DEF Ahead, IngestTodo
    <2>2. CASE todo = <<"receipt", "produced">>
      <3>1. Head(todo) = "receipt" /\ Tail(todo) = <<"produced">> /\ todo # << >>
        BY <2>2
      <3> QED
        BY <1>1, <3>1 DEF Ahead, MayWrite
    <2>3. CASE todo = <<"produced">>
      <3>1. Head(todo) = "produced" /\ Tail(todo) = << >> /\ todo # << >>
        BY <2>3
      <3> QED
        BY <1>1, <2>3, <3>1 DEF Ahead, MayWrite
    <2> QED
      BY <2>1, <2>2, <2>3
  <1>2. CASE w.kind = "confirm"
    <2>1. todo = <<"produced", "decision", "anchor">> \/ todo = <<"decision", "anchor">> \/ todo = <<"anchor">>
      BY <1>2 DEF Ahead, ConfirmTodo
    <2>2. CASE todo = <<"produced", "decision", "anchor">>
      <3>1. Head(todo) = "produced" /\ Tail(todo) = <<"decision", "anchor">> /\ todo # << >>
        BY <2>2
      <3> QED
        BY <1>2, <3>1 DEF Ahead, MayWrite
    <2>3. CASE todo = <<"decision", "anchor">>
      <3>1. Head(todo) = "decision" /\ Tail(todo) = <<"anchor">> /\ todo # << >>
        BY <2>3
      <3> QED
        BY <1>2, <3>1 DEF Ahead, MayWrite
    <2>4. CASE todo = <<"anchor">>
      <3>1. Head(todo) = "anchor" /\ Tail(todo) = << >> /\ todo # << >>
        BY <2>4
      <3> QED
        BY <1>2, <3>1 DEF Ahead, MayWrite
    <2> QED
      BY <2>1, <2>2, <2>3, <2>4
  <1>3. CASE w.kind \notin {"ingest", "confirm"}
    <2>1. todo \in Seq(EventsOf(w.kind)) /\ todo # << >>
      BY <1>3 DEF Ahead, WorkKinds
    <2>2. Head(todo) \in EventsOf(w.kind) /\ Tail(todo) \in Seq(EventsOf(w.kind))
      BY <2>1
    <2>3. Tail(todo) = << >> \/ Ahead(w, Tail(todo))
      BY <1>3, <2>2 DEF Ahead, WorkKinds
    <2>4. MayWrite(w, Head(todo))
      BY <2>2 DEF MayWrite, EventsOf
    <2> QED
      BY <1>3, <2>1, <2>3, <2>4 DEF MayWrite
  <1> QED
    BY <1>1, <1>2, <1>3

LEMMA TodoIs ==
    ASSUME NEW c, NEW w, w.kind \in WorkKinds
    PROVE  Ahead(w, Todo(c, w)) /\ (w.kind = "ingest" => Todo(c, w) = IngestTodo)
  <1>1. CASE w.kind = "ingest"
    BY <1>1 DEF Ahead, Todo
  <1>2. CASE w.kind = "confirm"
    BY <1>2 DEF Ahead, Todo
  <1>3. CASE w.kind = "gate"
    BY <1>3 DEF Ahead, Todo, GateTodo, EventsOf
  <1>4. CASE w.kind = "model"
    BY <1>4 DEF Ahead, Todo, ModelTodo, EventsOf
  <1>5. CASE w.kind = "export"
    BY <1>5 DEF Ahead, Todo, ExportTodo, EventsOf
  <1>6. CASE w.kind = "derive"
    <2> DEFINE E == EventsOf("derive")
               first == IF w.artifact = "metadata.draft" THEN <<"observe">> ELSE << >>
               third == IF c.contract[w.artifact].binding THEN <<"anchor">> ELSE << >>
               todo == first \o <<"produced">> \o third \o <<"receipt">>
    <2>1. first \in Seq(E) /\ third \in Seq(E) /\ <<"produced">> \in Seq(E) /\ <<"receipt">> \in Seq(E)
      <3>1. {"observe", "anchor", "produced", "receipt"} \subseteq E
        BY DEF EventsOf
      <3> HIDE DEF E
      <3>2. /\ << >> \in Seq(E) /\ <<"observe">> \in Seq(E) /\ <<"anchor">> \in Seq(E)
            /\ <<"produced">> \in Seq(E) /\ <<"receipt">> \in Seq(E)
        BY <3>1
      <3> QED
        BY <3>2
    <2>2. Todo(c, w) = todo
      BY <1>6 DEF Todo, DeriveTodo
    <2> HIDE DEF first, third, E
    <2>3. todo \in Seq(E)
      BY <2>1
    <2>4. Len(todo) # 0
      BY <2>1
    <2> HIDE DEF todo
    <2>5. todo # << >>
      BY <2>4
    <2> QED
      BY <1>6, <2>2, <2>3, <2>5 DEF Ahead, E
  <1> QED
    BY <1>1, <1>2, <1>3, <1>4, <1>5, <1>6 DEF WorkKinds

LEMMA PlanIsOK ==
    ASSUME NEW c, NEW v, NEW input, ChainIsBound(c), Sound(c, v), NEW a \in DOMAIN c.kind, NEW time \in Nat,
           KindOf(c, a) = "ingest" => v.sources["source"].sha # None
    PROVE  LET w == Plan(c, v, input, a, time)
           IN  WorkOK(c, w) /\ w.artifact = a /\ w.kind = KindOf(c, a)
  <1> DEFINE kind == KindOf(c, a)
             inputs == InputsOf(c, v, input, a)
             w == Plan(c, v, input, a, time)
  <1>1. /\ w.kind = kind /\ w.artifact = a /\ w.inputs = inputs /\ w.at = time
        /\ w.sha = Content(a, inputs, IF kind = "model" THEN time ELSE 0)
        /\ w.under = IF kind = "model" THEN MarkerOf(c, v, a) ELSE None
    BY DEF Plan
  <1> HIDE DEF w
  <1>2. w.sha.of = a /\ w.sha.from = inputs /\ w.sha.by = IF kind = "model" THEN time ELSE 0
    BY <1>1 DEF Content
  <1>3. StepsAreBound(c, a) /\ a \notin {"source", "metadata.input"}
    BY BoundIs
  <1>4. CASE kind = "model"
    <2>1. PICK gate \in c.requires[a] : /\ c.confirms[gate] # NoText
                                       /\ \A b \in c.behind[a] \cup c.roles[a] : c.confirms[b] # NoText => b = gate
      BY <1>3, <1>4 DEF StepsAreBound
    <2>2. c.requires[a] \subseteq c.roles[a] /\ c.roles[a] \subseteq DOMAIN c.kind
      BY <1>3 DEF StepsAreBound
    <2>3. (CHOOSE role \in c.requires[a] : c.confirms[role] # NoText) = gate
      BY <2>1, <2>2
    <2>4. w.under = v.facts[gate].sha
      BY <1>1, <1>4, <2>3 DEF MarkerOf
    <2>5. gate \in InputRoles(c, a) /\ gate \notin {"source", "metadata.input"}
      <3>1. gate \in DOMAIN c.kind
        BY <2>1, <2>2
      <3>2. a # "transcript.revision"
        BY <1>4, BoundIs
      <3> QED
        BY <1>4, <2>1, <2>2, <3>1, <3>2, BoundIs DEF InputRoles
    <2>6. inputs[gate] = v.facts[gate].sha
      BY <2>5 DEF InputsOf
    <2>7. \A b \in c.roles[a] : c.confirms[b] # NoText => w.under = w.inputs[b]
      BY <1>1, <2>1, <2>4, <2>6
    <2> HIDE DEF inputs, kind
    <2> QED
      BY <1>1, <1>2, <1>4, <2>7 DEF WorkOK, w, kind
  <1>5. CASE kind = "ingest"
    <2>1. a = "transcript.revision"
      BY <1>5, BoundIs
    <2>2. inputs = [role \in {"source"} |-> v.sources["source"].sha]
      <3>1. InputRoles(c, a) = {"source"}
        BY <1>5, <2>1 DEF InputRoles
      <3> QED
        BY <3>1 DEF InputsOf
    <2>3. v.sources["source"].sha \in Texts
      BY <1>5 DEF Sound, Placed
    <2>4. w.sha = TextOf(v.sources["source"].sha)
      BY <1>1, <1>5, <2>1, <2>2 DEF TextOf, Content
    <2> HIDE DEF inputs, kind
    <2> QED
      BY <1>1, <1>2, <1>5, <2>3, <2>4 DEF WorkOK, w, kind
  <1>6. CASE kind = "export"
    <2>1. c.requires[a] = {"release.approved"} /\ a = "export.bundle"
      BY <1>3, <1>6 DEF StepsAreBound
    <2>2. DOMAIN inputs = {"release.approved"}
      BY <1>6, <2>1 DEF InputsOf, InputRoles
    <2> HIDE DEF inputs, kind
    <2> QED
      BY <1>1, <1>2, <1>6, <2>2 DEF WorkOK, w, kind
  <1>7. CASE kind \notin {"model", "ingest", "export"}
    <2> HIDE DEF inputs, kind
    <2> QED
      BY <1>1, <1>2, <1>7 DEF WorkOK, w, kind
  <1> QED
    BY <1>4, <1>5, <1>6, <1>7

-----------------------------------------------------------------------------
(* Jobs, from one state to the next.                                       *)
LEMMA IdleIs == ASSUME NEW j, j.at \in {"plan", "write", "append"} PROVE j # Idle
  BY DEF Idle

LEMMA IdleIsOK == ASSUME NEW c, NEW v PROVE JobOK(c, v, Idle) /\ ~UnderLock(Idle)
  BY DEF JobOK, UnderLock

LEMMA CheckedStill ==
    ASSUME NEW c, NEW v, NEW u, ChainIsBound(c), Sound(c, v), NEW w, NEW todo, Checked(c, v, w, todo),
           w.kind = "ingest" => u.facts[w.artifact].receiptFor = v.facts[w.artifact].receiptFor,
           w.kind = "export" => Alike(c, v, u)
    PROVE  Checked(c, u, w, todo)
  <1>1. CASE w.kind = "export"
    <2> DEFINE r == "release.approved"
    <2>1. r \in Have(c, v) /\ v.facts[r].sha = w.inputs[r]
      BY <1>1 DEF Checked
    <2>2. r \in DOMAIN c.kind
      BY <2>1, HaveIsSettled
    <2>3. KindOf(c, r) = "gate"
      BY <2>2 DEF ChainIsBound
    <2>4. ~Egress(c, r)
      BY <2>2, <2>3, BoundIs
    <2>5. r \in Have(c, u) /\ u.facts[r] = v.facts[r]
      BY <1>1, <2>1, <2>2, <2>4, HaveAlike DEF Alike
    <2> QED
      BY <1>1, <2>1, <2>5 DEF Checked
  <1>2. CASE w.kind # "export"
    BY <1>2 DEF Checked
  <1> QED
    BY <1>1, <1>2

LEMMA JobStill ==
    ASSUME NEW c, NEW v, NEW u, ChainIsBound(c), Sound(c, v), NEW j, JobOK(c, v, j),
           UnderLock(j) => /\ j.work.kind = "ingest" =>
                                u.facts[j.work.artifact].receiptFor = v.facts[j.work.artifact].receiptFor
                           /\ j.work.kind = "export" => Alike(c, v, u)
    PROVE  JobOK(c, u, j)
  BY CheckedStill DEF JobOK

(* Everything but the jobs, the lock and the bounds.                       *)
RecordOK(c, v, acts) ==
    ChainIsBound(c) /\ Sound(c, v) /\ ActsAreLinked(c, v, acts) /\ RunsFollow(c, v, acts)

LEMMA WorkInvIs ==
    WorkInv <=> /\ RecordOK(chain, view, lastAct) /\ JobsOK
                /\ clock \in Nat /\ file \in MetadataInputs \cup {None} /\ LeftOK
  BY DEF WorkInv, RecordOK

LEMMA SpendIs ==
    ASSUME LeftOK, NEW item \in Items, Spend(item)
    PROVE  LeftOK'
  BY DEF LeftOK, Spend, Items

LEMMA DrawnWrites ==
    ASSUME NEW c, NEW v, NEW acts, RecordOK(c, v, acts), NEW a \in DOMAIN c.kind, NEW d,
           \/ d.verdict = "WITHDRAW"
           \/ d.verdict = "UNDO" /\ v.facts[a].withdrawal # 0 /\ d.undo_of = v.facts[a].withdrawal,
           NEW u, u = DecisionRecorded(c, v, a, d),
           NEW act, act.verdict = d.verdict, act.at = u.n, act.time \in Nat
    PROVE  RecordOK(c, u, [acts EXCEPT ![a] = act])
  <1> DEFINE new == [acts EXCEPT ![a] = act]
             f == v.facts[a]
             g == u.facts[a]
  <1>1. Placed(c, v) /\ v.n \in Nat /\ Sound(c, v) /\ ActsAreLinked(c, v, acts) /\ RunsFollow(c, v, acts)
    BY PlacedIs DEF Sound, RecordOK
  <1>2. /\ Keeps(v, u, {"n", "facts"}) /\ u.n = v.n + 1 /\ Beside(c, v, u, a)
        /\ KeepsFact(f, g, {"verdict", "subject", "refs", "decisionSeq", "epoch", "withdrawal", "inherited"})
        /\ g.verdict = d.verdict
    BY <1>1, DrawnIs
  <1>3. Sound(c, u)
    BY <1>1, StillSoundDrawn
  <1>4. u.accepts = v.accepts
    BY <1>2 DEF Keeps, ViewFields
  <1>5. new[a] = act
    BY <1>1 DEF ActsAreLinked
  <1>6. SameReceipts(c, v, u, DOMAIN c.kind)
    <2>1. g.receiptFor = f.receiptFor /\ g.receiptInputs = f.receiptInputs /\ g.receiptSeq = f.receiptSeq
      BY <1>2, FactKeeps
    <2> QED
      BY <1>2, <2>1, BesideKeeps DEF SameReceipts
  <1> HIDE DEF new
  <1>7. Linked(c, u, new, a)
    <2>1. g.verdict # None /\ g.verdict # "ACCEPT" /\ act.verdict # "ACCEPT"
      BY <1>2, WorkflowAssumption DEF Verdicts
    <2> HIDE DEF g
    <2> QED
      BY <1>1, <1>2, <1>5, <2>1 DEF Linked, g
  <1>8. ActsAreLinked(c, u, new)
    BY <1>1, <1>2, <1>4, <1>7, ActsAgain, BesideKeeps DEF new
  <1>9. RunsFollow(c, u, new)
    BY <1>1, <1>2, <1>6, RunsAfterAct DEF new
  <1>10. RecordOK(c, u, new)
    BY <1>3, <1>8, <1>9 DEF RecordOK
  <1> QED
    BY <1>10 DEF new

LEMMA ObservationWrites ==
    ASSUME NEW c, NEW v, NEW acts, RecordOK(c, v, acts), NEW role \in {"source", "metadata.input"}, NEW sha,
           role = "source" => sha \in Texts \cup {None}
    PROVE  RecordOK(c, Observed(v, role, sha), acts)
  <1> DEFINE u == Observed(v, role, sha)
  <1>1. Placed(c, v) /\ v.n \in Nat /\ Sound(c, v) /\ ActsAreLinked(c, v, acts) /\ RunsFollow(c, v, acts)
    BY PlacedIs DEF Sound, RecordOK
  <1>2. /\ Keeps(v, u, {"n", "sources"}) /\ u.n = v.n + 1
        /\ u.sources = [v.sources EXCEPT ![role] = [sha |-> sha, at |-> v.n + 1]]
    <2>1. Placed(c, v)
      BY <1>1
    <2> QED
        BY <2>1, PlacedIs DEF Observed, Keeps, ViewFields
  <1>3. Sound(c, u)
    BY <1>1, StillSoundObserved
  <1> HIDE DEF u
  <1>4. u.facts = v.facts /\ u.accepts = v.accepts
    BY <1>2 DEF Keeps, ViewFields
  <1>5. SameDecisions(c, v, u) /\ SameReceipts(c, v, u, DOMAIN c.kind)
    BY <1>4 DEF SameDecisions, SameReceipts
  <1>6. RecordOK(c, u, acts)
    BY <1>1, <1>2, <1>3, <1>4, <1>5, ActsStand, RunsStand DEF RecordOK
  <1> QED
    BY <1>6 DEF u

-----------------------------------------------------------------------------
(* A record nothing has been written about is sound: what is assumed of a  *)
(* scenario holds of the first one, and what the commands make of it.      *)
LEMMA NothingIsSound ==
    ASSUME NEW c
    PROVE  Sound(c, NoView(c))
  <1> DEFINE v == NoView(c)
  <1>1. /\ DOMAIN v = DOMAIN NoView(c) /\ v.n = 0
        /\ v.facts = [a \in DOMAIN c.kind |-> NoFacts] /\ v.accepts = << >>
        /\ v.sources = [role \in {"source", "metadata.input"} |-> [sha |-> None, at |-> 0]]
    BY DEF NoView
  <1> HIDE DEF v
  <1>2. Placed(c, v)
    BY <1>1 DEF Placed
  <1>3. ASSUME NEW a \in DOMAIN c.kind PROVE FactsAreBound(c, v, a) /\ v.facts[a].decisionSeq = 0
    <2>1. v.facts[a] = NoFacts
      BY <1>1
    <2>2. None # "ACCEPT"
      BY WorkflowAssumption DEF Verdicts
    <2> QED
      BY <1>1, <2>1, <2>2 DEF FactsAreBound, NoFacts
  <1>4. Sound(c, v)
    BY <1>2, <1>3 DEF Sound
  <1> QED
    BY <1>4 DEF v

-----------------------------------------------------------------------------
(* The invariant holds where a scenario starts, and every action keeps it. *)
LEMMA ZeroOrWithin ==
    ASSUME NEW n \in Nat, NEW d \in 0..n, NEW x, x = 0 \/ x = d
    PROVE  x \in 0..n
  OBVIOUS

LEMMA StartIsLinked ==
    ASSUME NEW c, NEW v, ChainIsBound(c), Sound(c, v), NEW acts,
           acts = [a \in DOMAIN c.kind |->
                     LET f == v.facts[a]
                     IN  IF f.verdict = None THEN NoAct
                         ELSE [verdict |-> f.verdict, sha |-> f.subject, at |-> f.decisionSeq, time |-> 0]]
    PROVE  RecordOK(c, v, acts)
  <1>1. v.n \in Nat /\ \A m \in DOMAIN v.accepts : v.accepts[m] \in Nat
    BY DEF Sound, Placed
  <1>2. ASSUME NEW a \in DOMAIN c.kind
        PROVE  LET f == v.facts[a]
               IN  /\ acts[a].verdict = f.verdict /\ acts[a].time = 0
                   /\ f.verdict = None => acts[a].at = 0
                   /\ f.verdict # None => acts[a].at = f.decisionSeq /\ acts[a].sha = f.subject
    BY DEF NoAct
  <1>3. \A a \in DOMAIN c.kind : FactsAreBound(c, v, a)
    BY DEF Sound
  <1>4. ASSUME NEW a \in DOMAIN c.kind PROVE Linked(c, v, acts, a)
    <2> DEFINE f == v.facts[a]
    <2>1. /\ acts[a].verdict = f.verdict /\ acts[a].time = 0
          /\ f.verdict = None => acts[a].at = 0
          /\ f.verdict # None => acts[a].at = f.decisionSeq /\ acts[a].sha = f.subject
      BY <1>2
    <2>2. /\ f.decisionSeq \in 0..v.n
          /\ f.verdict = "ACCEPT" /\ c.confirms[a] # NoText => f.subject.of = a /\ f.subject \in DOMAIN v.accepts
      BY <1>1, <1>3 DEF FactsAreBound
    <2>3. None # "ACCEPT"
      BY WorkflowAssumption DEF Verdicts
    <2> HIDE DEF f
    <2>4. /\ acts[a].at \in 0..v.n /\ acts[a].time \in Nat
          /\ f.verdict = None => acts[a].at = 0 /\ acts[a].time = 0 /\ acts[a].verdict # "ACCEPT"
          /\ f.verdict = "ACCEPT" => acts[a].verdict = "ACCEPT" /\ acts[a].sha = f.subject /\ acts[a].at = f.decisionSeq
          /\ c.confirms[a] # NoText /\ acts[a].verdict = "ACCEPT" =>
               acts[a].sha.of = a /\ acts[a].sha \in DOMAIN v.accepts /\ acts[a].time <= v.accepts[acts[a].sha]
      <3>1. acts[a].verdict = "ACCEPT" => f.verdict = "ACCEPT" /\ f.verdict # None /\ acts[a].sha = f.subject
        <4>1. acts[a].verdict = f.verdict
          BY <2>1
        <4>2. f.verdict # None => acts[a].sha = f.subject
          BY <2>1
        <4> QED
          BY <2>3, <4>1, <4>2
      <3>2. f.subject \in DOMAIN v.accepts => 0 <= v.accepts[f.subject]
        BY <1>1
      <3>3. acts[a].at \in 0..v.n
        <4>1. acts[a].at = 0 \/ acts[a].at = f.decisionSeq
          BY <2>1
        <4>2. v.n \in Nat
          BY <1>1
        <4>3. f.decisionSeq \in 0..v.n
          BY <2>2
        <4> QED
          BY <4>1, <4>2, <4>3, ZeroOrWithin, Zenon
      <3>4. c.confirms[a] # NoText /\ acts[a].verdict = "ACCEPT" =>
               acts[a].sha.of = a /\ acts[a].sha \in DOMAIN v.accepts /\ acts[a].time <= v.accepts[acts[a].sha]
        BY <2>1, <2>2, <3>1, <3>2
      <3>5. f.verdict = None => acts[a].verdict # "ACCEPT"
        BY <2>1, <2>3
      <3>6. f.verdict = "ACCEPT" => acts[a].verdict = "ACCEPT" /\ acts[a].sha = f.subject /\ acts[a].at = f.decisionSeq
        BY <2>1, <3>1
      <3>7. acts[a].time = 0 /\ (f.verdict = None => acts[a].at = 0)
        BY <2>1
      <3>8. acts[a].time \in Nat
        BY <3>7
      <3> QED
        BY <3>3, <3>4, <3>5, <3>6, <3>7, <3>8, Zenon
    <2> QED
      BY <2>4, Zenon DEF Linked, f
  <1>5. ASSUME NEW a \in DOMAIN c.kind, NEW b \in DOMAIN c.kind, a # b
        PROVE  acts[a].at = 0 \/ acts[a].at # acts[b].at
    <2>1. v.facts[a].decisionSeq = 0 \/ v.facts[a].decisionSeq # v.facts[b].decisionSeq
      BY <1>5 DEF Sound
    <2>2. v.facts[a].verdict # None => v.facts[a].decisionSeq # 0
      BY <1>3 DEF FactsAreBound
    <2> QED
      BY <1>2, <2>1, <2>2
  <1>6. ActsAreLinked(c, v, acts)
    BY <1>4, <1>5 DEF ActsAreLinked
  <1>7. RunsFollow(c, v, acts)
    <2>1. ASSUME NEW a \in DOMAIN c.kind, KindOf(c, a) = "model", v.facts[a].receiptFor # None
          PROVE  0 <= v.facts[a].receiptFor.by
      BY <1>3, <2>1 DEF FactsAreBound
    <2>2. \A b \in DOMAIN c.kind : acts[b].time = 0
      BY <1>2
    <2> QED
      BY <2>1, <2>2 DEF RunsFollow
  <1> QED
    BY <1>6, <1>7 DEF RecordOK

LEMMA StartsSound == Init => WorkInv
  <1> SUFFICES ASSUME Init PROVE WorkInv
    OBVIOUS
  <1>1. PICK sc \in Scenarios :
          /\ chain = sc.chain /\ file = sc.file /\ view = sc.view
          /\ job = [p \in Processes |-> Idle] /\ wlock = None /\ published = {}
          /\ lastAct = [a \in Artefacts |->
                          LET f == view.facts[a]
                          IN  IF f.verdict = None THEN NoAct
                              ELSE [verdict |-> f.verdict, sha |-> f.subject, at |-> f.decisionSeq, time |-> 0]]
          /\ clock = 0 /\ left = sc.left
    BY DEF Init
  <1>2. /\ ChainIsBound(chain) /\ Sound(chain, view) /\ file \in MetadataInputs \cup {None} /\ LeftOK
        /\ None \notin Processes
    BY <1>1, WorkflowAssumption DEF LeftOK
  <1>3. RecordOK(chain, view, lastAct)
    BY <1>1, <1>2, StartIsLinked DEF Artefacts
  <1>4. JobsOK
    BY <1>1, <1>2, IdleIsOK DEF JobsOK
  <1> QED
    BY <1>1, <1>2, <1>3, <1>4, WorkInvIs

LEMMA BeginKeeps ==
    ASSUME WorkInv, NEW p \in Processes, NEW a \in Artefacts, Begin(p, a)
    PROVE  WorkInv'
  <1> DEFINE w == Plan(chain, view, file, a, clock + 1)
             todo == Todo(chain, w)
             j == [at |-> IF Holds(w, Head(todo)) THEN "plan" ELSE "write",
                   work |-> w, todo |-> todo, seen |-> Seen(a), skip |-> FALSE]
  <1>1. /\ RecordOK(chain, view, lastAct) /\ ChainIsBound(chain) /\ Sound(chain, view) /\ JobsOK /\ LeftOK
        /\ clock \in Nat /\ a \in DOMAIN chain.kind /\ file \in MetadataInputs \cup {None}
    BY WorkInvIs DEF RecordOK, Artefacts
  <1>2. /\ job[p] = Idle /\ MayPlan(w, have)
        /\ job' = [job EXCEPT ![p] = j] /\ clock' \in {clock, clock + 1}
        /\ UNCHANGED <<chain, view, wlock, file, published, lastAct>>
        /\ Spend("again") \/ Spend("plan")
    BY DEF Begin
  <1>3. w.kind = KindOf(chain, a) /\ w.inputs = InputsOf(chain, view, file, a)
    BY DEF Plan
  <1>4. KindOf(chain, a) = "ingest" => view.sources["source"].sha # None
    <2> SUFFICES ASSUME KindOf(chain, a) = "ingest" PROVE view.sources["source"].sha # None
      OBVIOUS
    <2>1. w.inputs["source"] # None
      BY <1>2, <1>3 DEF MayPlan, MayIngest
    <2>2. a = "transcript.revision"
      BY <1>1, BoundIs
    <2>3. w.inputs["source"] = view.sources["source"].sha
      BY <1>3, <2>2 DEF InputsOf, InputRoles
    <2> QED
      BY <2>1, <2>3
  <1>5. WorkOK(chain, w)
    BY <1>1, <1>4, PlanIsOK
  <1>6. w.kind \in WorkKinds
    BY <1>1, <1>5, KindIs
  <1> HIDE DEF w
  <1>7. Ahead(w, todo) /\ (w.kind = "ingest" => todo = IngestTodo)
    BY <1>6, TodoIs
  <1> HIDE DEF todo
  <1>8. JobOK(chain, view, j) /\ ~UnderLock(j)
    <2>1. /\ DOMAIN j = {"at", "work", "todo", "seen", "skip"} /\ j.work = w /\ j.todo = todo
          /\ j.at \in {"plan", "write"} /\ (j.at = "plan" <=> Holds(w, Head(todo)))
      OBVIOUS
    <2> HIDE DEF j
    <2> QED
      BY <1>5, <1>7, <2>1 DEF JobOK, UnderLock
  <1> HIDE DEF j
  <1>9. JobsOK'
    <2>1. wlock # p
      BY <1>1, <1>2, IdleIsOK DEF JobsOK
    <2>2. job'[p] = j /\ (\A q \in Processes : q # p => job'[q] = job[q]) /\ DOMAIN job' = Processes
      BY <1>1, <1>2 DEF JobsOK
    <2>3. /\ wlock' \in Processes \cup {None}
          /\ \A q \in Processes : JobOK(chain', view', job'[q]) /\ (wlock' = q <=> UnderLock(job'[q]))
      BY <1>1, <1>2, <1>8, <2>1, <2>2 DEF JobsOK
    <2> QED
      BY <2>2, <2>3 DEF JobsOK
  <1>10. LeftOK'
    BY <1>1, <1>2, SpendIs DEF Items
  <1>11. RecordOK(chain', view', lastAct')
    BY <1>1, <1>2
  <1> QED
    BY <1>1, <1>2, <1>9, <1>10, <1>11 DEF WorkInv, RecordOK

LEMMA EnterKeeps ==
    ASSUME WorkInv, NEW p \in Processes, Enter(p)
    PROVE  WorkInv'
  <1> DEFINE j == job[p]
             k == [j EXCEPT !.at = "write"]
             w == j.work
  <1>1. /\ RecordOK(chain, view, lastAct) /\ ChainIsBound(chain) /\ Sound(chain, view) /\ JobsOK /\ LeftOK
        /\ clock \in Nat /\ file \in MetadataInputs \cup {None} /\ None \notin Processes
    BY WorkInvIs, WorkflowAssumption DEF RecordOK
  <1>2. /\ j.at = "plan" /\ wlock = None
        /\ \/ PlanStands(w, j.seen) /\ wlock' = p /\ job' = [job EXCEPT ![p].at = "write"]
           \/ job' = [job EXCEPT ![p] = Idle] /\ wlock' = wlock
        /\ UNCHANGED <<chain, view, file, published, lastAct, clock, left>>
    BY DEF Enter
  <1>3. JobOK(chain, view, j) /\ DOMAIN job = Processes /\ j # Idle
        /\ \A q \in Processes : JobOK(chain, view, job[q]) /\ ~UnderLock(job[q])
    BY <1>1, <1>2, IdleIs DEF JobsOK
  <1>4. CASE PlanStands(w, j.seen) /\ wlock' = p /\ job' = [job EXCEPT ![p].at = "write"]
    <2>1. /\ DOMAIN k = {"at", "work", "todo", "seen", "skip"} /\ k.at = "write" /\ k.work = w /\ k.todo = j.todo
          /\ WorkOK(chain, w) /\ Ahead(w, j.todo) /\ Holds(w, Head(j.todo))
          /\ w.kind = "ingest" => j.todo = IngestTodo
      BY <1>2, <1>3 DEF JobOK
    <2>2. Checked(chain, view, w, j.todo)
      <3>1. w.kind = "ingest" => j.todo # <<"produced">>
        BY <2>1 DEF IngestTodo
      <3>2. ASSUME w.kind = "export"
            PROVE  /\ "release.approved" \in have
                   /\ view.facts["release.approved"].sha = w.inputs["release.approved"]
        <4>1. "release.approved" \in DOMAIN w.inputs
          BY <2>1, <3>2 DEF WorkOK
        <4> QED
          BY <1>4, <3>2, <4>1 DEF PlanStands
      <3> QED
        BY <3>1, <3>2 DEF Checked, have
    <2>3. job'[p] = k /\ (\A q \in Processes : q # p => job'[q] = job[q]) /\ DOMAIN job' = Processes
      BY <1>3, <1>4
    <2> HIDE DEF k, j, w
    <2>4. JobOK(chain, view, k) /\ UnderLock(k)
      BY <2>1, <2>2, IdleIs DEF JobOK, UnderLock
    <2>5. \A q \in Processes : JobOK(chain', view', job'[q]) /\ (wlock' = q <=> UnderLock(job'[q]))
      BY <1>2, <1>3, <1>4, <2>3, <2>4
    <2>6. JobsOK'
      BY <1>4, <2>3, <2>5 DEF JobsOK
    <2> QED
      BY <1>1, <1>2, <2>6 DEF WorkInv, RecordOK, LeftOK
  <1>5. CASE job' = [job EXCEPT ![p] = Idle] /\ wlock' = wlock
    <2>1. job'[p] = Idle /\ (\A q \in Processes : q # p => job'[q] = job[q]) /\ DOMAIN job' = Processes
      BY <1>3, <1>5
    <2>2. \A q \in Processes : JobOK(chain', view', job'[q]) /\ (wlock' = q <=> UnderLock(job'[q]))
      BY <1>1, <1>2, <1>3, <1>5, <2>1, IdleIsOK DEF JobsOK
    <2>3. JobsOK'
      BY <1>1, <1>5, <2>1, <2>2 DEF JobsOK
    <2> QED
      BY <1>1, <1>2, <2>3 DEF WorkInv, RecordOK, LeftOK
  <1> QED
    BY <1>2, <1>4, <1>5

LEMMA LookKeeps ==
    ASSUME WorkInv, NEW p \in Processes, Look(p)
    PROVE  WorkInv'
  <1> DEFINE j == job[p]
             skip == Skip(chain, view, j.work, Head(j.todo))
             k == [j EXCEPT !.at = "append", !.skip = skip]
  <1>1. /\ RecordOK(chain, view, lastAct) /\ JobsOK /\ LeftOK /\ clock \in Nat
        /\ file \in MetadataInputs \cup {None}
    BY WorkInvIs
  <1>2. /\ j.at = "write" /\ j.work.kind \in {"model", "derive"}
        /\ job' = [job EXCEPT ![p].at = "append", ![p].skip = skip]
        /\ UNCHANGED <<chain, view, wlock, file, published, lastAct, clock, left>>
    BY DEF Look, LooksFirst
  <1>3. JobOK(chain, view, j) /\ DOMAIN job = Processes /\ j # Idle /\ (wlock = p <=> UnderLock(j))
    BY <1>1, <1>2, IdleIs DEF JobsOK
  <1> HIDE DEF skip
  <1>4. /\ DOMAIN k = {"at", "work", "todo", "seen", "skip"} /\ k.at = "append" /\ k.work = j.work
        /\ k.todo = j.todo /\ WorkOK(chain, j.work) /\ Ahead(j.work, j.todo)
    BY <1>3 DEF JobOK
  <1>5. job'[p] = k /\ (\A q \in Processes : q # p => job'[q] = job[q]) /\ DOMAIN job' = Processes
    BY <1>2, <1>3
  <1>6. ~UnderLock(j)
    BY <1>2 DEF UnderLock, Holds
  <1> HIDE DEF k, j
  <1>7. JobOK(chain, view, k) /\ ~UnderLock(k)
    BY <1>2, <1>4 DEF JobOK, UnderLock
  <1>8. \A q \in Processes : JobOK(chain', view', job'[q]) /\ (wlock' = q <=> UnderLock(job'[q]))
    BY <1>1, <1>2, <1>3, <1>5, <1>6, <1>7 DEF JobsOK
  <1>9. JobsOK'
    BY <1>1, <1>2, <1>5, <1>8 DEF JobsOK
  <1> QED
    BY <1>1, <1>2, <1>9 DEF WorkInv, RecordOK, LeftOK

(* Whatever one process writes, what another found under the lock stands:  *)
(* the journal is closed to it while a gate or the export is at work, and  *)
(* nobody else writes about the text.                                      *)
LEMMA OthersStand ==
    ASSUME WorkInv, NEW p \in Processes, NEW q \in Processes, q # p,
           job[p].at \in {"write", "append"}, Reaches(p, Head(job[p].todo)),
           NEW u, SameReceipts(chain, view, u, DOMAIN chain.kind \ {job[p].work.artifact})
    PROVE  JobOK(chain, u, job[q])
  <1>1. /\ ChainIsBound(chain) /\ Sound(chain, view) /\ JobsOK
    BY DEF WorkInv
  <1>2. /\ JobOK(chain, view, job[p]) /\ job[p] # Idle /\ (wlock = p <=> UnderLock(job[p]))
        /\ JobOK(chain, view, job[q]) /\ (wlock = q <=> UnderLock(job[q]))
    BY <1>1, IdleIs DEF JobsOK
  <1>3. ASSUME UnderLock(job[q])
        PROVE  /\ job[q].work.kind # "export"
               /\ job[q].work.kind = "ingest" =>
                    u.facts[job[q].work.artifact].receiptFor = view.facts[job[q].work.artifact].receiptFor
    <2>1. wlock = q /\ wlock # p /\ q # None
      BY <1>2, <1>3, WorkflowAssumption
    <2>2. job[q].work.kind \notin {"gate", "export"}
      BY <2>1 DEF Reaches, Transaction
    <2>3. ASSUME job[q].work.kind = "ingest"
          PROVE  u.facts[job[q].work.artifact].receiptFor = view.facts[job[q].work.artifact].receiptFor
      <3>1. job[q].work.artifact = "transcript.revision" /\ job[q].work.artifact \in DOMAIN chain.kind
        BY <1>1, <1>2, <1>3, <2>3, KindIs DEF JobOK, UnderLock
      <3>2. job[p].work.kind # "ingest"
        BY <1>2, <2>1 DEF JobOK, UnderLock, Holds
      <3>3. job[p].work.artifact # "transcript.revision"
        BY <1>1, <1>2, <3>2, KindIs DEF JobOK
      <3> QED
        BY <3>1, <3>3 DEF SameReceipts
    <2> QED
      BY <2>2, <2>3
  <1> QED
    BY <1>1, <1>2, <1>3, JobStill

LEMMA WriteKeeps ==
    ASSUME WorkInv, NEW p \in Processes, Write(p)
    PROVE  WorkInv'
  <1> DEFINE j == job[p]
             w == j.work
             event == Head(j.todo)
             rest == Tail(j.todo)
             skip == IF LooksFirst(p) THEN j.skip ELSE Skip(chain, view, w, event)
             k == [j EXCEPT !.at = "write", !.todo = rest, !.skip = FALSE]
  <1>1. /\ RecordOK(chain, view, lastAct) /\ ChainIsBound(chain) /\ Sound(chain, view)
        /\ ActsAreLinked(chain, view, lastAct) /\ RunsFollow(chain, view, lastAct)
        /\ JobsOK /\ LeftOK /\ clock \in Nat /\ file \in MetadataInputs \cup {None} /\ None \notin Processes
    BY WorkInvIs, WorkflowAssumption DEF RecordOK
  <1>2. /\ j.at \in {"write", "append"} /\ (LooksFirst(p) => j.at = "append") /\ Reaches(p, event)
        /\ view' = IF skip THEN view ELSE Applied(chain, view, w, event)
        /\ lastAct' = IF event = "decision" /\ ~skip
                      THEN [lastAct EXCEPT ![w.artifact] =
                               [verdict |-> "ACCEPT", sha |-> w.sha, at |-> view'.n, time |-> w.at]]
                      ELSE lastAct
        /\ job' = [job EXCEPT ![p] = IF rest = << >> THEN Idle ELSE k]
        /\ wlock' = IF wlock = p /\ (rest = << >> \/ ~Holds(w, Head(rest))) THEN None ELSE wlock
        /\ UNCHANGED <<chain, file, clock, left>>
    BY DEF Write
  <1>3. JobOK(chain, view, j) /\ DOMAIN job = Processes /\ j # Idle /\ (wlock = p <=> UnderLock(j))
    BY <1>1, <1>2, IdleIs DEF JobsOK
  <1>4. /\ WorkOK(chain, w) /\ w.kind \in WorkKinds /\ Ahead(w, j.todo) /\ MayWrite(w, event)
        /\ rest = << >> \/ Ahead(w, rest)
        /\ j.at = "append" => w.kind \in {"model", "derive"}
        /\ UnderLock(j) => Checked(chain, view, w, j.todo)
        /\ DOMAIN j = {"at", "work", "todo", "seen", "skip"}
    BY <1>1, <1>3, KindIs, AheadIs DEF JobOK
  <1>5. /\ w.kind = "ingest" => \/ event = "receipt" /\ rest = <<"produced">>
                                \/ event = "produced" /\ j.todo = <<"produced">> /\ rest = << >>
        /\ w.kind = "confirm" /\ event = "anchor" => rest = << >>
    BY <1>4, AheadIs
  <1>6. w.kind \in {"ingest", "export"} => UnderLock(j)
    BY <1>2, <1>3, <1>4 DEF UnderLock, Holds
  <1>7. Wrote(chain, view, view', lastAct, lastAct', w, event)
    <2>1. w.kind = "ingest" /\ event = "produced" => view.facts[w.artifact].receiptFor = w.sha
      BY <1>4, <1>5, <1>6 DEF Checked
    <2>2. CASE skip
      <3>1. w.kind = "ingest" /\ event = "receipt" => view.facts[w.artifact].receiptFor = w.sha
        <4> SUFFICES ASSUME w.kind = "ingest", event = "receipt" PROVE view.facts[w.artifact].receiptFor = w.sha
          OBVIOUS
        <4>1. Skip(chain, view, w, event)
          BY <2>2 DEF LooksFirst
        <4> QED
          BY <4>1 DEF Skip, Repeats
      <3>2. view' = view /\ lastAct' = lastAct
        BY <1>2, <2>2
      <3> HIDE DEF j, w, event, skip
      <3> QED
        BY <1>1, <3>1, <3>2, WroteNothing
    <2>3. CASE ~skip
      <3>1. view' = Applied(chain, view, w, event)
        BY <1>2, <2>3
      <3>2. lastAct' = IF event = "decision" THEN [lastAct EXCEPT ![w.artifact] = AcceptOf(w, view'.n)] ELSE lastAct
        BY <1>2, <2>3 DEF AcceptOf
      <3> HIDE DEF j, w, event, skip
      <3> QED
        BY <1>1, <1>4, <2>1, <3>1, <3>2, AppliedWrites
    <2> QED
      BY <2>2, <2>3
  <1>8. /\ RecordOK(chain', view', lastAct')
        /\ SameReceipts(chain, view, view', DOMAIN chain.kind \ {w.artifact})
    BY <1>1, <1>2, <1>7 DEF Wrote, RecordOK
  <1>9. \A q \in Processes : q # p => JobOK(chain', view', job'[q]) /\ (wlock' = q <=> UnderLock(job'[q]))
    <2> SUFFICES ASSUME NEW q \in Processes, q # p
                 PROVE  JobOK(chain', view', job'[q]) /\ (wlock' = q <=> UnderLock(job'[q]))
      OBVIOUS
    <2>1. job'[q] = job[q] /\ chain' = chain
      BY <1>2, <1>3
    <2>2. JobOK(chain, view', job[q])
      BY <1>2, <1>8, OthersStand
    <2>3. wlock' = q <=> wlock = q
      BY <1>1, <1>2
    <2>4. wlock = q <=> UnderLock(job[q])
      BY <1>1 DEF JobsOK
    <2> QED
      BY <2>1, <2>2, <2>3, <2>4
  <1>10. JobOK(chain', view', job'[p]) /\ (wlock' = p <=> UnderLock(job'[p]))
    <2>1. CASE rest = << >>
      <3>1. job'[p] = Idle /\ wlock' # p
        BY <1>1, <1>2, <1>3, <2>1
      <3> QED
        BY <3>1, IdleIsOK
    <2>2. CASE rest # << >>
      <3>1. job'[p] = k /\ chain' = chain
        BY <1>2, <1>3, <2>2
      <3>2. /\ DOMAIN k = {"at", "work", "todo", "seen", "skip"} /\ k.at = "write" /\ k.work = w /\ k.todo = rest
        BY <1>4
      <3> HIDE DEF k
      <3>3. k # Idle
        BY <3>2, IdleIs
      <3>4. UnderLock(k) <=> Holds(w, Head(rest))
        BY <3>2, <3>3 DEF UnderLock
      <3>5. wlock' = p <=> UnderLock(k)
        <4>1. CASE wlock = p
          BY <1>1, <1>2, <2>2, <3>4, <4>1
        <4>2. CASE wlock # p
          <5>1. ~UnderLock(j) /\ wlock' # p
            BY <1>2, <1>3, <4>2
          <5>2. ~Holds(w, Head(rest))
            BY <1>2, <1>3, <1>4, <1>5, <2>2, <5>1 DEF UnderLock, Holds
          <5> QED
            BY <3>4, <5>1, <5>2
        <4> QED
          BY <4>1, <4>2
      <3>6. Checked(chain, view', w, rest)
        <4>1. CASE w.kind = "ingest"
          BY <1>5, <1>7, <2>2, <4>1 DEF Wrote, Checked
        <4>2. CASE w.kind = "export"
          <5>1. Checked(chain, view, w, j.todo) /\ Alike(chain, view, view')
            BY <1>4, <1>6, <1>7, <4>2 DEF Wrote
          <5>2. Checked(chain, view, w, rest)
            BY <4>2, <5>1 DEF Checked
          <5> QED
            BY <1>1, <4>2, <5>1, <5>2, CheckedStill
        <4>3. CASE w.kind \notin {"ingest", "export"}
          BY <4>3 DEF Checked
        <4> QED
          BY <4>1, <4>2, <4>3
      <3> HIDE DEF j, w, rest, event, skip
      <3>7. JobOK(chain, view', k)
        BY <1>4, <2>2, <3>2, <3>6 DEF JobOK
      <3> QED
        BY <3>1, <3>5, <3>7
    <2> QED
      BY <2>1, <2>2
  <1>11. JobsOK'
    <2>1. DOMAIN job' = Processes /\ wlock' \in Processes \cup {None}
      BY <1>1, <1>2, <1>3 DEF JobsOK
    <2> QED
      BY <1>9, <1>10, <2>1 DEF JobsOK
  <1> QED
    BY <1>1, <1>2, <1>8, <1>11 DEF WorkInv, RecordOK, LeftOK

LEMMA StopKeeps ==
    ASSUME WorkInv, NEW p \in Processes, Stop(p)
    PROVE  WorkInv'
  <1>1. /\ RecordOK(chain, view, lastAct) /\ JobsOK /\ LeftOK /\ clock \in Nat
        /\ file \in MetadataInputs \cup {None} /\ None \notin Processes
    BY WorkInvIs, WorkflowAssumption
  <1>2. /\ job' = [job EXCEPT ![p] = Idle] /\ wlock' = IF wlock = p THEN None ELSE wlock
        /\ Spend("stop") /\ UNCHANGED <<chain, view, file, published, lastAct, clock>>
    BY DEF Stop
  <1>3. job'[p] = Idle /\ (\A q \in Processes : q # p => job'[q] = job[q]) /\ DOMAIN job' = Processes
    BY <1>1, <1>2 DEF JobsOK
  <1>4. \A q \in Processes : JobOK(chain', view', job'[q]) /\ (wlock' = q <=> UnderLock(job'[q]))
    BY <1>1, <1>2, <1>3, IdleIsOK DEF JobsOK
  <1>5. wlock' \in Processes \cup {None}
    BY <1>1, <1>2 DEF JobsOK
  <1>6. JobsOK'
    BY <1>3, <1>4, <1>5 DEF JobsOK
  <1>7. LeftOK'
    BY <1>1, <1>2, SpendIs DEF Items
  <1> QED
    BY <1>1, <1>2, <1>6, <1>7 DEF WorkInv, RecordOK

(* What is done under both locks by one who finds the workspace lock free. *)
LEMMA AsideKeeps ==
    ASSUME WorkInv, wlock = None, RecordOK(chain, view', lastAct'), chain' = chain, LeftOK',
           UNCHANGED <<job, wlock, file, clock>>
    PROVE  WorkInv'
  <1>1. /\ ChainIsBound(chain) /\ Sound(chain, view) /\ JobsOK /\ clock \in Nat
        /\ file \in MetadataInputs \cup {None} /\ None \notin Processes
    BY WorkflowAssumption DEF WorkInv
  <1>2. ASSUME NEW q \in Processes PROVE JobOK(chain, view', job[q]) /\ ~UnderLock(job[q])
    <2>1. JobOK(chain, view, job[q]) /\ ~UnderLock(job[q])
      BY <1>1 DEF JobsOK
    <2> QED
      BY <1>1, <2>1, JobStill
  <1>3. JobsOK'
    BY <1>1, <1>2 DEF JobsOK
  <1> QED
    BY <1>1, <1>3 DEF WorkInv, RecordOK

LEMMA ActKeeps ==
    ASSUME WorkInv, NEW a \in Artefacts, NEW verdict, NEW undo_of, Act(a, verdict, undo_of),
           \/ verdict = "WITHDRAW"
           \/ verdict = "UNDO" /\ view.facts[a].withdrawal # 0 /\ undo_of = view.facts[a].withdrawal
    PROVE  WorkInv'
  <1> DEFINE d == [verdict |-> verdict, subject |-> view.facts[a].sha, refs |-> << >>,
                   undo_of |-> undo_of, at |-> clock]
             act == [verdict |-> verdict, sha |-> view.facts[a].sha, at |-> view'.n, time |-> clock]
  <1>1. RecordOK(chain, view, lastAct) /\ LeftOK /\ clock \in Nat /\ a \in DOMAIN chain.kind
    BY WorkInvIs DEF Artefacts
  <1>2. /\ wlock = None /\ Spend("act")
        /\ view' = DecisionRecorded(chain, view, a, d)
        /\ lastAct' = [lastAct EXCEPT ![a] = act]
        /\ UNCHANGED <<chain, job, wlock, file, published, clock>>
    BY DEF Act
  <1>3. d.verdict = verdict /\ d.undo_of = undo_of /\ act.verdict = verdict /\ act.at = view'.n /\ act.time \in Nat
    BY <1>1
  <1> HIDE DEF d, act
  <1>4. RecordOK(chain, view', [lastAct EXCEPT ![a] = act])
    BY <1>1, <1>2, <1>3, DrawnWrites
  <1>5. LeftOK'
    BY <1>1, <1>2, SpendIs DEF Items
  <1> QED
    BY <1>2, <1>4, <1>5, AsideKeeps

LEMMA WithdrawKeeps == ASSUME WorkInv, NEW a \in Artefacts, Withdraw(a) PROVE WorkInv'
  BY ActKeeps DEF Withdraw

LEMMA UndoKeeps == ASSUME WorkInv, NEW a \in Artefacts, Undo(a) PROVE WorkInv'
  BY ActKeeps DEF Undo

LEMMA DeliverKeeps == ASSUME WorkInv, NEW s \in Texts, Deliver(s) PROVE WorkInv'
  <1>1. RecordOK(chain, view, lastAct) /\ LeftOK
    BY WorkInvIs
  <1>2. /\ wlock = None /\ Spend("deliver") /\ view' = Observed(view, "source", s)
        /\ UNCHANGED <<chain, job, wlock, file, published, lastAct, clock>>
    BY DEF Deliver
  <1>3. RecordOK(chain, Observed(view, "source", s), lastAct)
    BY <1>1, ObservationWrites
  <1>4. LeftOK'
    BY <1>1, <1>2, SpendIs DEF Items
  <1>5. RecordOK(chain, view', lastAct')
    BY <1>2, <1>3
  <1> QED
    BY <1>2, <1>4, <1>5, AsideKeeps

LEMMA EditFileKeeps == ASSUME WorkInv, NEW m \in MetadataInputs \cup {None}, EditFile(m) PROVE WorkInv'
  <1>1. /\ RecordOK(chain, view, lastAct) /\ JobsOK /\ LeftOK /\ clock \in Nat
    BY WorkInvIs
  <1>2. file' = m /\ Spend("edit") /\ UNCHANGED <<chain, view, job, wlock, published, lastAct, clock>>
    BY DEF EditFile
  <1>3. LeftOK'
    BY <1>1, <1>2, SpendIs DEF Items
  <1> QED
    BY <1>1, <1>2, <1>3 DEF WorkInv, RecordOK, JobsOK

LEMMA RefreshKeeps == ASSUME WorkInv, Refresh PROVE WorkInv'
  <1>1. RecordOK(chain, view, lastAct) /\ LeftOK
    BY WorkInvIs
  <1>2. /\ wlock = None /\ view' = Observed(view, "metadata.input", file)
        /\ UNCHANGED <<chain, job, wlock, file, published, lastAct, clock, left>>
    BY DEF Refresh
  <1>3. RecordOK(chain, Observed(view, "metadata.input", file), lastAct)
    BY <1>1, ObservationWrites
  <1>4. LeftOK' /\ RecordOK(chain, view', lastAct')
    BY <1>1, <1>2, <1>3 DEF LeftOK
  <1> QED
    BY <1>2, <1>4, AsideKeeps

LEMMA StepKeeps == WorkInv /\ [Next]_vars => WorkInv'
  <1> SUFFICES ASSUME WorkInv, [Next]_vars PROVE WorkInv'
    OBVIOUS
  <1>1. CASE \E p \in Processes : Enter(p) \/ Look(p) \/ Write(p) \/ Stop(p)
    BY <1>1, EnterKeeps, LookKeeps, WriteKeeps, StopKeeps
  <1>2. CASE \E p \in Processes, a \in Artefacts : Begin(p, a)
    BY <1>2, BeginKeeps
  <1>3. CASE \E a \in Artefacts : Withdraw(a) \/ Undo(a)
    BY <1>3, WithdrawKeeps, UndoKeeps
  <1>4. CASE \E s \in Texts : Deliver(s)
    BY <1>4, DeliverKeeps
  <1>5. CASE \E m \in MetadataInputs \cup {None} : EditFile(m)
    BY <1>5, EditFileKeeps
  <1>6. CASE Refresh
    BY <1>6, RefreshKeeps
  <1>7. CASE UNCHANGED vars
    BY <1>7 DEF vars, WorkInv, JobsOK, LeftOK
  <1> QED
    BY <1>1, <1>2, <1>3, <1>4, <1>5, <1>6, <1>7 DEF Next

-----------------------------------------------------------------------------
(* What the invariant implies.                                             *)
LEMMA InvIsTyped == WorkInv => WorkflowTypeOK
  <1> SUFFICES ASSUME WorkInv PROVE WorkflowTypeOK
    OBVIOUS
  <1>1. /\ ChainIsBound(chain) /\ Sound(chain, view) /\ JobsOK /\ LeftOK
        /\ file \in MetadataInputs \cup {None} /\ None \notin Processes
    BY WorkflowAssumption DEF WorkInv
  <1>2. ASSUME NEW a \in Artefacts
        PROVE  LET f == view.facts[a]
               IN  /\ f.sha # None => f.sha.of = a /\ f.sha \in f.history
                   /\ f.epoch \in 0..view.n /\ f.receiptSeq <= f.epoch /\ f.decisionSeq <= f.epoch
                   /\ f.verdict \in {None, "ACCEPT", "WITHDRAW", "UNDO"}
    <2>1. view.n \in Nat /\ FactsAreBound(chain, view, a)
      BY <1>1 DEF Sound, Placed, Artefacts
    <2> QED
      BY <2>1 DEF FactsAreBound, Verdicts
  <1>3. ASSUME NEW p \in Processes, job[p] # Idle
        PROVE  /\ job[p].at \in {"plan", "write", "append"}
               /\ job[p].todo # << >> /\ job[p].work.artifact \in Artefacts
               /\ wlock = p <=> /\ job[p].at = "write"
                               /\ \/ job[p].work.kind \in {"gate", "export", "ingest"}
                                  \/ job[p].work.kind = "confirm" /\ Head(job[p].todo) # "anchor"
    <2>1. JobOK(chain, view, job[p]) /\ (wlock = p <=> UnderLock(job[p]))
      BY <1>1 DEF JobsOK
    <2>2. job[p].at \in {"plan", "write", "append"} /\ WorkOK(chain, job[p].work) /\ Ahead(job[p].work, job[p].todo)
      BY <1>3, <2>1 DEF JobOK
    <2>3. job[p].todo # << >> /\ job[p].work.artifact \in Artefacts
      BY <1>1, <2>2, KindIs, AheadIs DEF Artefacts
    <2> QED
      BY <1>3, <2>1, <2>2, <2>3 DEF UnderLock, Holds
  <1>4. wlock \in Processes \cup {None} /\ (wlock # None => job[wlock] # Idle)
    BY <1>1 DEF JobsOK, UnderLock
  <1>5. \A item \in DOMAIN left \ {"on"} : left[item] \in Nat
    BY <1>1 DEF LeftOK
  <1> QED
    BY <1>1, <1>2, <1>3, <1>4, <1>5 DEF WorkflowTypeOK

(* The last act on what is usable is the acceptance it stands on, if a     *)
(* human accepts it, and none at all if nobody does.                       *)
LEMMA ActOnUsable ==
    ASSUME WorkInv, NEW a \in have
    PROVE  LET f == view.facts[a]
           IN  /\ a \in DOMAIN chain.kind /\ Linked(chain, view, lastAct, a)
               /\ Human(chain, a) => /\ lastAct[a].verdict = "ACCEPT" /\ lastAct[a].sha = f.sha
                                     /\ lastAct[a].at = f.decisionSeq /\ f.decisionSeq > 0
               /\ ~Human(chain, a) /\ ~Egress(chain, a) => lastAct[a].at = 0 /\ lastAct[a].time = 0
  <1>1. ChainIsBound(chain) /\ Sound(chain, view) /\ ActsAreLinked(chain, view, lastAct)
    BY DEF WorkInv
  <1>2. a \in DOMAIN chain.kind /\ IsUsable(chain, view, have, a)
    BY <1>1, HaveIsSettled DEF have, Settled
  <1>3. /\ Human(chain, a) => view.facts[a].verdict = "ACCEPT" /\ view.facts[a].subject = view.facts[a].sha
        /\ ~Human(chain, a) /\ ~Egress(chain, a) => view.facts[a].verdict = None
    BY <1>1, <1>2, UsableIs
  <1>4. Linked(chain, view, lastAct, a) /\ FactsAreBound(chain, view, a) /\ view.n \in Nat
    BY <1>1, <1>2 DEF ActsAreLinked, Sound, Placed
  <1>5. view.facts[a].verdict = "ACCEPT" => view.facts[a].decisionSeq > 0
    BY <1>4, WorkflowAssumption DEF FactsAreBound, Verdicts
  <1> QED
    BY <1>2, <1>3, <1>4, <1>5 DEF Linked

LEMMA InvIsGrounded == WorkInv => UsableIsGrounded
  <1> SUFFICES ASSUME WorkInv, NEW a \in have
               PROVE  LET sha == view.facts[a].sha
                      IN  /\ \A role \in DOMAIN sha.from : sha.from[role] = Current(view, role).sha
                          /\ KindOf(chain, a) \in {"confirm", "gate"} =>
                               /\ lastAct[a].verdict = "ACCEPT" /\ lastAct[a].sha = sha
                               /\ \A b \in chain.behind[a] : lastAct[b].at < lastAct[a].at
                          /\ KindOf(chain, a) = "model" =>
                               \A b \in chain.behind[a] : lastAct[b].time <= sha.by
    BY DEF UsableIsGrounded
  <1> DEFINE f == view.facts[a]
             sha == f.sha
  <1>1. /\ ChainIsBound(chain) /\ Sound(chain, view) /\ ActsAreLinked(chain, view, lastAct)
        /\ RunsFollow(chain, view, lastAct)
    BY DEF WorkInv
  <1>2. a \in DOMAIN chain.kind /\ Settled(chain, view, have, a)
    BY <1>1, HaveIsSettled DEF have
  <1>3. /\ Check_refs(chain, view, a, sha.from, Since(chain, view, a), ~Human(chain, a))
        /\ ~Human(chain, a) => f.receiptFor = sha /\ sha # None
    BY <1>1, <1>2, UsableIs DEF Settled
  <1>4. \A role \in DOMAIN sha.from : sha.from[role] = Current(view, role).sha
    BY <1>3 DEF Check_refs
  <1>5. FactsAreBound(chain, view, a) /\ view.n \in Nat
    BY <1>1, <1>2 DEF Sound, Placed
  <1>6. ASSUME NEW b \in chain.behind[a]
        PROVE  /\ b \in have /\ b \in DOMAIN chain.kind /\ b # a /\ ~Egress(chain, b)
               /\ view.facts[b].epoch <= Since(chain, view, a)
               /\ lastAct[b].at \in Nat /\ lastAct[b].at <= view.facts[b].epoch /\ view.facts[b].epoch \in Nat
    <2>1. /\ b \in have /\ b \in DOMAIN chain.kind /\ b # a /\ ~Egress(chain, b)
          /\ view.facts[b].epoch <= Since(chain, view, a)
      BY <1>2 DEF Settled
    <2>2. FactsAreBound(chain, view, b)
      BY <1>1, <2>1 DEF Sound
    <2>3. lastAct[b].at = view.facts[b].decisionSeq \/ lastAct[b].at = 0
      BY <2>1, ActOnUsable
    <2> QED
      BY <1>5, <2>1, <2>2, <2>3 DEF FactsAreBound
  <1>7. ASSUME Human(chain, a)
        PROVE  /\ lastAct[a].verdict = "ACCEPT" /\ lastAct[a].sha = sha
               /\ \A b \in chain.behind[a] : lastAct[b].at < lastAct[a].at
    <2>1. /\ lastAct[a].verdict = "ACCEPT" /\ lastAct[a].sha = sha
          /\ lastAct[a].at = f.decisionSeq /\ f.decisionSeq > 0 /\ Since(chain, view, a) = f.decisionSeq
      BY <1>7, ActOnUsable DEF Since
    <2>2. f.decisionSeq \in Nat
      BY <1>5 DEF FactsAreBound
    <2>3. ASSUME NEW b \in chain.behind[a] PROVE lastAct[b].at < lastAct[a].at
      <3>1. lastAct[b].at = 0 \/ lastAct[b].at # lastAct[a].at
        BY <1>1, <1>2, <1>6 DEF ActsAreLinked
      <3> HIDE DEF f, sha
      <3> QED
        BY <1>6, <2>1, <2>2, <3>1
    <2> QED
      BY <2>1, <2>3
  <1>8. ASSUME KindOf(chain, a) = "model", NEW b \in chain.behind[a] PROVE lastAct[b].time <= sha.by
    <2>1. ~Human(chain, a) /\ StepsAreBound(chain, a)
      BY <1>1, <1>2, <1>8, BoundIs DEF Human
    <2>2. f.receiptFor = sha /\ sha # None /\ Since(chain, view, a) = f.receiptSeq
      BY <1>3, <2>1 DEF Since
    <2>3. sha.by \in Nat /\ f.receiptInputs = sha.from /\ f.receiptSeq \in Nat
      BY <1>5, <1>8, <2>2 DEF FactsAreBound
    <2>4. KindOf(chain, b) \in {"ingest", "confirm"}
      BY <1>8, <2>1 DEF StepsAreBound
    <2>5. CASE KindOf(chain, b) = "ingest"
      <3>1. lastAct[b].time = 0
        BY <1>6, <2>5, ActOnUsable DEF Human
      <3> QED
        BY <2>3, <3>1
    <2>6. CASE KindOf(chain, b) = "confirm"
      <3>1. chain.confirms[b] # NoText
        BY <2>6 DEF KindOf
      <3>2. b \in chain.roles[a]
        BY <1>8, <2>1, <3>1 DEF StepsAreBound
      <3>3. lastAct[b].verdict = "ACCEPT" /\ lastAct[b].sha = view.facts[b].sha
        BY <1>6, <2>6, ActOnUsable DEF Human
      <3>4. sha.from[b] = view.facts[b].sha
        BY <1>1, <1>2, <3>2, RolesAreOlder DEF Settled
      <3>5. lastAct[b].at <= f.receiptSeq
        BY <1>6, <2>2, <2>3
      <3> QED
        BY <1>1, <1>2, <1>6, <1>8, <2>2, <2>3, <3>1, <3>2, <3>3, <3>4, <3>5 DEF RunsFollow
    <2> QED
      BY <2>4, <2>5, <2>6
  <1> QED
    BY <1>4, <1>7, <1>8 DEF Human

(* What is published inherits from an approval that stands.                *)
ApprovedWhenPublished ==
    \A b \in published' \ published :
        LET approved == b.bundle.from["release.approved"]
        IN  /\ view.facts["release.approved"].sha = approved
            /\ lastAct["release.approved"].verdict = "ACCEPT"
            /\ lastAct["release.approved"].sha = approved
            /\ chain.behind["export.bundle"] \subseteq have

LEMMA PublishedIsApproved == WorkInv /\ [Next]_vars => ApprovedWhenPublished
  <1> SUFFICES ASSUME WorkInv, [Next]_vars, published' # published PROVE ApprovedWhenPublished
    BY DEF ApprovedWhenPublished
  <1>1. PICK p \in Processes : Write(p)
    BY DEF Next, Begin, Enter, Look, Stop, Withdraw, Undo, Act, Deliver, EditFile, Refresh, vars
  <1> DEFINE j == job[p]
             w == j.work
             event == Head(j.todo)
             r == "release.approved"
  <1>2. /\ j.at \in {"write", "append"} /\ event = "publish"
        /\ published' = published \cup {[bundle |-> w.sha, at |-> view.n]}
    BY <1>1 DEF Write
  <1>3. ChainIsBound(chain) /\ Sound(chain, view) /\ JobsOK
    BY DEF WorkInv
  <1>4. JobOK(chain, view, j) /\ j # Idle
    BY <1>2, <1>3, IdleIs DEF JobsOK
  <1>5. /\ WorkOK(chain, w) /\ Ahead(w, j.todo) /\ (j.at = "append" => w.kind \in {"model", "derive"})
        /\ UnderLock(j) => Checked(chain, view, w, j.todo)
    BY <1>4 DEF JobOK
  <1>6. w.kind = "export"
    BY <1>2, <1>3, <1>5, KindIs, AheadIs
  <1>7. r \in have /\ view.facts[r].sha = w.inputs[r]
    <2>1. UnderLock(j)
      BY <1>2, <1>4, <1>5, <1>6 DEF UnderLock, Holds
    <2> QED
      BY <1>5, <1>6, <2>1 DEF Checked, have
  <1>8. r \in DOMAIN chain.kind /\ Settled(chain, view, have, r)
    BY <1>3, <1>7, HaveIsSettled DEF have
  <1>9. Human(chain, r)
    BY <1>3, <1>8 DEF ChainIsBound, Human
  <1>10. lastAct[r].verdict = "ACCEPT" /\ lastAct[r].sha = view.facts[r].sha
    BY <1>7, <1>9, ActOnUsable
  <1>11. chain.behind["export.bundle"] \subseteq have
    <2>1. w.artifact \in DOMAIN chain.kind /\ KindOf(chain, w.artifact) = "export"
      BY <1>5, <1>6 DEF WorkOK
    <2>2. /\ w.artifact = "export.bundle" /\ chain.requires[w.artifact] = {r}
          /\ chain.behind[w.artifact] \subseteq chain.requires[w.artifact]
                                               \cup UNION {chain.behind[x] : x \in chain.requires[w.artifact]}
      BY <1>3, <2>1, BoundIs DEF StepsAreBound
    <2>3. chain.behind["export.bundle"] \subseteq {r} \cup chain.behind[r]
      BY <2>2
    <2> QED
      BY <1>7, <1>8, <2>3 DEF Settled
  <1>12. w.sha.from = w.inputs
    BY <1>5 DEF WorkOK
  <1>13. ASSUME NEW b \in published' \ published PROVE b.bundle = w.sha
    BY <1>2, <1>13
  <1> HIDE DEF j, w, event
  <1> QED
    BY <1>7, <1>10, <1>11, <1>12, <1>13 DEF ApprovedWhenPublished

-----------------------------------------------------------------------------
(* Whatever the commands of any number of processes, broken off anywhere,  *)
(* make of a journal that was Sound, it stays Sound, and what a command    *)
(* found under the lock stays true until it lets the lock go (replay.py,   *)
(* gate.py and export.py).                                                 *)
THEOREM WorkflowInvariant == Spec => []WorkInv
  BY StartsSound, StepKeeps, PTL DEF Spec

(* Evidence is about the artifact it names and no newer than its epoch,    *)
(* and a command holds the workspace lock exactly while it writes what     *)
(* gate.py, export.py, ingest.py and confirmation.py write under it.       *)
THEOREM EvidenceIsTyped == Spec => []WorkflowTypeOK
  BY WorkflowInvariant, InvIsTyped, PTL

(* In every chain, what freshness.py calls usable was made from what its   *)
(* inputs are now, was accepted as it is after the last act on anything    *)
(* behind it, and was asked of a model only after the text had been        *)
(* accepted.                                                               *)
THEOREM UsableStandsOnWhatIs == Spec => []UsableIsGrounded
  BY WorkflowInvariant, InvIsGrounded, PTL

(* write_export puts a bundle beside the data root only while the approval *)
(* it inherits from is the last act on it, covers its bytes, and nothing   *)
(* behind it is withdrawn or overtaken.                                    *)
THEOREM OnlyApprovedIsPublished == Spec => PublishedWasApproved
  <1>1. WorkInv /\ [Next]_vars => [ApprovedWhenPublished]_vars
    BY PublishedIsApproved
  <1> HIDE DEF ApprovedWhenPublished
  <1>2. [ApprovedWhenPublished]_vars <=>
          [\A b \in published' \ published :
              LET approved == b.bundle.from["release.approved"]
              IN  /\ view.facts["release.approved"].sha = approved
                  /\ lastAct["release.approved"].verdict = "ACCEPT"
                  /\ lastAct["release.approved"].sha = approved
                  /\ chain.behind["export.bundle"] \subseteq have]_vars
    BY Zenon DEF ApprovedWhenPublished
  <1> QED
    BY WorkflowInvariant, <1>1, <1>2, PTL DEF Spec, PublishedWasApproved

-----------------------------------------------------------------------------
(* A step comes after all it takes in, and once.                           *)
Place(c, a, k) == k \in 1..Len(c.order) /\ c.order[k] = a

LEMMA PlaceIs ==
    ASSUME NEW c, ChainIsBound(c)
    PROVE  /\ Len(c.order) \in Nat
           /\ \A a \in DOMAIN c.kind : \E k : Place(c, a, k)
           /\ \A a \in DOMAIN c.kind : \A k, m : Place(c, a, k) /\ Place(c, a, m) => k = m
           /\ \A a \in DOMAIN c.kind : \A k : Place(c, a, k) =>
                \A r \in c.roles[a] : \E m : Place(c, r, m) /\ m < k
  <1>1. Len(c.order) \in Nat /\ DOMAIN c.order = 1..Len(c.order)
    BY DEF ChainIsBound
  <1>2. \A m, n \in DOMAIN c.order : c.order[m] = c.order[n] => m = n
    BY DEF ChainIsBound
  <1>3. \A a \in DOMAIN c.kind : \E n \in DOMAIN c.order :
          c.order[n] = a /\ \A r \in c.roles[a] : \E m \in 1..(n - 1) : c.order[m] = r
    BY DEF ChainIsBound
  <1>4. ASSUME NEW a \in DOMAIN c.kind, NEW k, Place(c, a, k), NEW r \in c.roles[a]
        PROVE  \E m : Place(c, r, m) /\ m < k
    <2>1. PICK n \in DOMAIN c.order : c.order[n] = a /\ \A s \in c.roles[a] : \E m \in 1..(n - 1) : c.order[m] = s
      BY <1>3
    <2>2. n = k
      BY <1>1, <1>2, <1>4, <2>1 DEF Place
    <2>3. PICK m \in 1..(n - 1) : c.order[m] = r
      BY <2>1
    <2> QED
      BY <1>1, <2>1, <2>2, <2>3 DEF Place
  <1> QED
    BY <1>1, <1>2, <1>3, <1>4 DEF Place

(* An artifact is usable if it is by what is usable before it.             *)
LEMMA AmongHas ==
    ASSUME NEW c, NEW v, ChainIsBound(c), NEW a \in DOMAIN c.kind, NEW k, Place(c, a, k)
    PROVE  \A n \in 0..Len(c.order) :
              a \in Among(c, v)[n] <=> k <= n /\ IsUsable(c, v, Among(c, v)[k - 1], a)
  <1> DEFINE N == Len(c.order)
             A == Among(c, v)
             S == {n \in 0..N : a \in A[n] <=> k <= n /\ IsUsable(c, v, A[k - 1], a)}
  <1>1. /\ N \in Nat /\ A[0] = {}
        /\ \A n \in 1..N : A[n] = Also(c, v, A[n - 1], c.order[n])
    BY AmongIs
  <1>2. k \in 1..N /\ c.order[k] = a /\ \A m \in 1..N : c.order[m] = a => m = k
    BY PlaceIs DEF Place
  <1> HIDE DEF A, N
  <1>3. 0 \in S
    BY <1>1, <1>2
  <1>4. ASSUME NEW n \in 0..(N - 1), n \in S PROVE n + 1 \in S
    <2>1. n + 1 \in 1..N /\ (n + 1) - 1 = n /\ n + 1 \in 0..N
      BY <1>1
    <2>2. A[n + 1] = Also(c, v, A[n], c.order[n + 1])
      BY <1>1, <2>1
    <2>3. a \in A[n] <=> k <= n /\ IsUsable(c, v, A[k - 1], a)
      BY <1>4
    <2>4. CASE c.order[n + 1] = a
      <3>1. k = n + 1 /\ k - 1 = n
        BY <1>2, <2>1, <2>4
      <3>2. a \in A[n + 1] <=> a \in A[n] \/ IsUsable(c, v, A[n], a)
        BY <2>2, <2>4 DEF Also
      <3>3. ~(k <= n) /\ k <= n + 1
        BY <1>1, <3>1
      <3> QED
        BY <2>1, <2>3, <3>1, <3>2, <3>3
    <2>5. CASE c.order[n + 1] # a
      <3>1. k # n + 1
        BY <1>2, <2>5
      <3>2. a \in A[n + 1] <=> a \in A[n]
        BY <2>2, <2>5 DEF Also
      <3>3. k <= n <=> k <= n + 1
        BY <1>1, <1>2, <3>1
      <3> QED
        BY <2>1, <2>3, <3>2, <3>3
    <2> QED
      BY <2>4, <2>5
  <1> HIDE DEF S
  <1>5. 0..N \subseteq S
    BY <1>1, <1>3, <1>4, UpTo, Zenon
  <1> QED
    BY <1>5 DEF S, N, A

LEMMA BecomesUsable ==
    ASSUME NEW c, NEW v, ChainIsBound(c), NEW a \in DOMAIN c.kind,
           c.roles[a] \subseteq Have(c, v), IsUsable(c, v, c.roles[a], a)
    PROVE  a \in Have(c, v)
  <1> DEFINE N == Len(c.order)
             A == Among(c, v)
  <1>1. N \in Nat /\ Have(c, v) = A[N]
    BY AmongIs
  <1>2. PICK k : Place(c, a, k)
    BY PlaceIs
  <1>3. k \in 1..N
    BY <1>2 DEF Place
  <1>4. c.roles[a] \subseteq DOMAIN c.kind
    BY BoundIs DEF StepsAreBound
  <1> HIDE DEF A, N
  <1>5. ASSUME NEW r \in c.roles[a] PROVE r \in A[k - 1]
    <2>1. PICK m : Place(c, r, m) /\ m < k
      BY <1>2, PlaceIs
    <2>2. \A n \in 0..N : r \in A[n] <=> m <= n /\ IsUsable(c, v, A[m - 1], r)
      BY <1>4, <2>1, AmongHas DEF A, N
    <2>3. r \in A[N] /\ N \in 0..N /\ k - 1 \in 0..N
      BY <1>1, <1>3
    <2>4. m \in 1..N /\ m <= k - 1
      BY <1>3, <2>1 DEF Place, N
    <2> QED
      BY <2>2, <2>3, <2>4
  <1>6. IsUsable(c, v, A[k - 1], a)
    BY <1>5, UsableGrows
  <1>7. \A n \in 0..N : a \in A[n] <=> k <= n /\ IsUsable(c, v, A[k - 1], a)
    BY <1>2, AmongHas DEF A, N
  <1> QED
    BY <1>1, <1>3, <1>6, <1>7

-----------------------------------------------------------------------------
(* Two views that differ in one artifact, in what leaves the system and,   *)
(* about the metadata, in the input observed.                              *)
Near(c, v, u, a) ==
    /\ DOMAIN v.facts = DOMAIN c.kind /\ DOMAIN u.facts = DOMAIN c.kind
    /\ \A b \in DOMAIN c.kind \ {a} : ~Egress(c, b) => u.facts[b] = v.facts[b]
    /\ u.sources["source"] = v.sources["source"]
    /\ a # "metadata.draft" => u.sources = v.sources

LEMMA UsableNear ==
    ASSUME NEW c, NEW v, NEW u, ChainIsBound(c), NEW a, Near(c, v, u, a),
           NEW b \in DOMAIN c.kind, b # a, ~Egress(c, b), a \notin c.roles[b],
           NEW S, NEW T, \A r \in c.roles[b] : r \in S => r \in T, IsUsable(c, v, S, b)
    PROVE  IsUsable(c, u, T, b)
  <1>1. /\ c.roles[b] \subseteq DOMAIN c.kind /\ \A r \in c.roles[b] : ~Egress(c, r)
    BY BoundIs DEF StepsAreBound
  <1>2. u.facts[b] = v.facts[b]
    BY DEF Near
  <1>3. \A r \in c.roles[b] \cup {"source"} : Current(u, r) = Current(v, r)
    <2>1. \A r \in c.roles[b] : Current(u, r) = Current(v, r)
      BY <1>1 DEF Near, Current
    <2>2. "source" \notin DOMAIN c.kind
      BY DEF ChainIsBound
    <2> QED
      BY <2>1, <2>2 DEF Near, Current
  <1>4. b = "metadata.draft" => u.sources = v.sources /\ Current(u, "metadata.input") = Current(v, "metadata.input")
    <2>1. "metadata.input" \notin DOMAIN c.kind
      BY DEF ChainIsBound
    <2> QED
      BY <2>1 DEF Near, Current
  <1>5. ASSUME NEW refs, NEW seq, NEW receipt, Check_refs(c, v, b, refs, seq, receipt)
        PROVE  Check_refs(c, u, b, refs, seq, receipt)
    <2>1. Required(c, u, b, refs, receipt) = Required(c, v, b, refs, receipt)
      BY <1>4 DEF Required
    <2>2. \A r \in Required(c, v, b, refs, receipt) : Current(u, r) = Current(v, r)
      BY <1>3, <1>4 DEF Required
    <2> QED
      BY <1>5, <2>1, <2>2 DEF Check_refs
  <1>6. ~Stale(c, v, S, b) => ~Stale(c, u, T, b)
    BY <1>2, <1>5 DEF Stale
  <1> QED
    BY <1>2, <1>6 DEF IsUsable

LEMMA RolesStay ==
    ASSUME NEW c, NEW v, NEW u, ChainIsBound(c), NEW a \in DOMAIN c.kind, Near(c, v, u, a),
           c.roles[a] \subseteq Have(c, v)
    PROVE  c.roles[a] \subseteq Have(c, u)
  <1> DEFINE N == Len(c.order)
             A == Among(c, v)
             B == Among(c, u)
  <1>1. /\ N \in Nat /\ A[0] = {} /\ Have(c, v) = A[N]
        /\ \A n \in 1..N : A[n] = Also(c, v, A[n - 1], c.order[n]) /\ c.order[n] \in DOMAIN c.kind
    BY AmongIs
  <1>2. Have(c, u) = B[N] /\ \A n \in 1..N : B[n] = Also(c, u, B[n - 1], c.order[n])
    BY AmongIs
  <1>3. PICK k : Place(c, a, k)
    BY PlaceIs
  <1>4. k \in 1..N /\ c.order[k] = a /\ \A m \in 1..N : c.order[m] = a => m = k
    BY <1>3, PlaceIs DEF Place
  <1> DEFINE S == {n \in 0..(k - 1) : \A b \in A[n] : ~Egress(c, b) => b \in B[n]}
  <1>5. \A b \in DOMAIN c.kind : \A m : Place(c, b, m) =>
          /\ m \in 1..N
          /\ \A n \in 0..N : b \in A[n] <=> m <= n /\ IsUsable(c, v, A[m - 1], b)
          /\ \A n \in 0..N : b \in B[n] <=> m <= n /\ IsUsable(c, u, B[m - 1], b)
    BY AmongHas DEF Place
  <1> HIDE DEF A, B, N
  <1>6. 0 \in S
    BY <1>1, <1>4
  <1>7. ASSUME NEW n \in 0..((k - 1) - 1), n \in S PROVE n + 1 \in S
    <2> DEFINE x == c.order[n + 1]
    <2>1. n + 1 \in 0..(k - 1) /\ n + 1 \in 1..N /\ (n + 1) - 1 = n /\ n \in 0..N /\ n + 1 # k
      BY <1>1, <1>4
    <2>2. /\ A[n + 1] = Also(c, v, A[n], x) /\ B[n + 1] = Also(c, u, B[n], x)
          /\ x \in DOMAIN c.kind /\ x # a
      BY <1>1, <1>2, <1>4, <2>1
    <2>3. \A b \in A[n] : ~Egress(c, b) => b \in B[n]
      BY <1>7
    <2> HIDE DEF x
    <2>4. a \notin A[n]
      BY <1>3, <1>4, <1>5, <2>1
    <2>5. ASSUME ~Egress(c, x), IsUsable(c, v, A[n], x) PROVE IsUsable(c, u, B[n], x)
      <3>1. c.roles[x] \subseteq A[n] /\ \A r \in c.roles[x] : ~Egress(c, r)
        BY <2>2, <2>5, BoundIs DEF IsUsable, Stale, StepsAreBound
      <3> QED
        BY <2>2, <2>3, <2>4, <2>5, <3>1, UsableNear
    <2>6. \A b \in A[n + 1] : ~Egress(c, b) => b \in B[n + 1]
      BY <2>2, <2>3, <2>5 DEF Also
    <2> QED
      BY <2>1, <2>6
  <1> HIDE DEF S
  <1>8. 0..(k - 1) \subseteq S
    <2>1. k - 1 \in Nat
      BY <1>1, <1>4
    <2> QED
      BY <1>6, <1>7, <2>1, UpTo, Zenon
  <1>9. \A b \in A[k - 1] : ~Egress(c, b) => b \in B[k - 1]
    BY <1>1, <1>4, <1>8 DEF S
  <1>10. c.roles[a] \subseteq DOMAIN c.kind /\ \A r \in c.roles[a] : ~Egress(c, r)
    BY BoundIs DEF StepsAreBound
  <1>11. ASSUME NEW r \in c.roles[a] PROVE r \in B[N]
    <2>1. PICK m : Place(c, r, m) /\ m < k
      BY <1>3, PlaceIs
    <2>2. m \in 1..N /\ m <= k - 1 /\ k - 1 \in 0..N /\ N \in 0..N /\ m <= N
      BY <1>1, <1>4, <1>5, <1>10, <2>1
    <2>3. r \in A[k - 1]
      BY <1>1, <1>5, <1>10, <2>1, <2>2
    <2>4. r \in B[k - 1]
      BY <1>9, <1>10, <2>3
    <2> QED
      BY <1>5, <1>10, <2>1, <2>2, <2>4
  <1> QED
    BY <1>2, <1>11

-----------------------------------------------------------------------------
(* A command is carried out event by event.                                *)
Does(c, x, w, event) == IF Skip(c, x, w, event) THEN x ELSE Applied(c, x, w, event)

Carried(c, v, w, N, f) ==
    /\ Len(Todo(c, w)) = N /\ f = [n \in 0..N |-> f[n]] /\ f[0] = v
    /\ \A n \in 1..N : f[n] = Does(c, f[n - 1], w, Todo(c, w)[n])

LEMMA CarriedAlong ==
    ASSUME NEW c, NEW v, NEW w, NEW N \in Nat, NEW f, Carried(c, v, w, N, f)
    PROVE  Carry(c, v, w) = f[N]
  <1>0. /\ Len(Todo(c, w)) = N /\ f = [n \in 0..N |-> f[n]] /\ f[0] = v
        /\ \A n \in 1..N : f[n] = Does(c, f[n - 1], w, Todo(c, w)[n])
    BY DEF Carried
  <1> DEFINE todo == Todo(c, w)
             Wanted(g) == [n \in 0..Len(todo) |->
                              IF n = 0 THEN v
                              ELSE LET u == g[n - 1]
                                   IN  IF Skip(c, u, w, todo[n]) THEN u ELSE Applied(c, u, w, todo[n])]
             After == CHOOSE g : g = Wanted(g)
  <1>1. Carry(c, v, w) = After[Len(todo)]
    BY Zenon DEF Carry
  <1>2. f = Wanted(f)
    <2> HIDE DEF todo
    <2>1. Len(todo) = N /\ \A n \in 1..N : f[n] = Does(c, f[n - 1], w, todo[n])
      BY <1>0 DEF todo
    <2>2. ASSUME NEW n \in 0..N
          PROVE  f[n] = IF n = 0 THEN v
                        ELSE IF Skip(c, f[n - 1], w, todo[n]) THEN f[n - 1] ELSE Applied(c, f[n - 1], w, todo[n])
      <3>1. CASE n = 0
        BY <1>0, <3>1
      <3>2. CASE n # 0
        <4>1. n \in 1..N
          BY <3>2
        <4>2. f[n] = Does(c, f[n - 1], w, todo[n])
          BY <2>1, <4>1
        <4> QED
          BY <3>2, <4>2 DEF Does
      <3> QED
        BY <3>1, <3>2
    <2> QED
      BY <1>0, <2>1, <2>2
  <1>3. After = Wanted(After)
    BY <1>2, Zenon
  <1> HIDE DEF After, todo
  <1>4. After[0] = v /\ \A n \in 1..N : After[n] = Does(c, After[n - 1], w, todo[n])
    <2>1. Len(todo) = N
      BY <1>0 DEF todo
    <2>2. \A n \in 0..N : After[n] = IF n = 0 THEN v ELSE Does(c, After[n - 1], w, todo[n])
      BY <1>3, <2>1 DEF Does
    <2> QED
      BY <2>2
  <1> DEFINE S == {n \in 0..N : After[n] = f[n]}
  <1>5. 0 \in S
    BY <1>0, <1>4
  <1>6. ASSUME NEW n \in 0..(N - 1), n \in S PROVE n + 1 \in S
    <2>1. n + 1 \in 1..N /\ n + 1 \in 0..N /\ (n + 1) - 1 = n /\ After[n] = f[n]
      BY <1>6
    <2>2. After[n + 1] = Does(c, After[n], w, todo[n + 1])
      BY <1>4, <2>1
    <2>3. f[n + 1] = Does(c, f[n], w, todo[n + 1])
      BY <1>0, <2>1 DEF todo
    <2> QED
      BY <2>1, <2>2, <2>3
  <1> HIDE DEF S
  <1>7. N \in S
    <2>1. 0..N \subseteq S
      BY <1>5, <1>6, UpTo, Zenon
    <2> QED
      BY <2>1
  <1> QED
    BY <1>0, <1>1, <1>7 DEF S, todo

LEMMA CarriedTwo ==
    ASSUME NEW c, NEW v, NEW w, NEW d, NEW e, Todo(c, w) = <<d, e>>
    PROVE  Carry(c, v, w) = Does(c, Does(c, v, w, d), w, e)
  <1> DEFINE x == Does(c, v, w, d)
             y == Does(c, x, w, e)
             f == [n \in 0..2 |-> IF n = 0 THEN v ELSE IF n = 1 THEN x ELSE y]
  <1> HIDE DEF x, y
  <1>1. f[0] = v /\ f[1] = x /\ f[2] = y /\ DOMAIN f = 0..2 /\ f = [n \in 0..2 |-> f[n]]
    OBVIOUS
  <1>2. Len(Todo(c, w)) = 2 /\ Todo(c, w)[1] = d /\ Todo(c, w)[2] = e
    OBVIOUS
  <1> HIDE DEF f
  <1>3. \A n \in 1..2 : f[n] = Does(c, f[n - 1], w, Todo(c, w)[n])
    <2>1. f[1] = Does(c, f[1 - 1], w, Todo(c, w)[1])
      BY <1>1, <1>2 DEF x
    <2>2. f[2] = Does(c, f[2 - 1], w, Todo(c, w)[2])
      BY <1>1, <1>2 DEF y
    <2> QED
      BY <2>1, <2>2
  <1>4. Carry(c, v, w) = f[2]
    <2>1. Carried(c, v, w, 2, f)
      BY <1>1, <1>2, <1>3 DEF Carried
    <2> QED
      BY <2>1, CarriedAlong
  <1> QED
    BY <1>1, <1>4 DEF x, y

LEMMA CarriedThree ==
    ASSUME NEW c, NEW v, NEW w, NEW d, NEW e, NEW i, Todo(c, w) = <<d, e, i>>
    PROVE  Carry(c, v, w) = Does(c, Does(c, Does(c, v, w, d), w, e), w, i)
  <1> DEFINE x == Does(c, v, w, d)
             y == Does(c, x, w, e)
             z == Does(c, y, w, i)
             f == [n \in 0..3 |-> IF n = 0 THEN v ELSE IF n = 1 THEN x ELSE IF n = 2 THEN y ELSE z]
  <1> HIDE DEF x, y, z
  <1>1. f[0] = v /\ f[1] = x /\ f[2] = y /\ f[3] = z /\ DOMAIN f = 0..3 /\ f = [n \in 0..3 |-> f[n]]
    OBVIOUS
  <1>2. Len(Todo(c, w)) = 3 /\ Todo(c, w)[1] = d /\ Todo(c, w)[2] = e /\ Todo(c, w)[3] = i
    OBVIOUS
  <1> HIDE DEF f
  <1>3. \A n \in 1..3 : f[n] = Does(c, f[n - 1], w, Todo(c, w)[n])
    <2>1. f[1] = Does(c, f[1 - 1], w, Todo(c, w)[1])
      BY <1>1, <1>2 DEF x
    <2>2. f[2] = Does(c, f[2 - 1], w, Todo(c, w)[2])
      BY <1>1, <1>2 DEF y
    <2>3. f[3] = Does(c, f[3 - 1], w, Todo(c, w)[3])
      BY <1>1, <1>2 DEF z
    <2> QED
      BY <2>1, <2>2, <2>3
  <1>4. Carry(c, v, w) = f[3]
    <2>1. Carried(c, v, w, 3, f)
      BY <1>1, <1>2, <1>3 DEF Carried
    <2> QED
      BY <2>1, CarriedAlong
  <1> QED
    BY <1>1, <1>4 DEF x, y, z

LEMMA CarriedFour ==
    ASSUME NEW c, NEW v, NEW w, NEW d, NEW e, NEW i, NEW j, Todo(c, w) = <<d, e, i, j>>
    PROVE  Carry(c, v, w) = Does(c, Does(c, Does(c, Does(c, v, w, d), w, e), w, i), w, j)
  <1> DEFINE x == Does(c, v, w, d)
             y == Does(c, x, w, e)
             z == Does(c, y, w, i)
             q == Does(c, z, w, j)
             f == [n \in 0..4 |-> IF n = 0 THEN v ELSE IF n = 1 THEN x ELSE IF n = 2 THEN y
                                  ELSE IF n = 3 THEN z ELSE q]
  <1> HIDE DEF x, y, z, q
  <1>1. /\ f[0] = v /\ f[1] = x /\ f[2] = y /\ f[3] = z /\ f[4] = q
        /\ DOMAIN f = 0..4 /\ f = [n \in 0..4 |-> f[n]]
    OBVIOUS
  <1>2. /\ Len(Todo(c, w)) = 4 /\ Todo(c, w)[1] = d /\ Todo(c, w)[2] = e
        /\ Todo(c, w)[3] = i /\ Todo(c, w)[4] = j
    OBVIOUS
  <1> HIDE DEF f
  <1>3. \A n \in 1..4 : f[n] = Does(c, f[n - 1], w, Todo(c, w)[n])
    <2>1. f[1] = Does(c, f[1 - 1], w, Todo(c, w)[1])
      BY <1>1, <1>2 DEF x
    <2>2. f[2] = Does(c, f[2 - 1], w, Todo(c, w)[2])
      BY <1>1, <1>2 DEF y
    <2>3. f[3] = Does(c, f[3 - 1], w, Todo(c, w)[3])
      BY <1>1, <1>2 DEF z
    <2>4. f[4] = Does(c, f[4 - 1], w, Todo(c, w)[4])
      BY <1>1, <1>2 DEF q
    <2> QED
      BY <2>1, <2>2, <2>3, <2>4
  <1>4. Carry(c, v, w) = f[4]
    <2>1. Carried(c, v, w, 4, f)
      BY <1>1, <1>2, <1>3 DEF Carried
    <2> QED
      BY <2>1, CarriedAlong
  <1> QED
    BY <1>1, <1>4 DEF x, y, z, q

-----------------------------------------------------------------------------
(* A step that has its inputs, and what stays as its command is carried    *)
(* out.                                                                    *)
Dated(v) == \A role \in DOMAIN v.sources : v.sources[role].at \in 0..v.n

Asked(c, v, w) ==
    LET a == w.artifact
    IN  /\ ChainIsBound(c) /\ Sound(c, v) /\ Dated(v)
        /\ a \in DOMAIN c.kind /\ w.kind = KindOf(c, a) /\ w.at \in Nat /\ w.sha # None
        /\ c.roles[a] \subseteq Have(c, v)
        /\ v.facts[a].withdrawal = 0
        /\ ~Human(c, a) => v.facts[a].verdict = None
        /\ Check_refs(c, v, a, w.inputs, v.n, TRUE)
        /\ Human(c, a) => Check_refs(c, v, a, w.inputs, v.n, FALSE)

Still(c, v, x, a) ==
    /\ Placed(c, x) /\ v.n <= x.n /\ x.sources = v.sources
    /\ \A b \in DOMAIN c.kind \ {a} : ~Egress(c, b) => x.facts[b] = v.facts[b]
    /\ c.confirms[a] = NoText => x.accepts = v.accepts

LEMMA StillRefl ==
    ASSUME NEW c, NEW v, NEW w, Asked(c, v, w)
    PROVE  Still(c, v, v, w.artifact)
  BY PlacedIs DEF Asked, Still, Sound

LEMMA NotItsOwnRole ==
    ASSUME NEW c, ChainIsBound(c), NEW a \in DOMAIN c.kind
    PROVE  a \notin c.roles[a]
  <1>1. PICK k : Place(c, a, k)
    BY PlaceIs
  <1>2. ASSUME a \in c.roles[a] PROVE FALSE
    <2>1. PICK m : Place(c, a, m) /\ m < k
      BY <1>1, <1>2, PlaceIs
    <2>2. m = k
      BY <1>1, <2>1, PlaceIs
    <2> QED
      BY <1>1, <2>1, <2>2 DEF Place
  <1> QED
    BY <1>2

LEMMA CheckStill ==
    ASSUME NEW c, NEW v, NEW w, Asked(c, v, w), NEW a, a = w.artifact, NEW x, Still(c, v, x, a),
           NEW refs, NEW seq, NEW receipt
    PROVE  Check_refs(c, x, a, refs, seq, receipt) <=> Check_refs(c, v, a, refs, seq, receipt)
  <1>1. ChainIsBound(c) /\ a \in DOMAIN c.kind /\ Placed(c, v) /\ Placed(c, x) /\ x.sources = v.sources
    BY DEF Asked, Sound, Still
  <1>2. /\ c.roles[a] \subseteq DOMAIN c.kind /\ \A r \in c.roles[a] : ~Egress(c, r) /\ r # a
    BY <1>1, BoundIs, NotItsOwnRole DEF StepsAreBound
  <1>3. DOMAIN v.facts = DOMAIN c.kind /\ DOMAIN x.facts = DOMAIN c.kind
    BY <1>1, PlacedIs
  <1>4. {"source", "metadata.input"} \cap DOMAIN c.kind = {}
    BY <1>1 DEF ChainIsBound
  <1>5. \A r \in c.roles[a] \cup {"source", "metadata.input"} : Current(x, r) = Current(v, r)
    <2>1. \A r \in c.roles[a] : Current(x, r) = Current(v, r)
      BY <1>2, <1>3 DEF Still, Current
    <2>2. \A r \in {"source", "metadata.input"} : Current(x, r) = Current(v, r)
      BY <1>1, <1>3, <1>4 DEF Current
    <2> QED
      BY <2>1, <2>2
  <1>6. /\ Required(c, x, a, refs, receipt) = Required(c, v, a, refs, receipt)
        /\ Required(c, v, a, refs, receipt) \subseteq c.roles[a] \cup {"source", "metadata.input"}
    BY <1>1 DEF Required
  <1> QED
    BY <1>5, <1>6 DEF Check_refs

LEMMA CheckLater ==
    ASSUME NEW c, NEW v, NEW w, Asked(c, v, w), NEW a, a = w.artifact, NEW seq \in Nat, v.n <= seq,
           NEW receipt, Check_refs(c, v, a, w.inputs, v.n, receipt)
    PROVE  Check_refs(c, v, a, w.inputs, seq, receipt)
  <1>1. ChainIsBound(c) /\ a \in DOMAIN c.kind /\ Placed(c, v) /\ Sound(c, v) /\ Dated(v)
    BY DEF Asked, Sound
  <1>2. c.roles[a] \subseteq DOMAIN c.kind
    BY <1>1, BoundIs DEF StepsAreBound
  <1>3. DOMAIN v.facts = DOMAIN c.kind /\ DOMAIN v.sources = {"source", "metadata.input"} /\ v.n \in Nat
    BY <1>1, PlacedIs
  <1>4. {"source", "metadata.input"} \cap DOMAIN c.kind = {}
    BY <1>1 DEF ChainIsBound
  <1>5. \A r \in c.roles[a] \cup {"source", "metadata.input"} : Current(v, r).at \in 0..v.n
    <2>1. \A r \in c.roles[a] : v.facts[r].epoch \in 0..v.n
      BY <1>1, <1>2 DEF Sound, FactsAreBound
    <2>2. \A r \in c.roles[a] : Current(v, r).at \in 0..v.n
      BY <1>2, <1>3, <2>1 DEF Current
    <2>3. \A r \in {"source", "metadata.input"} : Current(v, r).at \in 0..v.n
      BY <1>1, <1>3, <1>4 DEF Current, Dated
    <2> QED
      BY <2>2, <2>3
  <1>6. Required(c, v, a, w.inputs, receipt) \subseteq c.roles[a] \cup {"source", "metadata.input"}
    BY DEF Required
  <1>7. \A r \in Required(c, v, a, w.inputs, receipt) : seq >= Current(v, r).at
    <2> TAKE r \in Required(c, v, a, w.inputs, receipt)
    <2>1. Current(v, r).at \in 0..v.n
      BY <1>5, <1>6
    <2> QED
      BY <1>3, <2>1
  <1> QED
    BY <1>7 DEF Check_refs

(* Its receipt, its decision, answers to what it takes in.                 *)
ReceiptStands(c, v, a, f) == Check_refs(c, v, a, f.receiptInputs, f.receiptSeq, TRUE)
DecisionStands(c, v, a, f) == Check_refs(c, v, a, f.refs, f.decisionSeq, FALSE)

(* Its artifact is usable once the evidence is there.                      *)
Finished(c, v, w, x) ==
    LET f == x.facts[w.artifact]
        a == w.artifact
    IN  /\ Still(c, v, x, a)
        /\ f.sha = w.sha /\ f.withdrawal = 0 /\ (f.anchored \/ ~c.contract[a].binding)
        /\ \/ f.receiptFor = w.sha /\ ReceiptStands(c, v, a, f)
           \/ f.receiptFor = None /\ ~c.contract[a].provenance
        /\ Human(c, a) => /\ f.verdict = "ACCEPT" /\ f.subject = w.sha
                          /\ DecisionStands(c, v, a, f)
        /\ ~Human(c, a) => f.verdict = None /\ (f.inherited \/ ~c.contract[a].decision)

LEMMA FinishedIsUsable ==
    ASSUME NEW c, NEW v, NEW w, Asked(c, v, w), NEW x, Finished(c, v, w, x)
    PROVE  w.artifact \in Have(c, x)
  <1> DEFINE a == w.artifact
             f == x.facts[a]
  <1>1. /\ ChainIsBound(c) /\ a \in DOMAIN c.kind /\ Placed(c, v) /\ w.sha # None
        /\ c.roles[a] \subseteq Have(c, v) /\ w.kind = KindOf(c, a)
    BY DEF Asked, Sound
  <1>2. Still(c, v, x, a) /\ Placed(c, x)
    BY DEF Finished, Still
  <1>3. Near(c, v, x, a)
    BY <1>1, <1>2, PlacedIs DEF Still, Near
  <1>4. c.roles[a] \subseteq Have(c, x)
    BY <1>1, <1>3, RolesStay
  <1>5. /\ f.sha = w.sha /\ f.withdrawal = 0 /\ (f.anchored \/ ~c.contract[a].binding)
        /\ \/ f.receiptFor = w.sha /\ ReceiptStands(c, v, a, f)
           \/ f.receiptFor = None /\ ~c.contract[a].provenance
        /\ Human(c, a) => /\ f.verdict = "ACCEPT" /\ f.subject = w.sha
                          /\ DecisionStands(c, v, a, f)
        /\ ~Human(c, a) => f.verdict = None /\ (f.inherited \/ ~c.contract[a].decision)
    BY DEF Finished
  <1>6. None # "ACCEPT" /\ (Human(c, a) => ~Egress(c, a))
    BY <1>1, BoundIs, WorkflowAssumption DEF Human, Verdicts
  <1> HIDE DEF f
  <1>0. \A refs, seq, receipt : Check_refs(c, v, a, refs, seq, receipt) => Check_refs(c, x, a, refs, seq, receipt)
    BY <1>2, CheckStill
  <1> HIDE DEF a
  <1>7. f.receiptFor # None => Check_refs(c, x, a, f.receiptInputs, f.receiptSeq, TRUE)
    BY <1>0, <1>5 DEF ReceiptStands
  <1>8. f.verdict = "ACCEPT" => Check_refs(c, x, a, f.refs, f.decisionSeq, FALSE)
    BY <1>0, <1>5, <1>6 DEF DecisionStands
  <1>9. ~Stale(c, x, c.roles[a], a)
    BY <1>7, <1>8 DEF Stale, f
  <1>10. Bound(c, f, a) /\ Derivable(c, f, a) /\ Accepted(c, f, a)
    BY <1>1, <1>5, <1>6 DEF Bound, Derivable, Accepted
  <1>11. IsUsable(c, x, c.roles[a], a)
    BY <1>1, <1>5, <1>9, <1>10 DEF IsUsable, f
  <1> QED
    BY <1>1, <1>4, <1>11, BecomesUsable DEF a

-----------------------------------------------------------------------------
(* What each event adds.                                                   *)
LEMMA StillAfter ==
    ASSUME NEW c, NEW v, NEW w, Asked(c, v, w), NEW a, a = w.artifact, NEW x, Still(c, v, x, a),
           NEW y, Keeps(x, y, {"n", "facts"}), y.n = x.n + 1, Beside(c, x, y, a),
           NEW changed, KeepsFact(x.facts[a], y.facts[a], changed)
    PROVE  Still(c, v, y, a)
  <1>1. a \in DOMAIN c.kind /\ Placed(c, x) /\ Placed(c, v) /\ v.n <= x.n /\ x.sources = v.sources
    BY DEF Asked, Still, Sound
  <1>2. y.sources = x.sources /\ y.accepts = x.accepts /\ DOMAIN y.facts[a] = FactFields
    BY DEF Keeps, KeepsFact, ViewFields
  <1>3. Placed(c, y)
    BY <1>1, <1>2, PlacedAgain, {"n", "facts"} \subseteq {"n", "facts", "findings"}
  <1>4. v.n <= y.n
    BY <1>1, PlacedIs
  <1>5. \A b \in DOMAIN c.kind \ {a} : ~Egress(c, b) => y.facts[b] = v.facts[b]
    BY DEF Still, Beside
  <1> QED
    BY <1>1, <1>2, <1>3, <1>4, <1>5 DEF Still

LEMMA KeepsFactRefl == ASSUME NEW f, DOMAIN f = FactFields, NEW changed PROVE KeepsFact(f, f, changed)
  BY DEF KeepsFact

LEMMA DoesProduced ==
    ASSUME NEW c, NEW v, NEW w, Asked(c, v, w), NEW a, a = w.artifact, NEW x, Still(c, v, x, a),
           w.kind = "confirm" => w.sha \notin x.facts[a].history \ {x.facts[a].sha},
           NEW y, y = Does(c, x, w, "produced")
    PROVE  LET g == x.facts[a]
               h == y.facts[a]
           IN  /\ Still(c, v, y, a) /\ KeepsFact(g, h, {"sha", "history", "epoch", "producedAt", "inherited"})
               /\ h.sha = w.sha /\ (g.sha = w.sha => h.inherited = g.inherited)
  <1>1. a \in DOMAIN c.kind /\ Placed(c, x) /\ DOMAIN x.facts[a] = FactFields
    BY PlacedIs DEF Asked, Still
  <1>2. CASE Skip(c, x, w, "produced")
    <2>1. y = x
      BY <1>2 DEF Does
    <2>2. x.facts[a].sha = w.sha
      BY <1>2 DEF Skip, Repeats
    <2> QED
      BY <1>1, <2>1, <2>2, KeepsFactRefl
  <1>3. CASE ~Skip(c, x, w, "produced")
    <2>1. y = Produced(c, x, a, w.sha)
      BY <1>3 DEF Does, Applied
    <2>2. LET g == x.facts[a]
              h == y.facts[a]
          IN  /\ Keeps(x, y, {"n", "facts"}) /\ y.n = x.n + 1 /\ Beside(c, x, y, a)
              /\ KeepsFact(g, h, {"sha", "history", "epoch", "producedAt", "inherited"})
              /\ h.sha = w.sha /\ (g.sha = w.sha => h.inherited = g.inherited)
      BY <1>1, <2>1, ProducedIs
    <2>3. Still(c, v, y, a)
      BY <2>2, StillAfter
    <2> QED
      BY <2>2, <2>3
  <1> QED
    BY <1>2, <1>3

LEMMA DoesAnchor ==
    ASSUME NEW c, NEW v, NEW w, Asked(c, v, w), NEW a, a = w.artifact, NEW x, Still(c, v, x, a),
           NEW y, y = Does(c, x, w, "anchor")
    PROVE  Still(c, v, y, a) /\ KeepsFact(x.facts[a], y.facts[a], {"anchored"}) /\ y.facts[a].anchored
  <1>1. a \in DOMAIN c.kind /\ Placed(c, x) /\ DOMAIN x.facts[a] = FactFields
    BY PlacedIs DEF Asked, Still
  <1>2. CASE Skip(c, x, w, "anchor")
    <2>1. y = x
      BY <1>2 DEF Does
    <2>2. x.facts[a].anchored
      BY <1>2 DEF Skip, Repeats
    <2> QED
      BY <1>1, <2>1, <2>2, KeepsFactRefl
  <1>3. CASE ~Skip(c, x, w, "anchor")
    <2>1. y = Anchored(x, a)
      BY <1>3 DEF Does, Applied
    <2>2. /\ Keeps(x, y, {"n", "facts"}) /\ y.n = x.n + 1 /\ Beside(c, x, y, a)
          /\ KeepsFact(x.facts[a], y.facts[a], {"anchored"}) /\ y.facts[a].anchored
      BY <1>1, <2>1, AnchoredIs
    <2>3. Still(c, v, y, a)
      BY <2>2, StillAfter
    <2> QED
      BY <2>2, <2>3
  <1> QED
    BY <1>2, <1>3

(* What is not stale answers to its references.                            *)
LEMMA FreshAnswers ==
    ASSUME NEW c, NEW v, NEW w, Asked(c, v, w), NEW a, a = w.artifact, NEW x, Still(c, v, x, a),
           x.facts[a].sha # None, ~StaleIn(c, x, a)
    PROVE  LET g == x.facts[a]
           IN  /\ g.receiptFor # None => ReceiptStands(c, v, a, g)
               /\ g.verdict = "ACCEPT" /\ ~Egress(c, a) => DecisionStands(c, v, a, g)
  <1> DEFINE g == x.facts[a]
  <1>1. /\ g.receiptFor # None => Check_refs(c, x, a, g.receiptInputs, g.receiptSeq, TRUE)
        /\ g.verdict = "ACCEPT" /\ ~Egress(c, a) => Check_refs(c, x, a, g.refs, g.decisionSeq, FALSE)
    BY DEF StaleIn, Stale
  <1>2. \A refs, seq, receipt : Check_refs(c, x, a, refs, seq, receipt) => Check_refs(c, v, a, refs, seq, receipt)
    BY CheckStill
  <1> QED
    BY <1>1, <1>2 DEF ReceiptStands, DecisionStands

ReceiptOf(w) == [for |-> w.sha, inputs |-> w.inputs, under |-> w.under, start |-> w.at]

(* A text is taken in anew if what was taken in has gone stale, and a      *)
(* receipt without its revision is not LeftOver.                           *)
IngestAsked(c, v, w) ==
    LET f == v.facts[w.artifact]
    IN  /\ w.renew <=> StaleIn(c, v, w.artifact)
        /\ f.sha = None /\ f.receiptFor = w.sha => Check_refs(c, v, w.artifact, w.inputs, f.receiptSeq, TRUE)

LEMMA DoesReceipt ==
    ASSUME NEW c, NEW v, NEW w, Asked(c, v, w), NEW a, a = w.artifact, NEW x, Still(c, v, x, a),
           w.kind = "ingest" => x = v /\ IngestAsked(c, v, w),
           w.kind # "ingest" => x.facts[a].sha = w.sha,
           w.kind = "model" => Authorised(x, ReceiptOf(w)),
           w.kind = "export" => Inherits(x, a, ReceiptOf(w)),
           NEW y, y = Does(c, x, w, "receipt")
    PROVE  LET g == x.facts[a]
               h == y.facts[a]
           IN  /\ Still(c, v, y, a)
               /\ KeepsFact(g, h, {"receiptFor", "receiptInputs", "receiptSeq", "epoch", "inherited"})
               /\ h.receiptFor = w.sha /\ ReceiptStands(c, v, a, h)
               /\ w.kind = "export" => h.inherited \/ h = g
  <1>1. /\ a \in DOMAIN c.kind /\ Placed(c, x) /\ DOMAIN x.facts[a] = FactFields /\ x.n \in Nat
        /\ ChainIsBound(c) /\ w.kind = KindOf(c, a) /\ w.sha # None /\ v.n <= x.n
        /\ Check_refs(c, v, a, w.inputs, v.n, TRUE)
    <2>1. /\ a \in DOMAIN c.kind /\ ChainIsBound(c) /\ w.kind = KindOf(c, a) /\ w.sha # None
          /\ Check_refs(c, v, a, w.inputs, v.n, TRUE)
      BY DEF Asked
    <2>2. Placed(c, x) /\ v.n <= x.n
      BY DEF Still
    <2>3. x.n \in Nat /\ DOMAIN x.facts[a] = FactFields
      BY <2>1, <2>2, PlacedIs
    <2> QED
      BY <2>1, <2>2, <2>3
  <1>2. /\ c.kind[a] = "model" <=> w.kind = "model"
        /\ Egress(c, a) <=> w.kind = "export"
    BY <1>1, BoundIs
  <1>3. CASE Skip(c, x, w, "receipt")
    <2>1. y = x
      BY <1>3 DEF Does
    <2>2. /\ x.facts[a].receiptFor = w.sha /\ x.facts[a].receiptInputs = w.inputs /\ ~w.renew
          /\ w.kind # "ingest" => ~StaleIn(c, x, a)
      BY <1>3 DEF Skip, Repeats
    <2>3. ReceiptStands(c, v, a, x.facts[a])
      <3>1. CASE w.kind = "ingest" /\ x.facts[a].sha = None
        BY <2>2, <3>1 DEF ReceiptStands, IngestAsked
      <3>2. CASE ~(w.kind = "ingest" /\ x.facts[a].sha = None)
        <4>1. x.facts[a].sha # None /\ ~StaleIn(c, x, a)
          BY <1>1, <2>2, <3>2 DEF IngestAsked
        <4> QED
          BY <1>1, <2>2, <4>1, FreshAnswers
      <3> QED
        BY <3>1, <3>2
    <2> QED
      BY <1>1, <2>1, <2>2, <2>3, KeepsFactRefl
  <1>4. CASE ~Skip(c, x, w, "receipt")
    <2>1. y = Receipted(c, x, a, ReceiptOf(w))
      BY <1>4 DEF Does, Applied, ReceiptOf
    <2>2. ~(c.kind[a] = "model" /\ ~Authorised(x, ReceiptOf(w)))
      BY <1>2
    <2>3. LET g == x.facts[a]
              h == y.facts[a]
          IN  /\ Keeps(x, y, {"n", "facts"}) /\ y.n = x.n + 1 /\ Beside(c, x, y, a)
              /\ KeepsFact(g, h, {"receiptFor", "receiptInputs", "receiptSeq", "epoch", "inherited"})
              /\ h.receiptFor = ReceiptOf(w).for /\ h.receiptInputs = ReceiptOf(w).inputs
              /\ h.receiptSeq = x.n + 1
              /\ h.inherited = IF Egress(c, a) THEN Inherits(x, a, ReceiptOf(w)) ELSE g.inherited
      BY <1>1, <2>1, <2>2, ReceiptedIs
    <2>4. Still(c, v, y, a)
      BY <2>3, StillAfter
    <2>5. ReceiptOf(w).for = w.sha /\ ReceiptOf(w).inputs = w.inputs
      BY DEF ReceiptOf
    <2>6. v.n \in Nat
      BY PlacedIs DEF Asked, Sound
    <2>7. Check_refs(c, v, a, w.inputs, x.n + 1, TRUE)
      <3>1. x.n + 1 \in Nat /\ v.n <= x.n + 1
        BY <1>1, <2>6
      <3> QED
        BY <1>1, <3>1, CheckLater
    <2> QED
      BY <1>2, <2>3, <2>4, <2>5, <2>7 DEF ReceiptStands
  <1> QED
    BY <1>3, <1>4

LEMMA DoesDecision ==
    ASSUME NEW c, NEW v, NEW w, Asked(c, v, w), NEW a, a = w.artifact, NEW x, Still(c, v, x, a),
           Human(c, a), x.facts[a].sha = w.sha, x.facts[a].withdrawal = 0,
           NEW y, y = Does(c, x, w, "decision")
    PROVE  LET g == x.facts[a]
               h == y.facts[a]
           IN  /\ Still(c, v, y, a) /\ KeepsFact(g, h, {"verdict", "subject", "refs", "decisionSeq", "epoch"})
               /\ h.verdict = "ACCEPT" /\ h.subject = w.sha
               /\ DecisionStands(c, v, a, h)
  <1>1. /\ a \in DOMAIN c.kind /\ Placed(c, x) /\ DOMAIN x.facts[a] = FactFields /\ x.n \in Nat
        /\ ChainIsBound(c) /\ w.kind = KindOf(c, a) /\ w.sha # None /\ v.n <= x.n /\ v.n \in Nat
        /\ Check_refs(c, v, a, w.inputs, v.n, FALSE) /\ w.at \in Nat
    <2>1. /\ a \in DOMAIN c.kind /\ ChainIsBound(c) /\ w.kind = KindOf(c, a) /\ w.sha # None /\ w.at \in Nat
          /\ Check_refs(c, v, a, w.inputs, v.n, FALSE) /\ Placed(c, v)
      BY DEF Asked, Sound
    <2>2. Placed(c, x) /\ v.n <= x.n
      BY DEF Still
    <2>3. v.n \in Nat /\ x.n \in Nat /\ DOMAIN x.facts[a] = FactFields
      BY <2>1, <2>2, PlacedIs
    <2> QED
      BY <2>1, <2>2, <2>3, Zenon
  <1>2. ~Egress(c, a) /\ w.kind # "ingest"
    BY <1>1, BoundIs DEF Human
  <1>3. CASE Skip(c, x, w, "decision")
    <2>1. y = x
      BY <1>3 DEF Does
    <2>2. /\ x.facts[a].verdict = "ACCEPT" /\ x.facts[a].subject = w.sha /\ ~StaleIn(c, x, a)
      BY <1>2, <1>3 DEF Skip, Repeats
    <2>3. DecisionStands(c, v, a, x.facts[a])
      BY <1>1, <1>2, <2>2, FreshAnswers
    <2> QED
      BY <1>1, <2>1, <2>2, <2>3, KeepsFactRefl
  <1>4. CASE ~Skip(c, x, w, "decision")
    <2> DEFINE d == [verdict |-> "ACCEPT", subject |-> w.sha, refs |-> w.inputs, undo_of |-> 0, at |-> w.at]
    <2>1. y = DecisionRecorded(c, x, a, d)
      BY <1>4 DEF Does, Applied
    <2>2. d.verdict = "ACCEPT" /\ d.subject = w.sha /\ d.refs = w.inputs /\ d.at = w.at
      OBVIOUS
    <2> HIDE DEF d
    <2>3. LET g == x.facts[a]
              h == y.facts[a]
          IN  /\ Keeps(x, y, {"n", "facts", "accepts"}) /\ y.n = x.n + 1 /\ Beside(c, x, y, a)
              /\ KeepsFact(g, h, {"verdict", "subject", "refs", "decisionSeq", "epoch"})
              /\ h.verdict = "ACCEPT" /\ h.subject = w.sha /\ h.refs = w.inputs
              /\ h.decisionSeq = x.n + 1
              /\ c.confirms[a] = NoText => y.accepts = x.accepts
              /\ c.confirms[a] # NoText => AcceptsGrow(x, y, w.sha, w.at)
      BY <1>1, <2>1, <2>2, AcceptedIs
    <2>4. Check_refs(c, v, a, w.inputs, x.n + 1, FALSE)
      <3>1. x.n + 1 \in Nat /\ v.n <= x.n + 1
        BY <1>1
      <3> QED
        BY <1>1, <3>1, CheckLater
    <2>5. y.sources = x.sources /\ DOMAIN y = ViewFields /\ DOMAIN y.facts[a] = FactFields
      BY <2>3 DEF Keeps, KeepsFact, ViewFields
    <2>6. Placed(c, y)
      <3>1. \A m \in DOMAIN y.accepts : y.accepts[m] \in Nat
        BY <1>1, <2>3 DEF AcceptsGrow, Placed
      <3>2. DOMAIN y.facts = DOMAIN c.kind /\ \A b \in DOMAIN c.kind : DOMAIN y.facts[b] = FactFields
        BY <2>3, <2>5 DEF Beside, Ends, KeepsFact
      <3>3. y.n \in Nat
        BY <1>1, <2>3
      <3> QED
        BY <1>1, <2>5, <3>1, <3>2, <3>3, PlacedIs DEF Placed, NoView, NoFacts, ViewFields, FactFields
    <2>7. Still(c, v, y, a)
      <3>1. v.n <= y.n
        BY <1>1, <2>3
      <3>2. \A b \in DOMAIN c.kind \ {a} : ~Egress(c, b) => y.facts[b] = v.facts[b]
        BY <2>3 DEF Still, Beside
      <3> QED
        BY <2>3, <2>5, <2>6, <3>1, <3>2 DEF Still
    <2> QED
      BY <2>3, <2>4, <2>7 DEF DecisionStands
  <1> QED
    BY <1>3, <1>4

-----------------------------------------------------------------------------
(* Each kind of command, carried out.                                      *)
LEMMA ContractIs ==
    ASSUME NEW c, NEW v, NEW w, Asked(c, v, w), NEW a, a = w.artifact
    PROVE  /\ w.kind \notin {"confirm", "gate", "export"} => ~c.contract[a].decision
           /\ w.kind = "ingest" => ~c.contract[a].binding
           /\ w.kind = "confirm" => ~c.contract[a].provenance
           /\ Human(c, a) <=> w.kind \in {"confirm", "gate"}
  <1>1. StepsAreBound(c, a) /\ w.kind = KindOf(c, a)
    BY BoundIs DEF Asked
  <1>2. Human(c, a) <=> w.kind \in {"confirm", "gate"}
    BY <1>1 DEF Human
  <1>3. /\ w.kind \in {"confirm", "gate"} <=> c.contract[a].decision /\ w.kind # "export"
        /\ w.kind = "ingest" => ~c.contract[a].binding
        /\ w.kind = "confirm" => ~c.contract[a].provenance
    BY <1>1 DEF StepsAreBound
  <1>4. w.kind \notin {"confirm", "gate", "export"} => ~c.contract[a].decision
    BY <1>3
  <1> QED
    BY <1>2, <1>3, <1>4

LEMMA IngestWorks ==
    ASSUME NEW c, NEW v, NEW w, Asked(c, v, w), w.kind = "ingest", IngestAsked(c, v, w)
    PROVE  w.artifact \in Have(c, Carry(c, v, w))
  <1> DEFINE a == w.artifact
             x == Does(c, v, w, "receipt")
             y == Does(c, x, w, "produced")
  <1>1. Todo(c, w) = <<"receipt", "produced">>
    BY DEF Todo, IngestTodo
  <1>2. Carry(c, v, w) = y
    BY <1>1, CarriedTwo
  <1>3. Still(c, v, v, a)
    BY StillRefl
  <1>4. /\ ~Human(c, a) /\ ~c.contract[a].decision /\ ~c.contract[a].binding
        /\ v.facts[a].withdrawal = 0 /\ v.facts[a].verdict = None
    BY ContractIs DEF Asked
  <1>5. /\ Still(c, v, x, a)
        /\ KeepsFact(v.facts[a], x.facts[a], {"receiptFor", "receiptInputs", "receiptSeq", "epoch", "inherited"})
        /\ x.facts[a].receiptFor = w.sha
        /\ ReceiptStands(c, v, a, x.facts[a])
    <2>1. w.kind # "model" /\ w.kind # "export" /\ v = v /\ x = Does(c, v, w, "receipt") /\ a = w.artifact
      OBVIOUS
    <2> HIDE DEF x, a
    <2> QED
      BY <1>3, <2>1, DoesReceipt
  <1> HIDE DEF x
  <1>6. /\ Still(c, v, y, a)
        /\ KeepsFact(x.facts[a], y.facts[a], {"sha", "history", "epoch", "producedAt", "inherited"})
        /\ y.facts[a].sha = w.sha
    BY <1>5, DoesProduced
  <1> HIDE DEF y
  <1>7. Finished(c, v, w, y)
    BY <1>4, <1>5, <1>6 DEF Finished, KeepsFact, FactFields, ReceiptStands, DecisionStands
  <1> QED
    BY <1>2, <1>7, FinishedIsUsable

LEMMA ConfirmWorks ==
    ASSUME NEW c, NEW v, NEW w, Asked(c, v, w), w.kind = "confirm", v.facts[w.artifact].receiptFor = None,
           w.sha \notin v.facts[w.artifact].history \ {v.facts[w.artifact].sha}
    PROVE  w.artifact \in Have(c, Carry(c, v, w))
  <1> DEFINE a == w.artifact
             x == Does(c, v, w, "produced")
             y == Does(c, x, w, "decision")
             z == Does(c, y, w, "anchor")
  <1>1. Todo(c, w) = <<"produced", "decision", "anchor">>
    BY DEF Todo, ConfirmTodo
  <1>2. Carry(c, v, w) = z
    BY <1>1, CarriedThree
  <1>3. Still(c, v, v, a)
    BY StillRefl
  <1>4. Human(c, a) /\ ~c.contract[a].provenance /\ v.facts[a].withdrawal = 0
    BY ContractIs DEF Asked
  <1>5. /\ Still(c, v, x, a)
        /\ KeepsFact(v.facts[a], x.facts[a], {"sha", "history", "epoch", "producedAt", "inherited"})
        /\ x.facts[a].sha = w.sha
    BY <1>3, DoesProduced
  <1> HIDE DEF x
  <1>6. x.facts[a].withdrawal = 0
    BY <1>4, <1>5 DEF KeepsFact, FactFields
  <1>7. /\ Still(c, v, y, a)
        /\ KeepsFact(x.facts[a], y.facts[a], {"verdict", "subject", "refs", "decisionSeq", "epoch"})
        /\ y.facts[a].verdict = "ACCEPT" /\ y.facts[a].subject = w.sha
        /\ DecisionStands(c, v, a, y.facts[a])
    <2>1. y = Does(c, x, w, "decision") /\ a = w.artifact
      OBVIOUS
    <2> HIDE DEF y, a
    <2> QED
      BY <1>4, <1>5, <1>6, <2>1, DoesDecision
  <1> HIDE DEF y
  <1>8. Still(c, v, z, a) /\ KeepsFact(y.facts[a], z.facts[a], {"anchored"}) /\ z.facts[a].anchored
    BY <1>7, DoesAnchor
  <1> HIDE DEF z
  <1>9. Finished(c, v, w, z)
    BY <1>4, <1>5, <1>7, <1>8 DEF Finished, KeepsFact, FactFields, ReceiptStands, DecisionStands
  <1> QED
    BY <1>2, <1>9, FinishedIsUsable

LEMMA GateWorks ==
    ASSUME NEW c, NEW v, NEW w, Asked(c, v, w), w.kind = "gate"
    PROVE  w.artifact \in Have(c, Carry(c, v, w))
  <1> DEFINE a == w.artifact
             x == Does(c, v, w, "produced")
             y == Does(c, x, w, "decision")
             z == Does(c, y, w, "anchor")
             q == Does(c, z, w, "receipt")
  <1>1. Todo(c, w) = <<"produced", "decision", "anchor", "receipt">>
    BY DEF Todo, GateTodo
  <1>2. Carry(c, v, w) = q
    BY <1>1, CarriedFour
  <1>3. Still(c, v, v, a)
    BY StillRefl
  <1>4. Human(c, a) /\ v.facts[a].withdrawal = 0
    BY ContractIs DEF Asked
  <1>5. /\ Still(c, v, x, a)
        /\ KeepsFact(v.facts[a], x.facts[a], {"sha", "history", "epoch", "producedAt", "inherited"})
        /\ x.facts[a].sha = w.sha
    BY <1>3, DoesProduced
  <1> HIDE DEF x
  <1>6. x.facts[a].withdrawal = 0
    BY <1>4, <1>5 DEF KeepsFact, FactFields
  <1>7. /\ Still(c, v, y, a)
        /\ KeepsFact(x.facts[a], y.facts[a], {"verdict", "subject", "refs", "decisionSeq", "epoch"})
        /\ y.facts[a].verdict = "ACCEPT" /\ y.facts[a].subject = w.sha
        /\ DecisionStands(c, v, a, y.facts[a])
    <2>1. y = Does(c, x, w, "decision") /\ a = w.artifact
      OBVIOUS
    <2> HIDE DEF y, a
    <2> QED
      BY <1>4, <1>5, <1>6, <2>1, DoesDecision
  <1> HIDE DEF y
  <1>8. Still(c, v, z, a) /\ KeepsFact(y.facts[a], z.facts[a], {"anchored"}) /\ z.facts[a].anchored
    BY <1>7, DoesAnchor
  <1> HIDE DEF z
  <1>9. z.facts[a].sha = w.sha
    BY <1>5, <1>7, <1>8 DEF KeepsFact, FactFields
  <1>10. /\ Still(c, v, q, a)
         /\ KeepsFact(z.facts[a], q.facts[a], {"receiptFor", "receiptInputs", "receiptSeq", "epoch", "inherited"})
         /\ q.facts[a].receiptFor = w.sha
         /\ ReceiptStands(c, v, a, q.facts[a])
    BY <1>8, <1>9, DoesReceipt
  <1> HIDE DEF q
  <1>11. Finished(c, v, w, q)
    <2>1. /\ q.facts[a].sha = w.sha /\ q.facts[a].withdrawal = 0 /\ q.facts[a].anchored
          /\ q.facts[a].verdict = "ACCEPT" /\ q.facts[a].subject = w.sha
          /\ q.facts[a].refs = y.facts[a].refs /\ q.facts[a].decisionSeq = y.facts[a].decisionSeq
      BY <1>4, <1>5, <1>7, <1>8, <1>10 DEF KeepsFact, FactFields
    <2> QED
      BY <1>4, <1>7, <1>10, <2>1 DEF Finished, DecisionStands
  <1> QED
    BY <1>2, <1>11, FinishedIsUsable

LEMMA ModelWorks ==
    ASSUME NEW c, NEW v, NEW w, Asked(c, v, w), w.kind = "model", Authorised(v, ReceiptOf(w))
    PROVE  w.artifact \in Have(c, Carry(c, v, w))
  <1> DEFINE a == w.artifact
             x == Does(c, v, w, "produced")
             y == Does(c, x, w, "receipt")
             z == Does(c, y, w, "anchor")
  <1>1. Todo(c, w) = <<"produced", "receipt", "anchor">>
    BY DEF Todo, ModelTodo
  <1>2. Carry(c, v, w) = z
    BY <1>1, CarriedThree
  <1>3. Still(c, v, v, a)
    BY StillRefl
  <1>4. /\ ~Human(c, a) /\ ~c.contract[a].decision /\ v.facts[a].withdrawal = 0 /\ v.facts[a].verdict = None
        /\ ChainIsBound(c) /\ a \in DOMAIN c.kind /\ KindOf(c, a) = "model"
    BY ContractIs DEF Asked
  <1>5. /\ Still(c, v, x, a)
        /\ KeepsFact(v.facts[a], x.facts[a], {"sha", "history", "epoch", "producedAt", "inherited"})
        /\ x.facts[a].sha = w.sha
    BY <1>3, DoesProduced
  <1> HIDE DEF x
  <1>6. Authorised(x, ReceiptOf(w))
    <2>1. c.confirms[a] = NoText
      BY <1>4, BoundIs DEF StepsAreBound
    <2>2. x.accepts = v.accepts
      BY <1>5, <2>1 DEF Still
    <2> QED
      BY <2>2 DEF Authorised
  <1>7. /\ Still(c, v, y, a)
        /\ KeepsFact(x.facts[a], y.facts[a], {"receiptFor", "receiptInputs", "receiptSeq", "epoch", "inherited"})
        /\ y.facts[a].receiptFor = w.sha
        /\ ReceiptStands(c, v, a, y.facts[a])
    <2>1. y = Does(c, x, w, "receipt") /\ a = w.artifact /\ w.kind # "ingest" /\ w.kind # "export"
      OBVIOUS
    <2> HIDE DEF y, a
    <2> QED
      BY <1>5, <1>6, <2>1, DoesReceipt
  <1> HIDE DEF y
  <1>8. Still(c, v, z, a) /\ KeepsFact(y.facts[a], z.facts[a], {"anchored"}) /\ z.facts[a].anchored
    BY <1>7, DoesAnchor
  <1> HIDE DEF z
  <1>9. Finished(c, v, w, z)
    BY <1>4, <1>5, <1>7, <1>8 DEF Finished, KeepsFact, FactFields, ReceiptStands, DecisionStands
  <1> QED
    BY <1>2, <1>9, FinishedIsUsable

(* A derivation, from where its input has been observed.                   *)
LEMMA DeriveWorks ==
    ASSUME NEW c, NEW v, NEW w, Asked(c, v, w), w.kind = "derive"
    PROVE  /\ c.contract[w.artifact].binding =>
                w.artifact \in Have(c, Does(c, Does(c, Does(c, v, w, "produced"), w, "anchor"), w, "receipt"))
           /\ ~c.contract[w.artifact].binding =>
                w.artifact \in Have(c, Does(c, Does(c, v, w, "produced"), w, "receipt"))
  <1> DEFINE a == w.artifact
             x == Does(c, v, w, "produced")
             y == IF c.contract[a].binding THEN Does(c, x, w, "anchor") ELSE x
             z == Does(c, y, w, "receipt")
  <1>3. Still(c, v, v, a)
    BY StillRefl
  <1>4. /\ ~Human(c, a) /\ ~c.contract[a].decision /\ v.facts[a].withdrawal = 0 /\ v.facts[a].verdict = None
    BY ContractIs DEF Asked
  <1>5. /\ Still(c, v, x, a)
        /\ KeepsFact(v.facts[a], x.facts[a], {"sha", "history", "epoch", "producedAt", "inherited"})
        /\ x.facts[a].sha = w.sha
    BY <1>3, DoesProduced
  <1>0. /\ c.contract[a].binding =>
             z = Does(c, Does(c, Does(c, v, w, "produced"), w, "anchor"), w, "receipt")
        /\ ~c.contract[a].binding => z = Does(c, Does(c, v, w, "produced"), w, "receipt")
    OBVIOUS
  <1> HIDE DEF x
  <1>6. /\ Still(c, v, y, a) /\ KeepsFact(x.facts[a], y.facts[a], {"anchored"})
        /\ c.contract[a].binding => y.facts[a].anchored
    <2>1. CASE c.contract[a].binding
      BY <1>5, <2>1, DoesAnchor
    <2>2. CASE ~c.contract[a].binding
      BY <1>5, <2>2 DEF KeepsFact
    <2> QED
      BY <2>1, <2>2
  <1> HIDE DEF y
  <1>7. y.facts[a].sha = w.sha
    BY <1>5, <1>6 DEF KeepsFact, FactFields
  <1>8. /\ Still(c, v, z, a)
        /\ KeepsFact(y.facts[a], z.facts[a], {"receiptFor", "receiptInputs", "receiptSeq", "epoch", "inherited"})
        /\ z.facts[a].receiptFor = w.sha
        /\ ReceiptStands(c, v, a, z.facts[a])
    BY <1>6, <1>7, DoesReceipt
  <1> HIDE DEF z
  <1>9. Finished(c, v, w, z)
    BY <1>4, <1>5, <1>6, <1>8 DEF Finished, KeepsFact, FactFields, ReceiptStands, DecisionStands
  <1>10. a \in Have(c, z)
    BY <1>9, FinishedIsUsable
  <1> QED
    BY <1>0, <1>10

LEMMA ExportWorks ==
    ASSUME NEW c, NEW v, NEW w, Asked(c, v, w), w.kind = "export", Inherited(v, w.artifact),
           DOMAIN w.inputs = {"release.approved"}
    PROVE  w.artifact \in Have(c, Carry(c, v, w))
  <1> DEFINE a == w.artifact
             f == v.facts[a]
             approved == v.facts["release.approved"]
             x == Does(c, v, w, "produced")
             y == Does(c, x, w, "anchor")
             z == Does(c, y, w, "receipt")
             q == Does(c, z, w, "publish")
  <1>1. Todo(c, w) = <<"produced", "anchor", "receipt", "publish">>
    BY DEF Todo, ExportTodo
  <1>2. Carry(c, v, w) = z
    <2>1. Carry(c, v, w) = q
      BY <1>1, CarriedFour
    <2>2. q = z
      BY DEF Does, Applied
    <2> QED
      BY <2>1, <2>2
  <1>3. Still(c, v, v, a)
    BY StillRefl
  <1>4. /\ ~Human(c, a) /\ f.withdrawal = 0 /\ f.verdict = None
        /\ ChainIsBound(c) /\ a \in DOMAIN c.kind /\ KindOf(c, a) = "export" /\ Sound(c, v)
        /\ c.roles[a] \subseteq Have(c, v) /\ w.sha # None /\ Check_refs(c, v, a, w.inputs, v.n, TRUE)
    BY ContractIs DEF Asked
  <1>5. /\ Still(c, v, x, a)
        /\ KeepsFact(f, x.facts[a], {"sha", "history", "epoch", "producedAt", "inherited"})
        /\ x.facts[a].sha = w.sha /\ (f.sha = w.sha => x.facts[a].inherited = f.inherited)
    BY <1>3, DoesProduced
  <1> HIDE DEF x
  <1>6. Still(c, v, y, a) /\ KeepsFact(x.facts[a], y.facts[a], {"anchored"}) /\ y.facts[a].anchored
    BY <1>5, DoesAnchor
  <1> HIDE DEF y
  <1>7. /\ c.roles[a] = {"release.approved"} /\ "release.approved" \in DOMAIN c.kind
        /\ "release.approved" # a /\ ~Egress(c, "release.approved")
        /\ KindOf(c, "release.approved") = "gate" /\ a # "transcript.revision" /\ a # "metadata.draft"
    <2>1. StepsAreBound(c, a)
      BY <1>4, BoundIs
    <2>2. c.roles[a] = {"release.approved"} /\ a = "export.bundle" /\ c.roles[a] \subseteq DOMAIN c.kind
      BY <1>4, <2>1 DEF StepsAreBound
    <2>3. KindOf(c, "release.approved") = "gate"
      BY <1>4, <2>2 DEF ChainIsBound
    <2>4. ~Egress(c, "release.approved")
      BY <1>4, <2>2, <2>3, BoundIs
    <2> QED
      BY <2>2, <2>3, <2>4
  <1>8. "release.approved" \in Have(c, v) /\ approved.verdict = "ACCEPT" /\ approved.subject = approved.sha
    <2>1. Settled(c, v, Have(c, v), "release.approved")
      BY <1>4, <1>7, HaveIsSettled
    <2> QED
      BY <1>4, <1>7, <2>1, UsableIs DEF Settled, Human
  <1>9. w.inputs["release.approved"] = approved.sha
    <2>1. Required(c, v, a, w.inputs, TRUE) = {"release.approved"}
      BY <1>7 DEF Required
    <2>2. w.inputs["release.approved"] = Current(v, "release.approved").sha
      BY <1>4, <2>1 DEF Check_refs
    <2>3. DOMAIN v.facts = DOMAIN c.kind
      BY <1>4, PlacedIs DEF Sound
    <2> QED
      BY <1>7, <2>2, <2>3 DEF Current
  <1>10. y.facts["release.approved"] = approved /\ y.facts[a].sha = w.sha
    BY <1>5, <1>6, <1>7 DEF Still, KeepsFact, FactFields
  <1>11. Inherits(y, a, ReceiptOf(w))
    <2>1. Cardinality({"release.approved"}) = 1
      BY FS_Singleton
    <2>2. ReceiptOf(w).for = w.sha /\ ReceiptOf(w).inputs = w.inputs
      BY DEF ReceiptOf
    <2> QED
      BY <1>8, <1>9, <1>10, <2>1, <2>2 DEF Inherits
  <1>12. /\ Still(c, v, z, a)
         /\ KeepsFact(y.facts[a], z.facts[a], {"receiptFor", "receiptInputs", "receiptSeq", "epoch", "inherited"})
         /\ z.facts[a].receiptFor = w.sha
         /\ ReceiptStands(c, v, a, z.facts[a])
         /\ z.facts[a].inherited \/ z.facts[a] = y.facts[a]
    <2>1. z = Does(c, y, w, "receipt") /\ a = w.artifact /\ w.kind # "ingest" /\ w.kind # "model"
      OBVIOUS
    <2> HIDE DEF z, a
    <2> QED
      BY <1>6, <1>10, <1>11, <2>1, DoesReceipt
  <1> HIDE DEF z
  <1>13. ASSUME z.facts[a] = y.facts[a] PROVE z.facts[a].inherited
    <2>1. /\ f.receiptFor = w.sha /\ f.receiptInputs = z.facts[a].receiptInputs
          /\ f.receiptSeq = z.facts[a].receiptSeq
      BY <1>5, <1>6, <1>12, <1>13 DEF KeepsFact, FactFields
    <2>2. f.receiptSeq >= Current(v, "release.approved").at
      <3>1. Required(c, v, a, f.receiptInputs, TRUE) = {"release.approved"}
        BY <1>7 DEF Required
      <3> QED
        BY <1>12, <2>1, <3>1 DEF Check_refs, ReceiptStands
    <2>3. DOMAIN v.facts = DOMAIN c.kind
      BY <1>4, PlacedIs DEF Sound
    <2>4. approved.epoch \in 0..v.n /\ f.receiptSeq \in 0..f.epoch
      BY <1>4, <1>7 DEF Sound, FactsAreBound
    <2>5. approved.epoch <= f.receiptSeq
      <3>1. Current(v, "release.approved").at = approved.epoch
        BY <1>7, <2>3 DEF Current
      <3> QED
        BY <2>2, <2>4, <3>1
    <2>6. f.inherited /\ f.sha = w.sha
      BY <1>4, <2>1, <2>5 DEF Inherited
    <2> QED
      BY <1>5, <1>6, <1>13, <2>6 DEF KeepsFact, FactFields
  <1>14. Finished(c, v, w, z)
    BY <1>4, <1>5, <1>6, <1>12, <1>13 DEF Finished, KeepsFact, FactFields, ReceiptStands, DecisionStands
  <1> QED
    BY <1>2, <1>14, FinishedIsUsable

-----------------------------------------------------------------------------
(* What is planned is asked for.                                           *)
LEMMA PlanAsks ==
    ASSUME NEW c, NEW v, NEW input, ChainIsBound(c), Sound(c, v), Dated(v),
           NEW w, NEW a \in DOMAIN c.kind, w.artifact = a, w.kind = KindOf(c, a), w.inputs = InputsOf(c, v, input, a),
           w.at \in Nat, w.sha # None, c.roles[a] \subseteq Have(c, v), v.facts[a].withdrawal = 0,
           ~Human(c, a) => v.facts[a].verdict = None,
           w.kind = "ingest" => w.inputs["source"] # None,
           a = "metadata.draft" => input # None /\ v.sources["metadata.input"].sha = input
    PROVE  Asked(c, v, w)
  <1>1. StepsAreBound(c, a) /\ a \notin {"source", "metadata.input"} /\ (KindOf(c, a) = "ingest" <=> a = "transcript.revision")
    BY BoundIs
  <1>2. Placed(c, v) /\ v.n \in Nat /\ DOMAIN v.facts = DOMAIN c.kind /\ DOMAIN v.sources = {"source", "metadata.input"}
    BY PlacedIs DEF Sound
  <1>3. {"source", "metadata.input"} \cap DOMAIN c.kind = {} /\ c.roles[a] \subseteq DOMAIN c.kind
    BY <1>1 DEF ChainIsBound, StepsAreBound
  <1>4. ASSUME NEW r \in c.roles[a]
        PROVE  Current(v, r).sha = v.facts[r].sha /\ v.facts[r].sha # None /\ Current(v, r).at \in 0..v.n
    <2>1. Settled(c, v, Have(c, v), r)
      BY <1>4, HaveIsSettled
    <2>2. v.facts[r].sha # None
      BY <2>1 DEF Settled, IsUsable
    <2>3. v.facts[r].epoch \in 0..v.n
      BY <1>3, <1>4 DEF Sound, FactsAreBound
    <2> QED
      BY <1>2, <1>3, <1>4, <2>2, <2>3 DEF Current
  <1>5. \A r \in {"source", "metadata.input"} : Current(v, r).sha = v.sources[r].sha /\ Current(v, r).at \in 0..v.n
    BY <1>2, <1>3 DEF Current, Dated
  <1>6. \A r \in c.roles[a] : r \in InputRoles(c, a) => w.inputs[r] = v.facts[r].sha
    <2>1. \A r \in c.roles[a] : r \notin {"source", "metadata.input"}
      BY <1>3
    <2> QED
      BY <2>1 DEF InputsOf
  <1>7. ASSUME NEW receipt \in BOOLEAN, receipt \/ Human(c, a)
        PROVE  Check_refs(c, v, a, w.inputs, v.n, receipt)
    <2>0. DOMAIN w.inputs = InputRoles(c, a)
      BY DEF InputsOf
    <2>1. CASE a = "transcript.revision"
      <3>1. w.kind = "ingest" /\ receipt
        BY <1>1, <1>7, <2>1 DEF Human
      <3>2. Required(c, v, a, w.inputs, receipt) = {"source"} /\ InputRoles(c, a) = {"source"}
        BY <2>1, <3>1 DEF Required, InputRoles
      <3>3. w.inputs["source"] = v.sources["source"].sha /\ w.inputs["source"] # None
        BY <3>1, <3>2 DEF InputsOf
      <3>4. v.n >= Current(v, "source").at /\ Current(v, "source").sha = v.sources["source"].sha
        BY <1>2, <1>5
      <3> QED
        BY <2>0, <3>2, <3>3, <3>4 DEF Check_refs
    <2>2. CASE a = "metadata.draft"
      <3>1. w.kind = "derive" /\ receipt /\ c.roles[a] = c.requires[a]
        BY <1>1, <1>7, <2>2 DEF Human, StepsAreBound
      <3>2. InputRoles(c, a) = c.roles[a] \cup {"metadata.input"}
        BY <2>2, <3>1 DEF InputRoles
      <3>3. Required(c, v, a, w.inputs, receipt) = c.roles[a] \cup {"metadata.input"}
        BY <2>0, <2>2, <3>1, <3>2 DEF Required
      <3>4. w.inputs["metadata.input"] = v.sources["metadata.input"].sha /\ w.inputs["metadata.input"] # None
        BY <2>2, <3>2 DEF InputsOf
      <3>5. \A r \in c.roles[a] \cup {"metadata.input"} : w.inputs[r] # None /\ w.inputs[r] = Current(v, r).sha
        BY <1>4, <1>5, <1>6, <3>2, <3>4
      <3>6. \A r \in c.roles[a] \cup {"metadata.input"} : v.n >= Current(v, r).at
        <4> TAKE r \in c.roles[a] \cup {"metadata.input"}
        <4>1. Current(v, r).at \in 0..v.n
          BY <1>4, <1>5
        <4> QED
          BY <1>2, <4>1
      <3> QED
        BY <2>0, <3>2, <3>3, <3>5, <3>6 DEF Check_refs
    <2>3. CASE a \notin {"transcript.revision", "metadata.draft"}
      <3>1. InputRoles(c, a) = c.roles[a]
        <4>1. KindOf(c, a) \notin {"model", "derive"} => c.requires[a] = c.roles[a]
          BY <1>1, <2>3, BoundIs DEF StepsAreBound
        <4> QED
          BY <2>3, <4>1 DEF InputRoles
      <3>2. Required(c, v, a, w.inputs, receipt) = c.roles[a]
        BY <2>3 DEF Required
      <3>3. \A r \in c.roles[a] : w.inputs[r] # None /\ w.inputs[r] = Current(v, r).sha
        BY <1>4, <1>6, <3>1
      <3>4. \A r \in c.roles[a] : v.n >= Current(v, r).at
        BY <1>2, <1>4
      <3> QED
        BY <2>0, <3>1, <3>2, <3>3, <3>4 DEF Check_refs
    <2> QED
      BY <2>1, <2>2, <2>3
  <1>8. Check_refs(c, v, a, w.inputs, v.n, TRUE) /\ (Human(c, a) => Check_refs(c, v, a, w.inputs, v.n, FALSE))
    BY <1>7
  <1> QED
    BY <1>8 DEF Asked

(* A tuple with one more.                                                  *)
LEMMA OneMore ==
    ASSUME NEW E, NEW s \in Seq(E), NEW e \in E, NEW t \in Seq(E), Len(t) = Len(s) + 1, t[Len(s) + 1] = e,
           \A i \in 1..Len(s) : t[i] = s[i]
    PROVE  s \o <<e>> = t
  <1> DEFINE u == Append(s, e)
  <1>1. s \o <<e>> = u
    BY AppendIsConcat
  <1>2. /\ u \in Seq(E) /\ Len(u) = Len(s) + 1 /\ u[Len(s) + 1] = e
        /\ \A i \in 1..Len(s) : u[i] = s[i]
    BY AppendProperties
  <1> HIDE DEF u
  <1>3. Len(u) = Len(t) /\ Len(s) \in Nat
    BY <1>2
  <1>4. \A i \in 1..Len(u) : u[i] = t[i]
    BY <1>2, <1>3
  <1>5. u = t
    BY <1>2, <1>3, <1>4, SeqEqual
  <1> QED
    BY <1>1, <1>5

LEMMA Tuples ==
    ASSUME NEW E, NEW d \in E, NEW e \in E, NEW i \in E
    PROVE  /\ <<d>> \o <<e>> = <<d, e>> /\ <<d, e>> \o <<i>> = <<d, e, i>>
           /\ << >> \o <<d>> = <<d>> /\ <<d>> \o << >> = <<d>> /\ <<d, e>> \o << >> = <<d, e>>
  <1> DEFINE x == <<d>>
             y == <<d, e>>
             z == <<d, e, i>>
  <1>1. x \in Seq(E) /\ Len(x) = 1 /\ x[1] = d
    OBVIOUS
  <1>2. y \in Seq(E) /\ Len(y) = 2 /\ y[1] = d /\ y[2] = e
    OBVIOUS
  <1>3. z \in Seq(E) /\ Len(z) = 3 /\ z[1] = d /\ z[2] = e /\ z[3] = i
    OBVIOUS
  <1> HIDE DEF x, y, z
  <1>5. x \o <<e>> = y
    <2>1. \A k \in 1..Len(x) : y[k] = x[k]
      BY <1>1, <1>2
    <2>2. Len(y) = Len(x) + 1 /\ y[Len(x) + 1] = e
      BY <1>1, <1>2
    <2> QED
      BY <1>1, <1>2, <2>1, <2>2, OneMore
  <1>6. y \o <<i>> = z
    <2>1. \A k \in 1..Len(y) : z[k] = y[k]
      BY <1>2, <1>3
    <2>2. Len(z) = Len(y) + 1 /\ z[Len(y) + 1] = i
      BY <1>2, <1>3
    <2> QED
      BY <1>2, <1>3, <2>1, <2>2, OneMore
  <1>8. << >> \o x = x /\ x \o << >> = x /\ y \o << >> = y
    BY <1>1, <1>2, ConcatEmptySeq
  <1> QED
    BY <1>5, <1>6, <1>8 DEF x, y, z

LEMMA TupleOfFour ==
    ASSUME NEW E, NEW d \in E, NEW e \in E, NEW i \in E, NEW j \in E
    PROVE  <<d, e, i>> \o <<j>> = <<d, e, i, j>>
  <1> DEFINE z == <<d, e, i>>
             q == <<d, e, i, j>>
  <1>1. z \in Seq(E) /\ Len(z) = 3 /\ z[1] = d /\ z[2] = e /\ z[3] = i
    OBVIOUS
  <1>2. q \in Seq(E) /\ Len(q) = 4 /\ q[1] = d /\ q[2] = e /\ q[3] = i /\ q[4] = j
    OBVIOUS
  <1> HIDE DEF z, q
  <1>3. \A k \in 1..Len(z) : q[k] = z[k]
    BY <1>1, <1>2
  <1>4. Len(q) = Len(z) + 1 /\ q[Len(z) + 1] = j
    BY <1>1, <1>2
  <1>5. z \o <<j>> = q
    BY <1>1, <1>2, <1>3, <1>4, OneMore
  <1> QED
    BY <1>5 DEF z, q

LEMMA DeriveTodoIs ==
    ASSUME NEW c, NEW a
    PROVE  DeriveTodo(c, a) =
             IF a = "metadata.draft"
             THEN IF c.contract[a].binding THEN <<"observe", "produced", "anchor", "receipt">>
                  ELSE <<"observe", "produced", "receipt">>
             ELSE IF c.contract[a].binding THEN <<"produced", "anchor", "receipt">>
                  ELSE <<"produced", "receipt">>
  <1> DEFINE E == {"observe", "produced", "anchor", "receipt"}
  <1>1. "observe" \in E /\ "produced" \in E /\ "anchor" \in E /\ "receipt" \in E
    OBVIOUS
  <1> HIDE DEF E
  <1>2. ASSUME NEW o \in E, NEW p \in E, NEW n \in E, NEW r \in E
        PROVE  /\ << >> \o <<p>> \o << >> \o <<r>> = <<p, r>>
               /\ << >> \o <<p>> \o <<n>> \o <<r>> = <<p, n, r>>
               /\ <<o>> \o <<p>> \o << >> \o <<r>> = <<o, p, r>>
               /\ <<o>> \o <<p>> \o <<n>> \o <<r>> = <<o, p, n, r>>
    <2>1. << >> \o <<p>> = <<p>> /\ <<p>> \o << >> = <<p>> /\ <<p>> \o <<r>> = <<p, r>> /\ <<p>> \o <<n>> = <<p, n>>
      BY Tuples
    <2>2. <<p, n>> \o <<r>> = <<p, n, r>>
      BY Tuples
    <2>3. <<o>> \o <<p>> = <<o, p>> /\ <<o, p>> \o << >> = <<o, p>>
      BY Tuples
    <2>4. <<o, p>> \o <<r>> = <<o, p, r>> /\ <<o, p>> \o <<n>> = <<o, p, n>>
      BY Tuples
    <2>5. <<o, p, n>> \o <<r>> = <<o, p, n, r>>
      BY TupleOfFour
    <2> QED
      BY <2>1, <2>2, <2>3, <2>4, <2>5
  <1>3. << >> \o <<"produced">> \o << >> \o <<"receipt">> = <<"produced", "receipt">>
    BY <1>1, <1>2
  <1>4. << >> \o <<"produced">> \o <<"anchor">> \o <<"receipt">> = <<"produced", "anchor", "receipt">>
    BY <1>1, <1>2
  <1>5. <<"observe">> \o <<"produced">> \o << >> \o <<"receipt">> = <<"observe", "produced", "receipt">>
    BY <1>1, <1>2
  <1>6. <<"observe">> \o <<"produced">> \o <<"anchor">> \o <<"receipt">> = <<"observe", "produced", "anchor", "receipt">>
    BY <1>1, <1>2
  <1> QED
    BY <1>3, <1>4, <1>5, <1>6 DEF DeriveTodo

LEMMA DatedObserved ==
    ASSUME NEW c, NEW v, Placed(c, v), Dated(v), NEW role \in {"source", "metadata.input"}, NEW sha
    PROVE  Dated(Observed(v, role, sha))
  <1> DEFINE u == Observed(v, role, sha)
  <1>1. /\ Keeps(v, u, {"n", "sources"}) /\ u.n = v.n + 1
        /\ u.sources = [v.sources EXCEPT ![role] = [sha |-> sha, at |-> v.n + 1]]
    BY ObservedIs
  <1>2. v.n \in Nat /\ DOMAIN v.sources = {"source", "metadata.input"}
    BY PlacedIs
  <1> HIDE DEF u
  <1> QED
    BY <1>1, <1>2 DEF Dated, u

LEMMA ObservedInput ==
    ASSUME NEW c, NEW v, Placed(c, v), NEW sha
    PROVE  LET u == Observed(v, "metadata.input", sha)
           IN  /\ Keeps(v, u, {"n", "sources"}) /\ u.n = v.n + 1
               /\ u.sources = [v.sources EXCEPT !["metadata.input"] = [sha |-> sha, at |-> v.n + 1]]
  BY PlacedIs DEF Observed, Keeps, ViewFields

(* The draft, whose command observes the metadata file first.              *)
LEMMA DraftWorks ==
    ASSUME NEW c, NEW v, NEW input, ChainIsBound(c), Sound(c, v), Dated(v),
           NEW w, NEW a \in DOMAIN c.kind, a = "metadata.draft",
           w.artifact = a, w.kind = KindOf(c, a), w.inputs = InputsOf(c, v, input, a),
           w.at \in Nat, w.sha # None, c.roles[a] \subseteq Have(c, v), v.facts[a].withdrawal = 0,
           v.facts[a].verdict = None, input # None
    PROVE  a \in Have(c, Carry(c, v, w))
  <1> DEFINE u == Does(c, v, w, "observe")
  <1>1. w.kind = "derive" /\ w.inputs["metadata.input"] = input /\ Placed(c, v)
    <2>1. KindOf(c, a) = "derive"
      BY BoundIs DEF StepsAreBound
    <2>2. "metadata.input" \in InputRoles(c, a)
      BY DEF InputRoles
    <2> QED
      BY <2>1, <2>2 DEF InputsOf, Sound
  <1>2. /\ u.facts = v.facts /\ u.sources["metadata.input"].sha = input
        /\ u.sources["source"] = v.sources["source"] /\ Sound(c, u) /\ Dated(u)
    <2>1. CASE Skip(c, v, w, "observe")
      <3>1. u = v
        BY <2>1 DEF Does
      <3>2. v.sources["metadata.input"].sha = input
        BY <1>1, <2>1 DEF Skip, Repeats
      <3> QED
        BY <3>1, <3>2
    <2>2. CASE ~Skip(c, v, w, "observe")
      <3>1. u = Observed(v, "metadata.input", input)
        BY <1>1, <2>2 DEF Does, Applied
      <3> DEFINE o == Observed(v, "metadata.input", input)
      <3>2. /\ Keeps(v, o, {"n", "sources"}) /\ o.n = v.n + 1
            /\ o.sources = [v.sources EXCEPT !["metadata.input"] = [sha |-> input, at |-> v.n + 1]]
        BY <1>1, ObservedInput
      <3>3. DOMAIN v.sources = {"source", "metadata.input"}
        BY <1>1, PlacedIs
      <3>4. Sound(c, u) /\ Dated(u)
        BY <1>1, <3>1, StillSoundObserved, DatedObserved
      <3> HIDE DEF u
      <3> QED
        BY <3>1, <3>2, <3>3, <3>4 DEF Keeps, ViewFields
    <2> QED
      BY <2>1, <2>2
  <1> HIDE DEF u
  <1>3. c.roles[a] \subseteq Have(c, u)
    <2>1. Near(c, v, u, a)
      BY <1>1, <1>2, PlacedIs DEF Near
    <2> QED
      BY <2>1, RolesStay
  <1>4. w.inputs = InputsOf(c, u, input, a)
    <2>1. "source" \notin InputRoles(c, a)
      <3>1. c.requires[a] \subseteq DOMAIN c.kind
        BY BoundIs DEF StepsAreBound
      <3>2. "source" \notin DOMAIN c.kind
        BY DEF ChainIsBound
      <3> QED
        BY <3>1, <3>2 DEF InputRoles
    <2> QED
      BY <1>2, <2>1 DEF InputsOf
  <1>5. Asked(c, u, w)
    BY <1>1, <1>2, <1>3, <1>4, PlanAsks
  <1>6. CASE c.contract[a].binding
    <2>1. Todo(c, w) = <<"observe", "produced", "anchor", "receipt">>
      BY <1>1, <1>6, DeriveTodoIs DEF Todo
    <2>2. Carry(c, v, w) = Does(c, Does(c, Does(c, u, w, "produced"), w, "anchor"), w, "receipt")
      BY <2>1, CarriedFour DEF u
    <2> QED
      BY <1>1, <1>5, <1>6, <2>2, DeriveWorks
  <1>7. CASE ~c.contract[a].binding
    <2>1. Todo(c, w) = <<"observe", "produced", "receipt">>
      BY <1>1, <1>7, DeriveTodoIs DEF Todo
    <2>2. Carry(c, v, w) = Does(c, Does(c, u, w, "produced"), w, "receipt")
      BY <2>1, CarriedThree DEF u
    <2> QED
      BY <1>1, <1>5, <1>7, <2>2, DeriveWorks
  <1> QED
    BY <1>6, <1>7

LEMMA OtherDerivationsWork ==
    ASSUME NEW c, NEW v, NEW w, Asked(c, v, w), w.kind = "derive", w.artifact # "metadata.draft"
    PROVE  w.artifact \in Have(c, Carry(c, v, w))
  <1>1. CASE c.contract[w.artifact].binding
    <2>1. Todo(c, w) = <<"produced", "anchor", "receipt">>
      BY <1>1, DeriveTodoIs DEF Todo
    <2>2. Carry(c, v, w) = Does(c, Does(c, Does(c, v, w, "produced"), w, "anchor"), w, "receipt")
      BY <2>1, CarriedThree
    <2> QED
      BY <1>1, <2>2, DeriveWorks
  <1>2. CASE ~c.contract[w.artifact].binding
    <2>1. Todo(c, w) = <<"produced", "receipt">>
      BY <1>2, DeriveTodoIs DEF Todo
    <2>2. Carry(c, v, w) = Does(c, Does(c, v, w, "produced"), w, "receipt")
      BY <2>1, CarriedTwo
    <2> QED
      BY <1>2, <2>2, DeriveWorks
  <1> QED
    BY <1>1, <1>2

-----------------------------------------------------------------------------
(* A text that was taken in, and has not gone stale, is usable.            *)
LEMMA IngestedIsUsable ==
    ASSUME NEW c, NEW v, ChainIsBound(c), Sound(c, v), Sourced(c, v), NEW a \in DOMAIN c.kind,
           KindOf(c, a) = "ingest", NEW sha, sha = Content(a, [role \in {"source"} |-> v.sources["source"].sha], 0),
           sha # None, v.facts[a].sha = sha, ~StaleIn(c, v, a),
           c.roles[a] \subseteq Have(c, v), v.facts[a].withdrawal = 0, v.facts[a].verdict = None
    PROVE  a \in Have(c, v)
  <1> DEFINE f == v.facts[a]
  <1>1. /\ a = "transcript.revision" /\ ~c.contract[a].binding /\ ~c.contract[a].decision
    BY BoundIs DEF StepsAreBound
  <1>2. f.receiptFor # None /\ f.receiptInputs = f.receiptFor.from
    BY DEF Sound, FactsAreBound
  <1>3. PICK s \in Texts : f.receiptFor = TextOf(s)
    BY <1>2 DEF Sourced
  <1>4. Check_refs(c, v, a, f.receiptInputs, f.receiptSeq, TRUE)
    BY <1>2 DEF StaleIn, Stale
  <1>5. f.receiptInputs = [role \in {"source"} |-> s]
    BY <1>2, <1>3 DEF TextOf, Content
  <1>6. s = v.sources["source"].sha
    <2>1. f.receiptInputs["source"] = Current(v, "source").sha
      BY <1>1, <1>4 DEF Check_refs, Required
    <2>2. "source" \notin DOMAIN v.facts
      BY PlacedIs DEF ChainIsBound, Sound
    <2> QED
      BY <1>5, <2>1, <2>2 DEF Current
  <1>7. f.receiptFor = f.sha
    BY <1>1, <1>3, <1>6 DEF TextOf
  <1>8. IsUsable(c, v, c.roles[a], a)
    <2>1. ~Stale(c, v, c.roles[a], a)
      BY DEF StaleIn, Stale
    <2>2. Bound(c, f, a) /\ Derivable(c, f, a) /\ Accepted(c, f, a)
      BY <1>1, <1>2, <1>7 DEF Bound, Derivable, Accepted
    <2> QED
      BY <2>1, <2>2 DEF IsUsable
  <1> QED
    BY <1>8, BecomesUsable

(* The marker a model appeals to is that of the text it reads.             *)
LEMMA ModelIsAuthorised ==
    ASSUME NEW c, NEW v, ChainIsBound(c), Sound(c, v), NEW w, WorkOK(c, w), w.kind = "model",
           NEW a, a = w.artifact, NEW input, w.inputs = InputsOf(c, v, input, a),
           c.roles[a] \subseteq Have(c, v), w.at \in Nat, \A m \in DOMAIN v.accepts : v.accepts[m] <= w.at
    PROVE  Authorised(v, ReceiptOf(w))
  <1>1. a \in DOMAIN c.kind /\ KindOf(c, a) = "model" /\ StepsAreBound(c, a) /\ a # "transcript.revision"
    BY BoundIs DEF WorkOK
  <1>2. PICK gate \in c.requires[a] : c.confirms[gate] # NoText
    BY <1>1 DEF StepsAreBound
  <1>3. gate \in c.roles[a] /\ gate \in DOMAIN c.kind
    BY <1>1, <1>2 DEF StepsAreBound
  <1>4. KindOf(c, gate) = "confirm"
    BY <1>2, <1>3, BoundIs DEF StepsAreBound
  <1>5. v.facts[gate].verdict = "ACCEPT" /\ v.facts[gate].subject = v.facts[gate].sha
    <2>1. Settled(c, v, Have(c, v), gate)
      BY <1>3, HaveIsSettled
    <2> QED
      BY <1>3, <1>4, <2>1, UsableIs DEF Settled, Human
  <1>6. v.facts[gate].sha \in DOMAIN v.accepts
    BY <1>2, <1>3, <1>5 DEF Sound, FactsAreBound
  <1>7. w.under = v.facts[gate].sha
    <2>1. w.under = w.inputs[gate]
      BY <1>2, <1>3 DEF WorkOK
    <2>2. gate \in InputRoles(c, a) /\ gate \notin {"source", "metadata.input"}
      BY <1>1, <1>3, BoundIs DEF InputRoles, StepsAreBound
    <2> QED
      BY <2>1, <2>2 DEF InputsOf
  <1> QED
    BY <1>6, <1>7 DEF Authorised, ReceiptOf

LEMMA NeverStuck ==
    ASSUME WorkInv, Sourced(chain, view), \A m \in DOMAIN view.accepts : view.accepts[m] <= clock,
           \A a, inputs, by : Content(a, inputs, by) # None
    PROVE  NoDeadEnd
  <1>1. ChainIsBound(chain) /\ Sound(chain, view) /\ Dated(view) /\ clock \in Nat
    BY WorkInvIs DEF RecordOK, Sourced, Dated
  <1> SUFFICES ASSUME NEW a \in Artefacts,
                      LET w == Plan(chain, view, file, a, clock + 1)
                      IN  a \notin have /\ chain.roles[a] \subseteq have /\ ~Excused(w)
               PROVE  LET w == Plan(chain, view, file, a, clock + 1)
                      IN  MayPlan(w, have) /\ a \in Have(chain, Carry(chain, view, w))
    BY DEF NoDeadEnd
  <1> DEFINE w == Plan(chain, view, file, a, clock + 1)
             f == view.facts[a]
             H == Have(chain, view)
  <1>2. /\ w.artifact = a /\ w.kind = KindOf(chain, a) /\ w.inputs = InputsOf(chain, view, file, a)
        /\ w.at = clock + 1 /\ w.sha = Content(a, w.inputs, IF w.kind = "model" THEN clock + 1 ELSE 0)
        /\ w.renew <=> w.kind = "ingest" /\ StaleIn(chain, view, a)
    BY DEF Plan
  <1>3. a \in DOMAIN chain.kind /\ a \notin H /\ chain.roles[a] \subseteq H /\ have = H /\ ~Excused(w)
    BY DEF Artefacts, have
  <1> HIDE DEF w, H
  <1>4. /\ ~view.findings /\ f.withdrawal = 0
        /\ w.kind \notin {"confirm", "gate"} => f.verdict = None
        /\ w.kind = "ingest" => w.inputs["source"] # None /\ ~LeftOver(w)
        /\ w.kind = "confirm" => w.sha \notin f.history \ {f.sha}
        /\ a = "metadata.draft" => file # None
        /\ FileStands(w)
    BY <1>2, <1>3 DEF Excused
  <1>5. w.sha # None /\ w.at \in Nat /\ w.artifact \in DOMAIN chain.kind
    BY <1>1, <1>2, <1>3
  <1>6. StepsAreBound(chain, a) /\ w.kind \in {"ingest", "confirm", "gate", "export", "model", "derive"}
    BY <1>1, <1>2, <1>3, BoundIs
  <1>7. chain.requires[a] \subseteq H
    BY <1>3, <1>6 DEF StepsAreBound
  <1>8. w.kind = "ingest" => view.sources["source"].sha # None /\ w.inputs = [role \in {"source"} |-> view.sources["source"].sha]
    <2>0. SUFFICES ASSUME w.kind = "ingest"
                   PROVE  view.sources["source"].sha # None /\ w.inputs = [role \in {"source"} |-> view.sources["source"].sha]
      OBVIOUS
    <2>1. a = "transcript.revision"
      BY <1>1, <1>2, <1>3, <2>0, BoundIs
    <2>2. InputRoles(chain, a) = {"source"}
      BY <1>2, <2>0, <2>1 DEF InputRoles
    <2>3. w.inputs = [role \in {"source"} |-> view.sources["source"].sha]
      BY <1>2, <2>2 DEF InputsOf
    <2> QED
      BY <1>4, <2>0, <2>3
  <1>9. WorkOK(chain, w)
    <2>1. KindOf(chain, a) = "ingest" => view.sources["source"].sha # None
      BY <1>2, <1>8
    <2> QED
      BY <1>1, <1>3, <2>1, PlanIsOK DEF w
  <1>10. a # "metadata.draft" => Asked(chain, view, w)
    <2>1. ~Human(chain, a) => f.verdict = None
      BY <1>2, <1>4 DEF Human
    <2> QED
      BY <1>1, <1>2, <1>3, <1>4, <1>5, <2>1, PlanAsks DEF H
  <1>11. a = "metadata.draft" => w.kind = "derive"
    BY <1>2, <1>6 DEF StepsAreBound
  <1>12. CASE w.kind = "ingest"
    <2>1. MayIngest(w)
      <3>1. ASSUME f.sha = w.sha, ~w.renew PROVE FALSE
        <4>1. ~StaleIn(chain, view, a)
          BY <1>2, <1>12, <3>1
        <4>2. w.sha = Content(a, [role \in {"source"} |-> view.sources["source"].sha], 0)
          BY <1>2, <1>8, <1>12
        <4>3. a \in H
          BY <1>1, <1>2, <1>3, <1>4, <1>5, <1>12, <3>1, <4>1, <4>2, IngestedIsUsable DEF H
        <4> QED
          BY <1>3, <4>3
      <3> QED
        BY <1>2, <1>4, <1>12, <3>1 DEF MayIngest
    <2>2. IngestAsked(chain, view, w)
      <3>1. w.renew <=> StaleIn(chain, view, a)
        BY <1>2, <1>12
      <3>2. ASSUME f.sha = None, f.receiptFor = w.sha
            PROVE  Check_refs(chain, view, a, w.inputs, f.receiptSeq, TRUE)
        <4>1. ~(f.receiptSeq < view.sources["source"].at)
          BY <1>2, <1>4, <1>12, <3>2 DEF LeftOver
        <4>2. a = "transcript.revision"
          BY <1>1, <1>2, <1>3, <1>12, BoundIs
        <4>3. Placed(chain, view) /\ DOMAIN view.sources = {"source", "metadata.input"} /\ view.n \in Nat
          BY <1>1, PlacedIs DEF Sound
        <4>4. view.sources["source"].at \in 0..view.n
          BY <1>1, <4>3 DEF Dated
        <4>5. f.epoch \in 0..view.n /\ f.receiptSeq \in 0..f.epoch
          BY <1>1, <1>3 DEF Sound, FactsAreBound
        <4>6. f.receiptSeq >= view.sources["source"].at
          BY <4>1, <4>3, <4>4, <4>5
        <4>7. Current(view, "source") = view.sources["source"]
          <5>1. "source" \notin DOMAIN view.facts
            BY <1>1, PlacedIs DEF ChainIsBound, Sound
          <5> QED
            BY <5>1 DEF Current
        <4>8. Required(chain, view, a, w.inputs, TRUE) = {"source"}
          BY <4>2 DEF Required
        <4> QED
          BY <1>8, <1>12, <4>6, <4>7, <4>8 DEF Check_refs
      <3> QED
        BY <1>2, <3>1, <3>2 DEF IngestAsked
    <2>3. a \in Have(chain, Carry(chain, view, w))
      BY <1>2, <1>10, <1>11, <1>12, <2>2, IngestWorks
    <2> QED
      BY <1>3, <1>12, <2>1, <2>3 DEF MayPlan, w
  <1>13. CASE w.kind = "confirm"
    <2>1. MayConfirm(w)
      <3>1. chain.confirms[a] \in chain.requires[a] /\ KindOf(chain, chain.confirms[a]) = "ingest"
        BY <1>2, <1>6, <1>13 DEF StepsAreBound
      <3> DEFINE t == chain.confirms[a]
      <3>2. t \in H /\ t \in DOMAIN chain.kind
        BY <1>6, <1>7, <3>1 DEF StepsAreBound
      <3>3. Settled(chain, view, H, t)
        BY <1>1, <3>2, HaveIsSettled DEF H
      <3>4. view.facts[t].sha # None /\ view.facts[t].receiptFor = view.facts[t].sha
        BY <1>1, <3>1, <3>2, <3>3, UsableIs DEF Settled, Human
      <3> QED
        BY <1>2, <3>4 DEF MayConfirm
    <2>2. f.receiptFor = None
      BY <1>2, <1>3, <1>13 DEF Sourced
    <2>3. a \in Have(chain, Carry(chain, view, w))
      BY <1>2, <1>4, <1>10, <1>11, <1>13, <2>2, ConfirmWorks
    <2> QED
      BY <1>3, <1>13, <2>1, <2>3 DEF MayPlan, w
  <1>14. CASE w.kind = "gate"
    <2>1. MayDecide(w, H)
      BY <1>2, <1>4, <1>7 DEF MayDecide, FileStands
    <2>2. a \in Have(chain, Carry(chain, view, w))
      BY <1>2, <1>10, <1>11, <1>14, GateWorks
    <2> QED
      BY <1>3, <1>14, <2>1, <2>2 DEF MayPlan, w
  <1>15. CASE w.kind = "export"
    <2>1. MayExport(w, H)
      BY <1>2, <1>4, <1>7 DEF MayExport, FileStands
    <2>2. Inherited(view, a)
      BY <1>2, <1>3, <1>15 DEF Sourced
    <2>3. DOMAIN w.inputs = {"release.approved"}
      BY <1>9, <1>15 DEF WorkOK
    <2>4. a \in Have(chain, Carry(chain, view, w))
      BY <1>2, <1>10, <1>11, <1>15, <2>2, <2>3, ExportWorks
    <2> QED
      BY <1>3, <1>15, <2>1, <2>4 DEF MayPlan, w
  <1>16. CASE w.kind = "model"
    <2>1. MayAsk(w, H)
      BY <1>2, <1>3, <1>4 DEF MayAsk
    <2>2. Authorised(view, ReceiptOf(w))
      <3>1. \A m \in DOMAIN view.accepts : view.accepts[m] <= w.at
        <4> TAKE m \in DOMAIN view.accepts
        <4>1. view.accepts[m] \in Nat
          BY <1>1 DEF Sound, Placed
        <4> QED
          BY <1>1, <1>2, <4>1
      <3> QED
        BY <1>1, <1>2, <1>3, <1>5, <1>9, <1>16, <3>1, ModelIsAuthorised DEF H
    <2>3. a \in Have(chain, Carry(chain, view, w))
      BY <1>2, <1>10, <1>11, <1>16, <2>2, ModelWorks
    <2> QED
      BY <1>3, <1>16, <2>1, <2>3 DEF MayPlan, w
  <1>17. CASE w.kind = "derive"
    <2>1. MayDerive(w, H)
      BY <1>2, <1>3, <1>4 DEF MayDerive
    <2>2. a \in Have(chain, Carry(chain, view, w))
      <3>1. CASE a = "metadata.draft"
        BY <1>1, <1>2, <1>3, <1>4, <1>5, <1>17, <3>1, DraftWorks DEF H
      <3>2. CASE a # "metadata.draft"
        BY <1>2, <1>10, <1>17, <3>2, OtherDerivationsWork
      <3> QED
        BY <3>1, <3>2
    <2> QED
      BY <1>3, <1>17, <2>1, <2>2 DEF MayPlan, w
  <1> QED
    BY <1>6, <1>12, <1>13, <1>14, <1>15, <1>16, <1>17

-----------------------------------------------------------------------------
(* What keeps every step ready: the rest of the inductive invariant.  An   *)
(* acceptance is dated by the clock, an export has planned the bundle that *)
(* its approval makes, and once that is produced it is what the record has.*)
SourcedAt(c, v, a) ==
    /\ KindOf(c, a) = "ingest" =>
         v.facts[a].receiptFor \in {None} \cup {TextOf(s) : s \in Texts}
    /\ KindOf(c, a) = "confirm" => v.facts[a].receiptFor = None
    /\ KindOf(c, a) = "export" => Inherited(v, a)

Recent(v, time) == \A m \in DOMAIN v.accepts : v.accepts[m] <= time

ExportPlan(w) ==
    /\ w.inputs = [role \in {"release.approved"} |-> w.inputs["release.approved"]]
    /\ w.sha = Content(w.artifact, w.inputs, 0)

JobReady(v, j, time) ==
    j # Idle =>
        LET w == j.work IN
        /\ w.kind = "confirm" => w.at <= time
        /\ w.kind = "export" =>
             /\ ExportPlan(w)
             /\ j.todo \in {ExportTodo, <<"anchor", "receipt", "publish">>, <<"receipt", "publish">>, <<"publish">>}
             /\ j.at = "plan" => j.todo = ExportTodo
             /\ UnderLock(j) /\ j.todo # ExportTodo => v.facts[w.artifact].sha = w.sha

ReadyInv ==
    /\ Sourced(chain, view) /\ Recent(view, clock)
    /\ \A p \in Processes : JobReady(view, job[p], clock)

LEMMA SourcedIs ==
    ASSUME NEW c, NEW v
    PROVE  Sourced(c, v) <=> Dated(v) /\ \A a \in DOMAIN c.kind : SourcedAt(c, v, a)
  BY DEF Sourced, SourcedAt, Dated

LEMMA ExportIs ==
    ASSUME NEW c, ChainIsBound(c), NEW e \in DOMAIN c.kind, KindOf(c, e) = "export"
    PROVE  /\ e = "export.bundle" /\ Egress(c, e) /\ c.requires[e] = {"release.approved"}
           /\ "release.approved" \in DOMAIN c.kind /\ ~Egress(c, "release.approved")
           /\ KindOf(c, "release.approved") = "gate"
  <1>1. StepsAreBound(c, e) /\ Egress(c, e)
    BY BoundIs
  <1>2. c.requires[e] = {"release.approved"} /\ e = "export.bundle" /\ "release.approved" \in DOMAIN c.kind
    BY <1>1 DEF StepsAreBound
  <1>3. KindOf(c, "release.approved") = "gate"
    BY <1>2 DEF ChainIsBound
  <1>4. ~Egress(c, "release.approved")
    BY <1>2, <1>3, BoundIs
  <1> QED
    BY <1>1, <1>2, <1>3, <1>4

(* What concerns another artifact leaves a bundle's inheritance as it is,  *)
(* or overtakes its receipt.                                               *)
LEMMA InheritsBeside ==
    ASSUME NEW c, NEW v, NEW u, ChainIsBound(c), Sound(c, v), NEW a \in DOMAIN c.kind,
           Beside(c, v, u, a), u.n = v.n + 1,
           a = "release.approved" => u.facts[a].epoch = v.n + 1,
           NEW e \in DOMAIN c.kind, KindOf(c, e) = "export", e # a, Inherited(v, e)
    PROVE  Inherited(u, e)
  <1>1. /\ c.requires[e] = {"release.approved"} /\ "release.approved" \in DOMAIN c.kind
        /\ ~Egress(c, "release.approved")
    BY ExportIs
  <1>2. CASE a = "release.approved"
    <2>1. u.facts[e].receiptSeq = v.facts[e].receiptSeq
      BY BesideKeeps
    <2>2. v.facts[e].receiptSeq <= v.n /\ v.n \in Nat /\ v.facts[e].receiptSeq \in Nat
      <3>1. v.n \in Nat /\ FactsAreBound(c, v, e)
        BY DEF Sound, Placed
      <3> QED
        BY <3>1 DEF FactsAreBound
    <2>3. ~(u.facts["release.approved"].epoch <= u.facts[e].receiptSeq)
      BY <1>2, <2>1, <2>2
    <2> QED
      BY <2>3 DEF Inherited
  <1>3. CASE a # "release.approved"
    <2>1. u.facts[e] = v.facts[e] /\ u.facts["release.approved"] = v.facts["release.approved"]
      BY <1>1, <1>3 DEF Beside
    <2> QED
      BY <2>1 DEF Inherited
  <1> QED
    BY <1>2, <1>3

LEMMA SourcedBeside ==
    ASSUME NEW c, NEW v, NEW u, ChainIsBound(c), Sound(c, v), Sourced(c, v), NEW a \in DOMAIN c.kind,
           Beside(c, v, u, a), u.n = v.n + 1, u.sources = v.sources,
           a = "release.approved" => u.facts[a].epoch = v.n + 1,
           SourcedAt(c, u, a)
    PROVE  Sourced(c, u)
  <1>1. Dated(v) /\ (\A b \in DOMAIN c.kind : SourcedAt(c, v, b)) /\ v.n \in Nat
    BY SourcedIs DEF Sound, Placed
  <1>2. Dated(u)
    BY <1>1 DEF Dated
  <1>3. ASSUME NEW b \in DOMAIN c.kind, b # a PROVE SourcedAt(c, u, b)
    <2>1. u.facts[b].receiptFor = v.facts[b].receiptFor
      BY <1>3, BesideKeeps
    <2>2. SourcedAt(c, v, b)
      BY <1>1
    <2>3. KindOf(c, b) = "export" => Inherited(u, b)
      BY <1>3, <2>2, InheritsBeside DEF SourcedAt
    <2> QED
      BY <2>1, <2>2, <2>3 DEF SourcedAt
  <1> QED
    BY <1>2, <1>3, SourcedIs

(* Where the facts stay, but for an anchor, nothing is lost.               *)
SameFacts(c, v, u) ==
    \A a \in DOMAIN c.kind : KeepsFact(v.facts[a], u.facts[a], {"anchored"})

LEMMA SourcedStill ==
    ASSUME NEW c, NEW v, NEW u, ChainIsBound(c), Sourced(c, v), SameFacts(c, v, u), Dated(u)
    PROVE  Sourced(c, u)
  <1>1. ASSUME NEW a \in DOMAIN c.kind PROVE SourcedAt(c, u, a)
    <2>1. SourcedAt(c, v, a) /\ KeepsFact(v.facts[a], u.facts[a], {"anchored"})
      BY SourcedIs DEF SameFacts
    <2>2. KindOf(c, a) = "export" =>
            KeepsFact(v.facts["release.approved"], u.facts["release.approved"], {"anchored"})
      BY ExportIs DEF SameFacts
    <2>3. KindOf(c, a) = "export" => Inherited(u, a)
      BY <2>1, <2>2 DEF SourcedAt, Inherited, KeepsFact, FactFields
    <2> QED
      BY <2>1, <2>3 DEF SourcedAt, KeepsFact, FactFields
  <1> QED
    BY <1>1, SourcedIs

(* What an export may count on when it writes.                             *)
ExportMay(c, v, w, event) ==
    /\ ExportPlan(w)
    /\ "release.approved" \in Have(c, v) /\ v.facts["release.approved"].sha = w.inputs["release.approved"]
    /\ event = "receipt" => v.facts[w.artifact].sha = w.sha

LEMMA ProducedSources ==
    ASSUME NEW c, NEW v, ChainIsBound(c), Sound(c, v), Sourced(c, v), NEW w, WorkOK(c, w),
           w.kind = "export" => ExportMay(c, v, w, "produced")
    PROVE  Sourced(c, Produced(c, v, w.artifact, w.sha))
  <1> DEFINE a == w.artifact
             u == Produced(c, v, a, w.sha)
             f == v.facts[a]
             g == u.facts[a]
  <1>1. a \in DOMAIN c.kind /\ w.kind = KindOf(c, a) /\ Placed(c, v) /\ SourcedAt(c, v, a)
    BY SourcedIs DEF WorkOK, Sound
  <1>2. /\ Keeps(v, u, {"n", "facts"}) /\ u.n = v.n + 1 /\ Beside(c, v, u, a)
        /\ KeepsFact(f, g, {"sha", "history", "epoch", "producedAt", "inherited"})
        /\ g.sha = w.sha /\ g.epoch = v.n + 1
        /\ f.sha = w.sha => g.inherited = f.inherited
    BY <1>1, ProducedIs
  <1>3. u.sources = v.sources
    BY <1>2 DEF Keeps, ViewFields
  <1>4. g.receiptFor = f.receiptFor /\ g.receiptSeq = f.receiptSeq /\ g.verdict = f.verdict
    BY <1>2 DEF KeepsFact, FactFields
  <1> HIDE DEF u, f, g
  <1>5. w.kind = "export" => Inherited(u, a)
    <2> SUFFICES ASSUME w.kind = "export" PROVE Inherited(u, a)
      OBVIOUS
    <2>1. Inherited(v, a) /\ a # "release.approved" /\ "release.approved" \in DOMAIN c.kind /\ ~Egress(c, "release.approved")
      BY <1>1, ExportIs DEF SourcedAt
    <2>2. u.facts["release.approved"] = v.facts["release.approved"]
      BY <1>2, <2>1 DEF Beside
    <2>3. w.sha = Content(a, [role \in {"release.approved"} |-> v.facts["release.approved"].sha], 0)
      BY DEF ExportMay, ExportPlan
    <2> QED
      BY <1>2, <1>4, <2>1, <2>2, <2>3 DEF Inherited, f, g
  <1>6. SourcedAt(c, u, a)
    BY <1>1, <1>4, <1>5 DEF SourcedAt, f, g
  <1>7. a = "release.approved" => u.facts[a].epoch = v.n + 1
    BY <1>2 DEF g
  <1>8. Sourced(c, u)
    BY <1>1, <1>2, <1>3, <1>6, <1>7, SourcedBeside
  <1> QED
    BY <1>8 DEF u

LEMMA ReceiptSources ==
    ASSUME NEW c, NEW v, ChainIsBound(c), Sound(c, v), Sourced(c, v), NEW w, WorkOK(c, w),
           w.kind # "confirm", w.kind = "export" => ExportMay(c, v, w, "receipt")
    PROVE  Sourced(c, Receipted(c, v, w.artifact, ReceiptOf(w)))
  <1> DEFINE a == w.artifact
             receipt == ReceiptOf(w)
             u == Receipted(c, v, a, receipt)
             f == v.facts[a]
             g == u.facts[a]
             refused == c.kind[a] = "model" /\ ~Authorised(v, receipt)
  <1>1. a \in DOMAIN c.kind /\ w.kind = KindOf(c, a) /\ Placed(c, v) /\ SourcedAt(c, v, a) /\ v.n \in Nat /\ Dated(v)
    BY SourcedIs DEF WorkOK, Sound, Placed
  <1>2. receipt.for = w.sha /\ receipt.inputs = w.inputs
    BY DEF ReceiptOf
  <1>3. /\ refused => (Keeps(v, u, {"n", "findings"}) /\ u.n = v.n + 1)
        /\ ~refused =>
             /\ Keeps(v, u, {"n", "facts"}) /\ u.n = v.n + 1 /\ Beside(c, v, u, a)
             /\ KeepsFact(f, g, {"receiptFor", "receiptInputs", "receiptSeq", "epoch", "inherited"})
             /\ g.receiptFor = receipt.for /\ g.epoch = v.n + 1
             /\ g.inherited = IF Egress(c, a) THEN Inherits(v, a, receipt) ELSE f.inherited
             /\ \A b \in DOMAIN c.kind \ {a} : u.facts[b] = v.facts[b]
    BY <1>1, ReceiptedIs
  <1> HIDE DEF u, f, g, receipt
  <1>4. CASE refused
    <2>1. u.facts = v.facts /\ u.sources = v.sources /\ u.n = v.n + 1
      BY <1>3, <1>4 DEF Keeps, ViewFields
    <2>2. SameFacts(c, v, u) /\ Dated(u)
      BY <1>1, <2>1, PlacedIs, KeepsFactRefl DEF SameFacts, Dated
    <2>3. Sourced(c, u)
      BY <2>2, SourcedStill
    <2> QED
      BY <2>3 DEF u, receipt
  <1>5. CASE ~refused
    <2>1. u.sources = v.sources /\ u.n = v.n + 1 /\ g.sha = f.sha /\ g.verdict = f.verdict
      BY <1>3, <1>5 DEF Keeps, ViewFields, KeepsFact, FactFields
    <2>2. w.kind = "ingest" => \E s \in Texts : g.receiptFor = TextOf(s)
      BY <1>2, <1>3, <1>5 DEF WorkOK
    <2>3. w.kind = "export" => Inherited(u, a)
      <3> SUFFICES ASSUME w.kind = "export" PROVE Inherited(u, a)
        OBVIOUS
      <3> DEFINE r == "release.approved"
      <3>1. Egress(c, a) /\ a # r /\ r \in DOMAIN c.kind /\ KindOf(c, r) = "gate"
        BY <1>1, ExportIs
      <3>2. r \in Have(c, v) /\ v.facts[r].sha = w.inputs[r] /\ f.sha = w.sha /\ ExportPlan(w)
        BY DEF ExportMay, f
      <3>3. v.facts[r].verdict = "ACCEPT" /\ v.facts[r].subject = v.facts[r].sha
        <4>1. Settled(c, v, Have(c, v), r)
          BY <3>2, HaveIsSettled
        <4> QED
          BY <3>1, <4>1, UsableIs DEF Settled, Human
      <3>4. DOMAIN w.inputs = {r} /\ Cardinality({r}) = 1
        BY <3>2, FS_Singleton DEF ExportPlan
      <3>5. Inherits(v, a, receipt)
        BY <1>2, <3>2, <3>3, <3>4 DEF Inherits, f
      <3>6. u.facts[r] = v.facts[r]
        BY <1>3, <1>5, <3>1
      <3>7. w.sha = Content(a, [role \in {r} |-> v.facts[r].sha], 0)
        BY <3>2 DEF ExportPlan
      <3> QED
        BY <1>2, <1>3, <1>5, <2>1, <3>1, <3>2, <3>5, <3>6, <3>7 DEF Inherited, g
    <2>4. SourcedAt(c, u, a)
      BY <1>1, <2>2, <2>3 DEF SourcedAt, g
    <2>5. a = "release.approved" => u.facts[a].epoch = v.n + 1
      BY <1>3, <1>5 DEF g
    <2>6. Sourced(c, u)
      BY <1>1, <1>3, <1>5, <2>1, <2>4, <2>5, SourcedBeside
    <2> QED
      BY <2>6 DEF u, receipt
  <1> QED
    BY <1>4, <1>5

LEMMA AnchorSources ==
    ASSUME NEW c, NEW v, ChainIsBound(c), Sound(c, v), Sourced(c, v), NEW a \in DOMAIN c.kind
    PROVE  Sourced(c, Anchored(v, a))
  <1> DEFINE u == Anchored(v, a)
  <1>1. Placed(c, v) /\ v.n \in Nat /\ Dated(v)
    BY SourcedIs DEF Sound, Placed
  <1>2. /\ Keeps(v, u, {"n", "facts"}) /\ u.n = v.n + 1
        /\ KeepsFact(v.facts[a], u.facts[a], {"anchored"})
        /\ \A b \in DOMAIN c.kind \ {a} : u.facts[b] = v.facts[b]
    BY <1>1, AnchoredIs
  <1> HIDE DEF u
  <1>3. u.sources = v.sources
    BY <1>2 DEF Keeps, ViewFields
  <1>4. Dated(u)
    BY <1>1, <1>2, <1>3 DEF Dated
  <1>5. SameFacts(c, v, u)
    <2>1. ASSUME NEW b \in DOMAIN c.kind PROVE KeepsFact(v.facts[b], u.facts[b], {"anchored"})
      BY <1>1, <1>2, PlacedIs, KeepsFactRefl
    <2> QED
      BY <2>1 DEF SameFacts
  <1>6. Sourced(c, u)
    BY <1>4, <1>5, SourcedStill
  <1> QED
    BY <1>6 DEF u

LEMMA DecisionSources ==
    ASSUME NEW c, NEW v, ChainIsBound(c), Sound(c, v), Sourced(c, v), NEW a \in DOMAIN c.kind,
           Human(c, a), NEW d, d.verdict = "ACCEPT"
    PROVE  Sourced(c, DecisionRecorded(c, v, a, d))
  <1> DEFINE u == DecisionRecorded(c, v, a, d)
             f == v.facts[a]
             g == u.facts[a]
  <1>1. Placed(c, v) /\ v.n \in Nat /\ Dated(v) /\ SourcedAt(c, v, a)
    BY SourcedIs DEF Sound, Placed
  <1>2. /\ Keeps(v, u, {"n", "facts", "accepts"}) /\ u.n = v.n + 1
        /\ f.withdrawal # 0 => u.facts = v.facts
        /\ f.withdrawal = 0 =>
             /\ Beside(c, v, u, a)
             /\ KeepsFact(f, g, {"verdict", "subject", "refs", "decisionSeq", "epoch"})
             /\ g.epoch = v.n + 1
    BY <1>1, AcceptedIs
  <1> HIDE DEF u, f, g
  <1>3. u.sources = v.sources
    BY <1>2 DEF Keeps, ViewFields
  <1>4. CASE f.withdrawal # 0
    <2>1. SameFacts(c, v, u) /\ Dated(u)
      BY <1>1, <1>2, <1>3, <1>4, PlacedIs, KeepsFactRefl DEF SameFacts, Dated
    <2>2. Sourced(c, u)
      BY <2>1, SourcedStill
    <2> QED
      BY <2>2 DEF u
  <1>5. CASE f.withdrawal = 0
    <2>1. g.receiptFor = f.receiptFor
      BY <1>2, <1>5 DEF KeepsFact, FactFields
    <2>2. SourcedAt(c, u, a)
      BY <1>1, <2>1 DEF SourcedAt, Human, f, g
    <2>3. a = "release.approved" => u.facts[a].epoch = v.n + 1
      BY <1>2, <1>5 DEF g
    <2>4. Sourced(c, u)
      BY <1>1, <1>2, <1>3, <1>5, <2>2, <2>3, SourcedBeside
    <2> QED
      BY <2>4 DEF u
  <1> QED
    BY <1>4, <1>5

LEMMA DrawnSources ==
    ASSUME NEW c, NEW v, ChainIsBound(c), Sound(c, v), Sourced(c, v), NEW a \in DOMAIN c.kind, NEW d,
           \/ d.verdict = "WITHDRAW"
           \/ d.verdict = "UNDO" /\ v.facts[a].withdrawal # 0 /\ d.undo_of = v.facts[a].withdrawal
    PROVE  LET u == DecisionRecorded(c, v, a, d) IN Sourced(c, u) /\ u.accepts = v.accepts
  <1> DEFINE u == DecisionRecorded(c, v, a, d)
             f == v.facts[a]
             g == u.facts[a]
  <1>1. Placed(c, v) /\ SourcedAt(c, v, a)
    BY SourcedIs DEF Sound
  <1>2. /\ Keeps(v, u, {"n", "facts"}) /\ u.n = v.n + 1 /\ Beside(c, v, u, a)
        /\ KeepsFact(f, g, {"verdict", "subject", "refs", "decisionSeq", "epoch", "withdrawal", "inherited"})
        /\ g.verdict = d.verdict /\ g.epoch = v.n + 1
    BY <1>1, DrawnIs
  <1> HIDE DEF u, f, g
  <1>3. u.sources = v.sources /\ u.accepts = v.accepts
    BY <1>2 DEF Keeps, ViewFields
  <1>4. g.receiptFor = f.receiptFor
    BY <1>2 DEF KeepsFact, FactFields
  <1>5. g.verdict # None
    BY <1>2, WorkflowAssumption DEF Verdicts
  <1>6. SourcedAt(c, u, a)
    BY <1>1, <1>4, <1>5 DEF SourcedAt, Inherited, f, g
  <1>7. a = "release.approved" => u.facts[a].epoch = v.n + 1
    BY <1>2 DEF g
  <1>8. Sourced(c, u)
    BY <1>1, <1>2, <1>3, <1>6, <1>7, SourcedBeside
  <1> QED
    BY <1>3, <1>8 DEF u

LEMMA ObservedSources ==
    ASSUME NEW c, NEW v, ChainIsBound(c), Sound(c, v), Sourced(c, v),
           NEW role \in {"source", "metadata.input"}, NEW sha
    PROVE  LET u == Observed(v, role, sha) IN Sourced(c, u) /\ u.accepts = v.accepts
  <1> DEFINE u == Observed(v, role, sha)
  <1>1. Placed(c, v) /\ v.n \in Nat /\ Dated(v)
    BY SourcedIs DEF Sound, Placed
  <1>2. /\ Keeps(v, u, {"n", "sources"}) /\ u.n = v.n + 1
        /\ u.sources = [v.sources EXCEPT ![role] = [sha |-> sha, at |-> v.n + 1]]
    <2>1. Placed(c, v)
      BY <1>1
    <2> QED
      BY <2>1, PlacedIs DEF Observed, Keeps, ViewFields
  <1> HIDE DEF u
  <1>3. u.facts = v.facts /\ u.accepts = v.accepts
    BY <1>2 DEF Keeps, ViewFields
  <1>4. Dated(u)
    <2>1. DOMAIN u.sources = DOMAIN v.sources
      BY <1>2
    <2>2. ASSUME NEW x \in DOMAIN u.sources PROVE u.sources[x].at \in 0..u.n
      <3>1. CASE x = role
        BY <1>1, <1>2, <2>1, <2>2, <3>1
      <3>2. CASE x # role
        <4>1. u.sources[x] = v.sources[x] /\ v.sources[x].at \in 0..v.n
          BY <1>1, <1>2, <2>1, <2>2, <3>2 DEF Dated
        <4> QED
          BY <1>1, <1>2, <4>1
      <3> QED
        BY <3>1, <3>2
    <2> QED
      BY <2>2 DEF Dated
  <1>5. SameFacts(c, v, u)
    BY <1>1, <1>3, PlacedIs, KeepsFactRefl DEF SameFacts
  <1>6. Sourced(c, u)
    BY <1>4, <1>5, SourcedStill
  <1> QED
    BY <1>3, <1>6 DEF u

LEMMA RecentStill ==
    ASSUME NEW c, NEW v, Sound(c, v), NEW time \in Nat, Recent(v, time), NEW u, u.accepts = v.accepts,
           NEW later \in {time, time + 1}
    PROVE  Recent(u, later)
  <1>1. \A m \in DOMAIN v.accepts : v.accepts[m] \in Nat
    BY DEF Sound, Placed
  <1> QED
    BY <1>1 DEF Recent

LEMMA JobReadyStill ==
    ASSUME NEW c, NEW v, NEW u, NEW j, JobOK(c, v, j), NEW time \in Nat, JobReady(v, j, time),
           ~UnderLock(j) \/ j.work.kind # "export",
           NEW later \in {time, time + 1}
    PROVE  JobReady(u, j, later)
  <1>1. j # Idle => j.work.at \in Nat
    BY DEF JobOK, WorkOK
  <1> QED
    BY <1>1 DEF JobReady

LEMMA IdleIsReady == ASSUME NEW v, NEW time PROVE JobReady(v, Idle, time)
  BY DEF JobReady

(* What one event of a command does to it.                                 *)
LEMMA AppliedSources ==
    ASSUME NEW c, NEW v, ChainIsBound(c), Sound(c, v), Sourced(c, v), NEW time \in Nat, Recent(v, time),
           NEW w, WorkOK(c, w), NEW event, MayWrite(w, event),
           w.kind = "confirm" => event # "receipt" /\ w.at <= time,
           w.kind = "export" => ExportMay(c, v, w, event)
    PROVE  LET u == Applied(c, v, w, event) IN Sourced(c, u) /\ Recent(u, time)
  <1> DEFINE u == Applied(c, v, w, event)
             a == w.artifact
  <1>1. a \in DOMAIN c.kind /\ w.kind = KindOf(c, a) /\ Placed(c, v)
    BY DEF WorkOK, Sound
  <1>2. CASE event = "observe"
    <2>1. u = Observed(v, "metadata.input", w.inputs["metadata.input"])
      BY <1>2 DEF Applied
    <2> HIDE DEF u
    <2>2. Sourced(c, u) /\ u.accepts = v.accepts
      BY <2>1, ObservedSources
    <2>3. Recent(u, time)
      BY <2>2 DEF Recent
    <2> QED
      BY <2>2, <2>3 DEF u
  <1>3. CASE event = "produced"
    <2>1. u = Produced(c, v, a, w.sha)
      BY <1>3 DEF Applied
    <2> HIDE DEF u
    <2>2. Sourced(c, u)
      BY <1>3, <2>1, ProducedSources
    <2>3. u.accepts = v.accepts
      <3>1. Keeps(v, u, {"n", "facts"})
        BY <1>1, <2>1, ProducedIs
      <3> QED
        BY <3>1 DEF Keeps, ViewFields
    <2>4. Recent(u, time)
      BY <2>3 DEF Recent
    <2> QED
      BY <2>2, <2>4 DEF u
  <1>4. CASE event = "anchor"
    <2>1. u = Anchored(v, a)
      BY <1>4 DEF Applied
    <2> HIDE DEF u
    <2>2. Sourced(c, u)
      BY <1>1, <2>1, AnchorSources
    <2>3. u.accepts = v.accepts
      <3>1. Keeps(v, u, {"n", "facts"})
        BY <1>1, <2>1, AnchoredIs
      <3> QED
        BY <3>1 DEF Keeps, ViewFields
    <2>4. Recent(u, time)
      BY <2>3 DEF Recent
    <2> QED
      BY <2>2, <2>4 DEF u
  <1>5. CASE event = "receipt"
    <2>1. u = Receipted(c, v, a, ReceiptOf(w))
      BY <1>5 DEF Applied, ReceiptOf
    <2> HIDE DEF u
    <2>2. Sourced(c, u)
      BY <1>5, <2>1, ReceiptSources
    <2>3. u.accepts = v.accepts
      <3>1. Keeps(v, u, {"n", "findings"}) \/ Keeps(v, u, {"n", "facts"})
        BY <1>1, <2>1, ReceiptedIs
      <3> QED
        BY <3>1 DEF Keeps, ViewFields
    <2>4. Recent(u, time)
      BY <2>3 DEF Recent
    <2> QED
      BY <2>2, <2>4 DEF u
  <1>6. CASE event = "decision"
    <2> DEFINE d == [verdict |-> "ACCEPT", subject |-> w.sha, refs |-> w.inputs, undo_of |-> 0, at |-> w.at]
    <2>1. u = DecisionRecorded(c, v, a, d)
      BY <1>6 DEF Applied
    <2>2. d.verdict = "ACCEPT" /\ d.subject = w.sha /\ d.at = w.at
      OBVIOUS
    <2> HIDE DEF u, d
    <2>3. Human(c, a)
      BY <1>1, <1>6 DEF MayWrite, Human
    <2>4. Sourced(c, u)
      BY <1>1, <2>1, <2>2, <2>3, DecisionSources
    <2>5. /\ c.confirms[a] = NoText => u.accepts = v.accepts
          /\ c.confirms[a] # NoText => AcceptsGrow(v, u, d.subject, d.at)
      BY <1>1, <2>1, <2>2, AcceptedIs
    <2>6. Recent(u, time)
      <3>1. CASE c.confirms[a] = NoText
        BY <2>5, <3>1 DEF Recent
      <3>2. CASE c.confirms[a] # NoText
        <4>1. w.kind = "confirm"
          BY <1>1, <3>2, BoundIs DEF StepsAreBound
        <4>2. w.at <= time
          BY <4>1
        <4> QED
          BY <2>2, <2>5, <3>2, <4>2 DEF AcceptsGrow, Recent
      <3> QED
        BY <3>1, <3>2
    <2> QED
      BY <2>4, <2>6 DEF u
  <1>7. CASE event = "publish"
    BY <1>7 DEF Applied
  <1> QED
    BY <1>2, <1>3, <1>4, <1>5, <1>6, <1>7 DEF MayWrite

(* What an export has produced stays while it goes on.                     *)
LEMMA ExportGoesOn ==
    ASSUME NEW c, NEW v, ChainIsBound(c), Sound(c, v), NEW w, WorkOK(c, w), w.kind = "export",
           NEW event \in {"produced", "anchor", "receipt"},
           event # "produced" => v.facts[w.artifact].sha = w.sha,
           NEW u, (u = v /\ Skip(c, v, w, event)) \/ u = Applied(c, v, w, event)
    PROVE  u.facts[w.artifact].sha = w.sha
  <1> DEFINE a == w.artifact
  <1>1. a \in DOMAIN c.kind /\ Placed(c, v) /\ c.kind[a] # "model"
    BY KindIs DEF WorkOK, Sound
  <1>2. CASE u = v /\ Skip(c, v, w, event)
    BY <1>2 DEF Skip, Repeats
  <1>3. CASE u = Applied(c, v, w, event)
    <2>1. CASE event = "produced"
      <3>1. u = Produced(c, v, a, w.sha)
        BY <1>3, <2>1 DEF Applied
      <3> QED
        BY <1>1, <3>1, ProducedIs
    <2>2. CASE event = "anchor"
      <3>1. u = Anchored(v, a)
        BY <1>3, <2>2 DEF Applied
      <3>2. KeepsFact(v.facts[a], u.facts[a], {"anchored"})
        BY <1>1, <3>1, AnchoredIs
      <3> QED
        BY <2>2, <3>2 DEF KeepsFact, FactFields
    <2>3. CASE event = "receipt"
      <3>1. u = Receipted(c, v, a, ReceiptOf(w))
        BY <1>3, <2>3 DEF Applied, ReceiptOf
      <3>2. KeepsFact(v.facts[a], u.facts[a], {"receiptFor", "receiptInputs", "receiptSeq", "epoch", "inherited"})
        BY <1>1, <3>1, ReceiptedIs
      <3> QED
        BY <2>3, <3>2 DEF KeepsFact, FactFields
    <2> QED
      BY <2>1, <2>2, <2>3
  <1> QED
    BY <1>2, <1>3

LEMMA PlanIsReady ==
    ASSUME NEW c, NEW v, NEW input, ChainIsBound(c), NEW a \in DOMAIN c.kind, NEW time,
           KindOf(c, a) = "export"
    PROVE  LET w == Plan(c, v, input, a, time) IN ExportPlan(w) /\ Todo(c, w) = ExportTodo
  <1> DEFINE w == Plan(c, v, input, a, time)
             inputs == InputsOf(c, v, input, a)
  <1>1. w.kind = "export" /\ w.artifact = a /\ w.inputs = inputs /\ w.sha = Content(a, inputs, 0)
    BY DEF Plan
  <1>2. inputs = [role \in {"release.approved"} |-> inputs["release.approved"]]
    <2>1. InputRoles(c, a) = {"release.approved"}
      BY ExportIs DEF InputRoles
    <2> QED
      BY <2>1 DEF InputsOf
  <1> HIDE DEF w, inputs
  <1>3. ExportPlan(w)
    BY <1>1, <1>2 DEF ExportPlan
  <1>4. Todo(c, w) = ExportTodo
    BY <1>1 DEF Todo
  <1> QED
    BY <1>3, <1>4 DEF w

LEMMA StartsReady == Init => ReadyInv
  <1> SUFFICES ASSUME Init PROVE ReadyInv
    OBVIOUS
  <1>1. PICK sc \in Scenarios :
          chain = sc.chain /\ view = sc.view /\ job = [p \in Processes |-> Idle] /\ clock = 0
    BY DEF Init
  <1>2. Sourced(chain, view) /\ \A m \in DOMAIN view.accepts : view.accepts[m] = 0
    BY <1>1, WorkflowAssumption
  <1>3. Recent(view, clock)
    BY <1>1, <1>2 DEF Recent
  <1>4. \A p \in Processes : JobReady(view, job[p], clock)
    BY <1>1, IdleIsReady
  <1> QED
    BY <1>2, <1>3, <1>4 DEF ReadyInv

LEMMA BeginReady ==
    ASSUME WorkInv, ReadyInv, NEW p \in Processes, NEW a \in Artefacts, Begin(p, a)
    PROVE  ReadyInv'
  <1> DEFINE w == Plan(chain, view, file, a, clock + 1)
             todo == Todo(chain, w)
             j == [at |-> IF Holds(w, Head(todo)) THEN "plan" ELSE "write",
                   work |-> w, todo |-> todo, seen |-> Seen(a), skip |-> FALSE]
  <1>1. /\ ChainIsBound(chain) /\ Sound(chain, view) /\ JobsOK /\ clock \in Nat /\ a \in DOMAIN chain.kind
        /\ Sourced(chain, view) /\ Recent(view, clock)
        /\ \A q \in Processes : JobOK(chain, view, job[q]) /\ JobReady(view, job[q], clock)
    BY DEF WorkInv, JobsOK, Artefacts, ReadyInv
  <1>2. /\ job[p] = Idle /\ job' = [job EXCEPT ![p] = j]
        /\ clock' = IF w.kind \in {"confirm", "model"} THEN clock + 1 ELSE clock
        /\ UNCHANGED <<chain, view, wlock>>
    BY DEF Begin
  <1>3. w.kind = KindOf(chain, a) /\ w.at = clock + 1
    BY DEF Plan
  <1>4. w.kind = "export" => ExportPlan(w) /\ todo = ExportTodo
    BY <1>1, <1>3, PlanIsReady
  <1> HIDE DEF w, todo
  <1>5. JobReady(view, j, clock')
    <2>1. j.work = w /\ j.todo = todo
      OBVIOUS
    <2>2. w.kind = "confirm" => w.at <= clock'
      BY <1>1, <1>2, <1>3
    <2> HIDE DEF j
    <2> QED
      BY <1>4, <2>1, <2>2 DEF JobReady
  <1> HIDE DEF j
  <1>6. clock' \in {clock, clock + 1}
    BY <1>2
  <1>7. ASSUME NEW q \in Processes, q # p PROVE JobReady(view, job[q], clock')
    <2>1. JobOK(chain, view, job[q]) /\ JobReady(view, job[q], clock) /\ (wlock = q <=> UnderLock(job[q]))
      BY <1>1 DEF JobsOK
    <2>2. job[q] # Idle => job[q].work.at \in Nat
      BY <2>1 DEF JobOK, WorkOK
    <2> QED
      BY <1>1, <1>6, <2>1, <2>2 DEF JobReady
  <1>8. job'[p] = j /\ \A q \in Processes : q # p => job'[q] = job[q]
    BY <1>1, <1>2 DEF JobsOK
  <1>9. Recent(view, clock')
    BY <1>1, <1>6, RecentStill
  <1>10. \A q \in Processes : JobReady(view', job'[q], clock')
    BY <1>2, <1>5, <1>7, <1>8
  <1> QED
    BY <1>1, <1>2, <1>9, <1>10 DEF ReadyInv, Recent

LEMMA EnterReady ==
    ASSUME WorkInv, ReadyInv, NEW p \in Processes, Enter(p)
    PROVE  ReadyInv'
  <1> DEFINE j == job[p]
             k == [j EXCEPT !.at = "write"]
  <1>1. /\ JobsOK /\ Sourced(chain, view) /\ Recent(view, clock)
        /\ \A q \in Processes : JobReady(view, job[q], clock)
    BY DEF WorkInv, ReadyInv
  <1>2. /\ j.at = "plan"
        /\ job' = [job EXCEPT ![p].at = "write"] \/ job' = [job EXCEPT ![p] = Idle]
        /\ UNCHANGED <<chain, view, clock>>
    BY DEF Enter
  <1>3. JobOK(chain, view, j) /\ DOMAIN job = Processes /\ j # Idle /\ JobReady(view, j, clock)
    BY <1>1, <1>2, IdleIs DEF JobsOK
  <1>4. JobReady(view, k, clock)
    <2>1. k.work = j.work /\ k.todo = j.todo
      BY <1>3 DEF JobOK
    <2>2. j.work.kind = "export" => j.todo = ExportTodo
      BY <1>2, <1>3 DEF JobReady
    <2> HIDE DEF k
    <2> QED
      BY <1>3, <2>1, <2>2 DEF JobReady
  <1>5. job'[p] \in {k, Idle} /\ \A q \in Processes : q # p => job'[q] = job[q]
    BY <1>2, <1>3
  <1> HIDE DEF k, j
  <1>6. \A q \in Processes : JobReady(view', job'[q], clock')
    BY <1>1, <1>2, <1>4, <1>5, IdleIsReady
  <1> QED
    BY <1>1, <1>2, <1>6 DEF ReadyInv, Recent

LEMMA LookReady ==
    ASSUME WorkInv, ReadyInv, NEW p \in Processes, Look(p)
    PROVE  ReadyInv'
  <1> DEFINE j == job[p]
             skip == Skip(chain, view, j.work, Head(j.todo))
             k == [j EXCEPT !.at = "append", !.skip = skip]
  <1>1. /\ JobsOK /\ Sourced(chain, view) /\ Recent(view, clock)
        /\ \A q \in Processes : JobReady(view, job[q], clock)
    BY DEF WorkInv, ReadyInv
  <1>2. /\ j.at = "write" /\ j.work.kind \in {"model", "derive"}
        /\ job' = [job EXCEPT ![p].at = "append", ![p].skip = skip]
        /\ UNCHANGED <<chain, view, clock>>
    BY DEF Look, LooksFirst
  <1> HIDE DEF skip
  <1>3. JobOK(chain, view, j) /\ DOMAIN job = Processes /\ j # Idle
    BY <1>1, <1>2, IdleIs DEF JobsOK
  <1>4. k.work = j.work
    BY <1>3 DEF JobOK
  <1>5. job'[p] = k /\ \A q \in Processes : q # p => job'[q] = job[q]
    BY <1>2, <1>3
  <1> HIDE DEF k, j
  <1>6. JobReady(view, k, clock)
    BY <1>2, <1>4 DEF JobReady
  <1>7. \A q \in Processes : JobReady(view', job'[q], clock')
    BY <1>1, <1>2, <1>5, <1>6
  <1> QED
    BY <1>1, <1>2, <1>7 DEF ReadyInv, Recent

LEMMA StopReady ==
    ASSUME WorkInv, ReadyInv, NEW p \in Processes, Stop(p)
    PROVE  ReadyInv'
  <1>1. /\ JobsOK /\ Sourced(chain, view) /\ Recent(view, clock)
        /\ \A q \in Processes : JobReady(view, job[q], clock)
    BY DEF WorkInv, ReadyInv
  <1>2. job' = [job EXCEPT ![p] = Idle] /\ UNCHANGED <<chain, view, clock>>
    BY DEF Stop
  <1>3. job'[p] = Idle /\ \A q \in Processes : q # p => job'[q] = job[q]
    BY <1>1, <1>2 DEF JobsOK
  <1>4. \A q \in Processes : JobReady(view', job'[q], clock')
    BY <1>1, <1>2, <1>3, IdleIsReady
  <1> QED
    BY <1>1, <1>2, <1>4 DEF ReadyInv, Recent

(* What is done while nobody holds the workspace lock.                     *)
LEMMA AsideReady ==
    ASSUME WorkInv, ReadyInv, wlock = None, chain' = chain, Sourced(chain, view'),
           view'.accepts = view.accepts, UNCHANGED <<job, clock>>
    PROVE  ReadyInv'
  <1>1. /\ Sound(chain, view) /\ JobsOK /\ clock \in Nat /\ Recent(view, clock) /\ None \notin Processes
        /\ \A q \in Processes : JobReady(view, job[q], clock)
    BY WorkflowAssumption DEF WorkInv, ReadyInv
  <1>2. ASSUME NEW q \in Processes PROVE JobReady(view', job[q], clock)
    <2>1. JobOK(chain, view, job[q]) /\ ~UnderLock(job[q]) /\ JobReady(view, job[q], clock)
      BY <1>1 DEF JobsOK
    <2> QED
      BY <1>1, <2>1, JobReadyStill
  <1> QED
    BY <1>1, <1>2 DEF ReadyInv, Recent

LEMMA ActReady ==
    ASSUME WorkInv, ReadyInv, NEW a \in Artefacts, NEW verdict, NEW undo_of, Act(a, verdict, undo_of),
           \/ verdict = "WITHDRAW"
           \/ verdict = "UNDO" /\ view.facts[a].withdrawal # 0 /\ undo_of = view.facts[a].withdrawal
    PROVE  ReadyInv'
  <1> DEFINE d == [verdict |-> verdict, subject |-> view.facts[a].sha, refs |-> << >>,
                   undo_of |-> undo_of, at |-> clock]
  <1>1. ChainIsBound(chain) /\ Sound(chain, view) /\ Sourced(chain, view) /\ a \in DOMAIN chain.kind
    BY DEF WorkInv, ReadyInv, Artefacts
  <1>2. /\ wlock = None /\ view' = DecisionRecorded(chain, view, a, d)
        /\ UNCHANGED <<chain, job, clock>>
    BY DEF Act
  <1>3. d.verdict = verdict /\ d.undo_of = undo_of
    OBVIOUS
  <1> HIDE DEF d
  <1>4. Sourced(chain, view') /\ view'.accepts = view.accepts
    BY <1>1, <1>2, <1>3, DrawnSources
  <1> QED
    BY <1>2, <1>4, AsideReady

LEMMA DeliverReady == ASSUME WorkInv, ReadyInv, NEW s \in Texts, Deliver(s) PROVE ReadyInv'
  <1>1. ChainIsBound(chain) /\ Sound(chain, view) /\ Sourced(chain, view)
    BY DEF WorkInv, ReadyInv
  <1>2. wlock = None /\ view' = Observed(view, "source", s) /\ UNCHANGED <<chain, job, clock>>
    BY DEF Deliver
  <1>3. Sourced(chain, view') /\ view'.accepts = view.accepts
    BY <1>1, <1>2, ObservedSources
  <1> QED
    BY <1>2, <1>3, AsideReady

LEMMA RefreshReady == ASSUME WorkInv, ReadyInv, Refresh PROVE ReadyInv'
  <1>1. ChainIsBound(chain) /\ Sound(chain, view) /\ Sourced(chain, view)
    BY DEF WorkInv, ReadyInv
  <1>2. wlock = None /\ view' = Observed(view, "metadata.input", file) /\ UNCHANGED <<chain, job, clock>>
    BY DEF Refresh
  <1>3. Sourced(chain, view') /\ view'.accepts = view.accepts
    BY <1>1, <1>2, ObservedSources
  <1> QED
    BY <1>2, <1>3, AsideReady

LEMMA ExportIsAt ==
    ASSUME NEW todo \in {ExportTodo, <<"anchor", "receipt", "publish">>, <<"receipt", "publish">>, <<"publish">>}
    PROVE  \/ /\ todo = ExportTodo /\ Head(todo) = "produced"
              /\ Tail(todo) = <<"anchor", "receipt", "publish">>
           \/ /\ todo # ExportTodo /\ Head(todo) = "anchor"
              /\ Tail(todo) = <<"receipt", "publish">>
           \/ /\ todo # ExportTodo /\ Head(todo) = "receipt"
              /\ Tail(todo) = <<"publish">>
           \/ todo # ExportTodo /\ Head(todo) = "publish" /\ Tail(todo) = << >>
  <1>1. CASE todo = ExportTodo
    BY <1>1 DEF ExportTodo
  <1>2. CASE todo = <<"anchor", "receipt", "publish">>
    BY <1>2 DEF ExportTodo
  <1>3. CASE todo = <<"receipt", "publish">>
    BY <1>3 DEF ExportTodo
  <1>4. CASE todo = <<"publish">>
    BY <1>4 DEF ExportTodo
  <1> QED
    BY <1>1, <1>2, <1>3, <1>4

LEMMA WriteReady ==
    ASSUME WorkInv, ReadyInv, NEW p \in Processes, Write(p)
    PROVE  ReadyInv'
  <1> DEFINE j == job[p]
             w == j.work
             event == Head(j.todo)
             rest == Tail(j.todo)
             skip == IF LooksFirst(p) THEN j.skip ELSE Skip(chain, view, w, event)
             k == [j EXCEPT !.at = "write", !.todo = rest, !.skip = FALSE]
  <1>1. /\ ChainIsBound(chain) /\ Sound(chain, view) /\ JobsOK /\ clock \in Nat /\ None \notin Processes
        /\ Sourced(chain, view) /\ Recent(view, clock)
        /\ \A q \in Processes : JobReady(view, job[q], clock)
    BY WorkflowAssumption DEF WorkInv, ReadyInv
  <1>2. /\ j.at \in {"write", "append"} /\ Reaches(p, event)
        /\ view' = IF skip THEN view ELSE Applied(chain, view, w, event)
        /\ job' = [job EXCEPT ![p] = IF rest = << >> THEN Idle ELSE k]
        /\ UNCHANGED <<chain, clock>>
    BY DEF Write
  <1>3. JobOK(chain, view, j) /\ DOMAIN job = Processes /\ j # Idle /\ (wlock = p <=> UnderLock(j))
        /\ JobReady(view, j, clock)
    BY <1>1, <1>2, IdleIs DEF JobsOK
  <1>4. /\ WorkOK(chain, w) /\ w.kind \in WorkKinds /\ Ahead(w, j.todo) /\ MayWrite(w, event)
        /\ j.at = "append" => w.kind \in {"model", "derive"}
        /\ UnderLock(j) => Checked(chain, view, w, j.todo)
        /\ DOMAIN j = {"at", "work", "todo", "seen", "skip"}
    BY <1>1, <1>3, KindIs, AheadIs DEF JobOK
  <1>5. w.kind = "confirm" => event # "receipt" /\ w.at <= clock
    <2> SUFFICES ASSUME w.kind = "confirm" PROVE event # "receipt" /\ w.at <= clock
      OBVIOUS
    <2>1. j.todo \in {ConfirmTodo, <<"decision", "anchor">>, <<"anchor">>}
      BY <1>4 DEF Ahead
    <2>2. event \in {"produced", "decision", "anchor"}
      BY <2>1 DEF ConfirmTodo
    <2> QED
      BY <1>3, <2>2 DEF JobReady
  <1>6. w.kind = "export" => UnderLock(j) /\ ExportMay(chain, view, w, event)
    <2> SUFFICES ASSUME w.kind = "export" PROVE UnderLock(j) /\ ExportMay(chain, view, w, event)
      OBVIOUS
    <2>1. UnderLock(j)
      BY <1>2, <1>3, <1>4 DEF UnderLock, Holds
    <2>2. Checked(chain, view, w, j.todo)
      BY <1>4, <2>1
    <2>3. event = "receipt" => j.todo # ExportTodo
      BY DEF ExportTodo
    <2>4. ExportPlan(w) /\ (j.todo # ExportTodo => view.facts[w.artifact].sha = w.sha)
      BY <1>3, <2>1 DEF JobReady
    <2> HIDE DEF j, w, event
    <2> QED
      BY <2>1, <2>2, <2>3, <2>4 DEF ExportMay, Checked
  <1>7. Sourced(chain, view') /\ Recent(view', clock)
    <2>1. CASE skip
      BY <1>1, <1>2, <2>1 DEF Recent
    <2>2. CASE ~skip
      <3>1. view' = Applied(chain, view, w, event)
        BY <1>2, <2>2
      <3> HIDE DEF j, w, event, skip
      <3> QED
        BY <1>1, <1>4, <1>5, <1>6, <3>1, AppliedSources
    <2> QED
      BY <2>1, <2>2
  <1>8. ASSUME NEW q \in Processes, q # p PROVE JobReady(view', job[q], clock)
    <2>1. JobOK(chain, view, job[q]) /\ (wlock = q <=> UnderLock(job[q])) /\ JobReady(view, job[q], clock)
      BY <1>1 DEF JobsOK
    <2>2. ~UnderLock(job[q]) \/ job[q].work.kind # "export"
      <3> SUFFICES ASSUME UnderLock(job[q]) PROVE job[q].work.kind # "export"
        OBVIOUS
      <3>1. wlock = q /\ wlock # p /\ wlock # None
        BY <1>1, <1>8, <2>1
      <3> QED
        BY <1>2, <3>1 DEF Reaches, Transaction
    <2> QED
      BY <1>1, <2>1, <2>2, JobReadyStill
  <1>9. rest # << >> => JobReady(view', k, clock)
    <2> SUFFICES ASSUME rest # << >> PROVE JobReady(view', k, clock)
      OBVIOUS
    <2>1. k.work = w /\ k.todo = rest /\ k.at = "write"
      BY <1>4
    <2>2. w.kind = "confirm" => w.at <= clock
      BY <1>5
    <2>3. ASSUME w.kind = "export"
          PROVE  /\ ExportPlan(w) /\ view'.facts[w.artifact].sha = w.sha
                 /\ rest \in {<<"anchor", "receipt", "publish">>, <<"receipt", "publish">>, <<"publish">>}
      <3>1. /\ j.todo \in {ExportTodo, <<"anchor", "receipt", "publish">>, <<"receipt", "publish">>, <<"publish">>}
            /\ ExportPlan(w) /\ (j.todo # ExportTodo => view.facts[w.artifact].sha = w.sha)
        BY <1>3, <1>6, <2>3 DEF JobReady
      <3>2. /\ event \in {"produced", "anchor", "receipt"}
            /\ event # "produced" => view.facts[w.artifact].sha = w.sha
            /\ rest \in {<<"anchor", "receipt", "publish">>, <<"receipt", "publish">>, <<"publish">>}
        BY <3>1, ExportIsAt
      <3>3. (view' = view /\ Skip(chain, view, w, event)) \/ view' = Applied(chain, view, w, event)
        BY <1>2, <2>3 DEF LooksFirst
      <3>4. view'.facts[w.artifact].sha = w.sha
        <4> HIDE DEF j, w, event, rest, skip
        <4> QED
          BY <1>1, <1>4, <2>3, <3>2, <3>3, ExportGoesOn
      <3> QED
        BY <3>1, <3>2, <3>4
    <2> HIDE DEF k, j, w, rest
    <2> QED
      BY <2>1, <2>2, <2>3 DEF JobReady
  <1>10. job'[p] = (IF rest = << >> THEN Idle ELSE k) /\ \A q \in Processes : q # p => job'[q] = job[q]
    BY <1>2, <1>3
  <1> HIDE DEF k, j, w, rest, event, skip
  <1>11. \A q \in Processes : JobReady(view', job'[q], clock')
    BY <1>2, <1>8, <1>9, <1>10, IdleIsReady
  <1> QED
    BY <1>2, <1>7, <1>11 DEF ReadyInv, Recent

LEMMA StepReady == WorkInv /\ ReadyInv /\ [Next]_vars => ReadyInv'
  <1> SUFFICES ASSUME WorkInv, ReadyInv, [Next]_vars PROVE ReadyInv'
    OBVIOUS
  <1>1. CASE \E p \in Processes : Enter(p) \/ Look(p) \/ Write(p) \/ Stop(p)
    BY <1>1, EnterReady, LookReady, WriteReady, StopReady
  <1>2. CASE \E p \in Processes, a \in Artefacts : Begin(p, a)
    BY <1>2, BeginReady
  <1>3. CASE \E a \in Artefacts : Withdraw(a) \/ Undo(a)
    BY <1>3, ActReady DEF Withdraw, Undo
  <1>4. CASE \E s \in Texts : Deliver(s)
    BY <1>4, DeliverReady
  <1>5. CASE \E m \in MetadataInputs \cup {None} : EditFile(m)
    BY <1>5 DEF EditFile, ReadyInv, Recent
  <1>6. CASE Refresh
    BY <1>6, RefreshReady
  <1>7. CASE UNCHANGED vars
    BY <1>7 DEF vars, ReadyInv, Recent
  <1> QED
    BY <1>1, <1>2, <1>3, <1>4, <1>5, <1>6, <1>7 DEF Next

-----------------------------------------------------------------------------
(* In every chain and after everything the commands did to the record,     *)
(* broken off, interleaved or repeated, a step that has its inputs and is  *)
(* not Excused can be planned, and its command done alone makes its        *)
(* artifact usable: receipt_duplicate and decision_duplicate (gate.py)     *)
(* never swallow what is still needed, and the freshness of what is        *)
(* written is not overtaken by what was there.                             *)
THEOREM NoStepIsStuck ==
    ASSUME \A a, inputs, by : Content(a, inputs, by) # None
    PROVE  Spec => []NoDeadEnd
  <1>1. WorkInv /\ ReadyInv => NoDeadEnd
    BY NeverStuck DEF ReadyInv, Recent
  <1> QED
    BY <1>1, StartsSound, StepKeeps, StartsReady, StepReady, PTL DEF Spec

=============================================================================
