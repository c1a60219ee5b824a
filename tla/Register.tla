------------------------------ MODULE Register ------------------------------
(***************************************************************************)
(* domain/stable_pseudonymisation.py: the corpus-wide register of who has  *)
(* which number, the resolution that says whom every mention names, and    *)
(* the final text with its report of what was replaced where.              *)
(***************************************************************************)
EXTENDS Spans

(* empty: nobody is registered, no number is given, no surface is known.   *)
EmptyRegister == [entities |-> << >>, counters |-> << >>, aliases |-> << >>]

(* Who stands in the text without a number has 0. *)
Entity(type, number) == [type |-> type, number |-> number]

NumbersOf(reg, type) == {reg.entities[e].number : e \in {x \in DOMAIN reg.entities : reg.entities[x].type = type}} \ {0}

(* validate_registry *)
ValidRegister(reg) ==
    LET entities == DOMAIN reg.entities
        numbered == {e \in entities : reg.entities[e].number # 0}
    IN  /\ \A d, e \in numbered : reg.entities[d] = reg.entities[e] => d = e
        /\ DOMAIN reg.counters = {reg.entities[e].type : e \in numbered}
        /\ \A type \in DOMAIN reg.counters : reg.counters[type] = Max(NumbersOf(reg, type)) + 1
        /\ \A token \in DOMAIN reg.aliases : reg.aliases[token] # {} /\ reg.aliases[token] \subseteq entities

(* token: the digest of type and folded surface, equal when these are. *)
Token(text, m) ==
    LET surface == Slice(text[m.cue], m.start, m.end)
    IN  <<m.type, [i \in DOMAIN surface |-> Fold[surface[i]]]>>

Aliases(reg, token) == IF token \in DOMAIN reg.aliases THEN reg.aliases[token] ELSE {}

(* Work.candidates: whom the surfaces of a group were taken for before. *)
Candidates(text, reg, g) == UNION {Aliases(reg, Token(text, m)) : m \in g.mentions}

(* Work.choose: a group is somebody of the register of its type, or new. *)
Choosable(reg, g) == {e \in DOMAIN reg.entities : reg.entities[e].type = g.type}

Assignment(entity, type, action, intent) ==
    [entity |-> entity, type |-> type, action |-> action, intent |-> intent]

(* validate_resolution *)
ValidResolution(text, policy, c, assigned, reg) ==
    /\ Valid(text, policy, c)
    /\ OpenGroups(c) = {}
    /\ DOMAIN assigned = c.spans
    /\ \A m \in c.spans :
          LET a == assigned[m]
          IN  /\ a.type = m.type /\ a.action = policy[m.type]
              /\ IF a.entity \in DOMAIN reg.entities THEN reg.entities[a.entity].type = m.type
                 ELSE a.intent = "new"
              /\ \A n \in c.spans : assigned[n].entity = a.entity =>
                    assigned[n].type = a.type /\ assigned[n].action = a.action

Planned(assigned) == {[entity |-> a.entity, type |-> a.type, action |-> a.action] : a \in {assigned[m] : m \in DOMAIN assigned}}

(* d[key] = value *)
Put(d, key, value) == [k \in DOMAIN d \cup {key} |-> IF k = key THEN value ELSE d[k]]

Counter(reg, type) == IF type \in DOMAIN reg.counters THEN reg.counters[type] ELSE 1

\* Mutant: the counter is not moved on
EnrolledUncounted(reg, p) ==
    IF p.entity \in DOMAIN reg.entities THEN reg
    ELSE IF p.action # "pseudonym"
         THEN [reg EXCEPT !.entities = Put(@, p.entity, Entity(p.type, 0))]
         ELSE [reg EXCEPT !.entities = Put(@, p.entity, Entity(p.type, Counter(reg, p.type))),
                          !.counters = Put(@, p.type, Counter(reg, p.type))]

(* allocate: one entity; only a pseudonym takes a number. *)
Enrolled(reg, p) ==
    IF p.entity \in DOMAIN reg.entities THEN reg
    ELSE IF p.action # "pseudonym"
         THEN [reg EXCEPT !.entities = Put(@, p.entity, Entity(p.type, 0))]
         ELSE [reg EXCEPT !.entities = Put(@, p.entity, Entity(p.type, Counter(reg, p.type))),
                          !.counters = Put(@, p.type, Counter(reg, p.type) + 1)]

(* allocate: all that are planned, in the order of their ids. *)
AllEnrolled(reg, planned) ==
    LET last == Max({p.entity : p \in planned} \cup {0})
        upTo[id \in 0..last] ==
            IF id = 0 THEN reg
            ELSE IF \E p \in planned : p.entity = id
                 THEN Enrolled(upTo[id - 1], CHOOSE p \in planned : p.entity = id)
                 ELSE upTo[id - 1]
    IN  upTo[last]

\* Mutant: a surface is taken for one entity only
LearntAnew(text, reg, assigned) ==
    LET tokens == {Token(text, m) : m \in DOMAIN assigned}
    IN  [reg EXCEPT !.aliases =
            [t \in tokens |-> {assigned[m].entity : m \in {x \in DOMAIN assigned : Token(text, x) = t}}] @@ @]

(* allocate: every surface is known for its entity as well from now on. *)
Learnt(text, reg, assigned) ==
    LET tokens == {Token(text, m) : m \in DOMAIN assigned}
    IN  [reg EXCEPT !.aliases =
            [t \in tokens \cup DOMAIN @ |->
                Aliases(reg, t) \cup {assigned[m].entity : m \in {x \in DOMAIN assigned : Token(text, x) = t}}]]

(* allocate: who is registered keeps what he has, and it must fit the      *)
(* policy's action.  (The record's reference to its resolution is kept in  *)
(* the register as well, see Finalisation.)                                *)
Fits(reg, assigned) ==
    \A p \in Planned(assigned) :
        p.entity \in DOMAIN reg.entities => (reg.entities[p.entity].number # 0 <=> p.action = "pseudonym")

Allocated(text, reg, assigned) == Learnt(text, AllEnrolled(reg, Planned(assigned)), assigned)

MayAllocate(text, policy, c, assigned, reg) ==
    /\ ValidRegister(reg) /\ ValidResolution(text, policy, c, assigned, reg) /\ Fits(reg, assigned)
    /\ ValidRegister(Allocated(text, reg, assigned))

-----------------------------------------------------------------------------
\* Mutant: the position in the result does not count what stays in between
RenderedMark(text, reg, assigned, at, m) ==
    LET a == assigned[m]
        prefix == Slice(text[m.cue], at.cursor, m.start)
        value == Replacement(text, a.action, m, Label(m.type, reg.entities[a.entity].number))
        from == IF at.entries = {} THEN Len(at.out) + Len(prefix) ELSE Len(at.out)
    IN  [out |-> at.out \o prefix \o value, cursor |-> m.end,
         entries |-> at.entries \cup {[mark |-> m, from |-> from, to |-> from + Len(value), action |-> a.action]}]

(* render, one mark: from left to right, with a cursor in the source. *)
Rendered(text, reg, assigned, at, m) ==
    LET a == assigned[m]
        prefix == Slice(text[m.cue], at.cursor, m.start)
        value == Replacement(text, a.action, m, Label(m.type, reg.entities[a.entity].number))
        from == Len(at.out) + Len(prefix)
    IN  [out |-> at.out \o prefix \o value, cursor |-> m.end,
         entries |-> at.entries \cup {[mark |-> m, from |-> from, to |-> from + Len(value), action |-> a.action]}]

(* render: the final text and, in the report, an entry for every mark. *)
Final(text, reg, assigned) ==
    LET done == [cue \in DOMAIN text |->
            FoldLeft(LAMBDA at, m : Rendered(text, reg, assigned, at, m),
                     [out |-> << >>, cursor |-> 0, entries |-> {}], ForCue(DOMAIN assigned, cue))]
    IN  [text |-> [cue \in DOMAIN text |-> done[cue].out \o Slice(text[cue], done[cue].cursor, Len(text[cue]))],
         entries |-> UNION {done[cue].entries : cue \in DOMAIN text}]
=============================================================================
