------------------------ MODULE PseudonymisationProofs ------------------------
(***************************************************************************)
(* Proofs about the acts of a human on one record after the other: what is *)
(* settled stays as a human settled it, the register, which grows with     *)
(* every record, serves the next one, what the report of a final text says *)
(* is so, and so is what the model is found to have suggested; for every   *)
(* text, every policy, every block size, every number of records and of    *)
(* edits.                                                                  *)
(***************************************************************************)
EXTENDS Pseudonymisation, FiniteSetTheorems, SequenceTheorems, WellFoundedInduction, TLAPS

-----------------------------------------------------------------------------
(* Numbers: a set of them has a least, a bounded one a greatest.           *)

LEMMA LeastExists ==
    ASSUME NEW S \in SUBSET Nat, S # {}
    PROVE  \E m \in S : \A x \in S : m <= x
  <1>1. PICK m \in S : \A x \in S : <<x, m>> \notin OpToRel(<, Nat)
    BY WFMin, NatLessThanWellFounded, Zenon
  <1>2. \A x \in S : ~(x < m)
    BY <1>1, Zenon DEF OpToRel
  <1> QED
    BY <1>2

LEMMA UpTo ==
    ASSUME NEW N \in Nat, NEW S, 0 \in S, \A n \in 0..(N - 1) : n \in S => n + 1 \in S
    PROVE  0..N \subseteq S
  <1> SUFFICES ASSUME (0..N) \ S # {} PROVE FALSE
    OBVIOUS
  <1>1. PICK m \in (0..N) \ S : \A x \in (0..N) \ S : m <= x
    BY LeastExists, (0..N) \ S \subseteq Nat, Zenon
  <1>2. m # 0 /\ m - 1 \in 0..(N - 1)
    BY <1>1
  <1>3. m - 1 \in S
    BY <1>1, <1>2
  <1>4. (m - 1) + 1 \in S
    BY <1>2, <1>3
  <1> QED
    BY <1>1, <1>4

LEMMA MaxIsGreatest ==
    ASSUME NEW K \in Nat, NEW S \in SUBSET (0..K), S # {}
    PROVE  Max(S) \in S /\ \A x \in S : Max(S) >= x
  <1> DEFINE D == {d \in 0..K : K - d \in S}
  <1>1. D \in SUBSET Nat /\ D # {}
    <2>1. PICK x \in S : TRUE
      OBVIOUS
    <2>2. x \in 0..K
      BY <2>1
    <2>3. K - x \in 0..K /\ K - (K - x) = x
      BY <2>2
    <2>4. K - x \in D
      BY <2>1, <2>3
    <2>5. D \subseteq Nat
      OBVIOUS
    <2> HIDE DEF D
    <2> QED
      BY <2>4, <2>5
  <1>2. PICK d \in D : \A x \in D : d <= x
    BY <1>1, LeastExists
  <1>3. \A x \in S : K - d >= x
    <2> TAKE x \in S
    <2>1. K - x \in 0..K /\ K - (K - x) = x /\ x \in 0..K
      OBVIOUS
    <2>2. d <= K - x
      BY <1>2, <2>1
    <2> QED
      BY <2>1, <2>2, <1>2
  <1>4. K - d \in S
    BY <1>2
  <1> QED
    BY <1>3, <1>4 DEF Max

-----------------------------------------------------------------------------
(* The register: every number is given once, and the counter of a type is  *)
(* one more than the last number given.                                    *)

IsRegister(reg) == reg = [entities |-> reg.entities, counters |-> reg.counters, aliases |-> reg.aliases]

NumbersStand(reg) ==
    /\ \A e \in DOMAIN reg.entities : reg.entities[e].number \in Nat
    /\ \A d, e \in DOMAIN reg.entities :
          /\ reg.entities[d].number # 0 /\ reg.entities[d].number = reg.entities[e].number
          /\ reg.entities[d].type = reg.entities[e].type
          => d = e
    /\ \A e \in DOMAIN reg.entities :
          reg.entities[e].number # 0 =>
             /\ reg.entities[e].type \in DOMAIN reg.counters
             /\ reg.entities[e].number < reg.counters[reg.entities[e].type]
    /\ \A type \in DOMAIN reg.counters :
          /\ reg.counters[type] \in Nat
          /\ \E e \in DOMAIN reg.entities : /\ reg.entities[e].type = type
                                            /\ reg.entities[e].number = reg.counters[type] - 1
                                            /\ reg.entities[e].number # 0

AliasesStand(reg) ==
    \A token \in DOMAIN reg.aliases : reg.aliases[token] # {} /\ reg.aliases[token] \subseteq DOMAIN reg.entities

LEMMA ValidWhenStands ==
    ASSUME NEW reg, NumbersStand(reg), AliasesStand(reg)
    PROVE  ValidRegister(reg)
  <1> DEFINE numbered == {e \in DOMAIN reg.entities : reg.entities[e].number # 0}
  <1>1. \A d, e \in numbered : reg.entities[d] = reg.entities[e] => d = e
    BY DEF NumbersStand
  <1>2. DOMAIN reg.counters = {reg.entities[e].type : e \in numbered}
    BY DEF NumbersStand
  <1>3. ASSUME NEW type \in DOMAIN reg.counters PROVE reg.counters[type] = Max(NumbersOf(reg, type)) + 1
    <2> DEFINE N == NumbersOf(reg, type)
    <2>1. reg.counters[type] \in Nat /\ reg.counters[type] - 1 \in N
      BY <1>3 DEF NumbersStand, NumbersOf
    <2>2. \A x \in N : x \in Nat /\ x < reg.counters[type]
      BY <1>3 DEF NumbersStand, NumbersOf
    <2> HIDE DEF N
    <2>3. \A y \in N : reg.counters[type] - 1 >= y
      BY <2>1, <2>2
    <2>4. Max(N) \in N /\ \A y \in N : Max(N) >= y
      BY <2>1, <2>3, Zenon DEF Max
    <2>5. Max(N) = reg.counters[type] - 1
      BY <2>1, <2>2, <2>4
    <2> QED
      BY <2>1, <2>5 DEF N
  <1> QED
    BY <1>1, <1>2, <1>3 DEF ValidRegister, AliasesStand

(* allocate, one entity: whoever is enrolled, the numbers stand. *)
LEMMA EnrolledStands ==
    ASSUME NEW reg, IsRegister(reg), NumbersStand(reg), NEW p
    PROVE  /\ IsRegister(Enrolled(reg, p)) /\ NumbersStand(Enrolled(reg, p))
           /\ Enrolled(reg, p).aliases = reg.aliases
           /\ DOMAIN Enrolled(reg, p).entities = DOMAIN reg.entities \cup {p.entity}
  <1> DEFINE new == Enrolled(reg, p)
  <1>1. CASE p.entity \in DOMAIN reg.entities
    BY <1>1 DEF Enrolled
  <1>2. CASE p.entity \notin DOMAIN reg.entities /\ p.action # "pseudonym"
    <2>1. new = [entities |-> Put(reg.entities, p.entity, Entity(p.type, 0)),
                 counters |-> reg.counters, aliases |-> reg.aliases]
      BY <1>2 DEF Enrolled, IsRegister
    <2> HIDE DEF new
    <2>2. /\ DOMAIN new.entities = DOMAIN reg.entities \cup {p.entity}
          /\ new.entities[p.entity] = Entity(p.type, 0)
          /\ \A e \in DOMAIN reg.entities : new.entities[e] = reg.entities[e]
      <3>1. new.entities = Put(reg.entities, p.entity, Entity(p.type, 0))
        BY <2>1
      <3> QED
        BY <1>2, <3>1 DEF Put
    <2>3. new.counters = reg.counters /\ new.aliases = reg.aliases /\ IsRegister(new)
      BY <2>1 DEF IsRegister
    <2>4. NumbersStand(new)
      BY <2>2, <2>3 DEF NumbersStand, Entity
    <2> QED
      BY <2>2, <2>3, <2>4 DEF new
  <1>3. CASE p.entity \notin DOMAIN reg.entities /\ p.action = "pseudonym"
    <2> DEFINE n == Counter(reg, p.type)
    <2>1. new = [entities |-> Put(reg.entities, p.entity, Entity(p.type, n)),
                 counters |-> Put(reg.counters, p.type, n + 1), aliases |-> reg.aliases]
      BY <1>3 DEF Enrolled, IsRegister
    <2> HIDE DEF new
    <2>2. /\ DOMAIN new.entities = DOMAIN reg.entities \cup {p.entity}
          /\ new.entities[p.entity] = Entity(p.type, n)
          /\ \A e \in DOMAIN reg.entities : new.entities[e] = reg.entities[e]
      <3>1. new.entities = Put(reg.entities, p.entity, Entity(p.type, n))
        BY <2>1
      <3> QED
        BY <1>3, <3>1 DEF Put
    <2>3. /\ DOMAIN new.counters = DOMAIN reg.counters \cup {p.type}
          /\ new.counters[p.type] = n + 1
          /\ \A type \in DOMAIN reg.counters \ {p.type} : new.counters[type] = reg.counters[type]
      <3>1. new.counters = Put(reg.counters, p.type, n + 1)
        BY <2>1
      <3> QED
        BY <3>1 DEF Put
    <2>4. new.aliases = reg.aliases /\ IsRegister(new)
      BY <2>1 DEF IsRegister
    <2>5. n \in Nat /\ n # 0
      BY DEF NumbersStand, Counter
    <2>6. \A e \in DOMAIN reg.entities :
             reg.entities[e].number # 0 /\ reg.entities[e].type = p.type => reg.entities[e].number < n
      BY DEF NumbersStand, Counter
    <2> HIDE DEF n
    <2>7. new.entities[p.entity].number = n /\ new.entities[p.entity].type = p.type
      BY <2>2 DEF Entity
    <2>8. \A e \in DOMAIN new.entities : new.entities[e].number \in Nat
      BY <2>2, <2>5, <2>7 DEF NumbersStand
    <2>9. \A d, e \in DOMAIN new.entities :
             /\ new.entities[d].number # 0 /\ new.entities[d].number = new.entities[e].number
             /\ new.entities[d].type = new.entities[e].type
             => d = e
      BY <2>2, <2>5, <2>6, <2>7 DEF NumbersStand
    <2>10. \A e \in DOMAIN new.entities :
              new.entities[e].number # 0 =>
                 /\ new.entities[e].type \in DOMAIN new.counters
                 /\ new.entities[e].number < new.counters[new.entities[e].type]
      <3> SUFFICES ASSUME NEW e \in DOMAIN new.entities, new.entities[e].number # 0
                   PROVE  /\ new.entities[e].type \in DOMAIN new.counters
                          /\ new.entities[e].number < new.counters[new.entities[e].type]
        OBVIOUS
      <3>1. CASE e = p.entity
        BY <3>1, <2>3, <2>5, <2>7
      <3>2. CASE e # p.entity /\ new.entities[e].type = p.type
        <4>1. e \in DOMAIN reg.entities /\ new.entities[e] = reg.entities[e] /\ reg.entities[e].number \in Nat
          BY <3>2, <2>2 DEF NumbersStand
        <4> QED
          BY <3>2, <4>1, <2>3, <2>5, <2>6
      <3>3. CASE e # p.entity /\ new.entities[e].type # p.type
        <4>1. e \in DOMAIN reg.entities /\ new.entities[e] = reg.entities[e]
          BY <3>3, <2>2
        <4> QED
          BY <3>3, <4>1, <2>3 DEF NumbersStand
      <3> QED
        BY <3>1, <3>2, <3>3
    <2>11. ASSUME NEW type \in DOMAIN new.counters
           PROVE  /\ new.counters[type] \in Nat
                  /\ \E e \in DOMAIN new.entities : /\ new.entities[e].type = type
                                                    /\ new.entities[e].number = new.counters[type] - 1
                                                    /\ new.entities[e].number # 0
      <3>1. CASE type = p.type
        <4>1. p.entity \in DOMAIN new.entities /\ new.counters[type] - 1 = n /\ new.counters[type] \in Nat
          BY <3>1, <2>2, <2>3, <2>5
        <4> QED
          BY <3>1, <4>1, <2>5, <2>7
      <3>2. CASE type # p.type
        <4>1. type \in DOMAIN reg.counters /\ new.counters[type] = reg.counters[type]
          BY <3>2, <2>11, <2>3
        <4>2. PICK e \in DOMAIN reg.entities : /\ reg.entities[e].type = type
                                               /\ reg.entities[e].number = reg.counters[type] - 1
                                               /\ reg.entities[e].number # 0
          BY <4>1 DEF NumbersStand
        <4>3. reg.counters[type] \in Nat
          BY <4>1 DEF NumbersStand
        <4> QED
          BY <4>1, <4>2, <4>3, <2>2
      <3> QED
        BY <3>1, <3>2
    <2>12. NumbersStand(new)
      BY <2>8, <2>9, <2>10, <2>11 DEF NumbersStand
    <2> QED
      BY <2>2, <2>4, <2>12 DEF new
  <1> QED
    BY <1>1, <1>2, <1>3
(* allocate, all that are planned: the walk over the ids is defined, and   *)
(* ends with everybody enrolled.                                           *)
StepTo(reg, planned, id) ==
    IF \E p \in planned : p.entity = id THEN Enrolled(reg, CHOOSE p \in planned : p.entity = id) ELSE reg

Steps(f, N, reg, planned) ==
    /\ DOMAIN f = 0..N /\ f[0] = reg
    /\ \A n \in 1..N : f[n] = StepTo(f[n - 1], planned, n)

LEMMA StepsTo ==
    ASSUME NEW N \in Nat, NEW reg, NEW planned
    PROVE  \E f : Steps(f, N, reg, planned)
  <1> DEFINE Upto(k) == \E f : /\ DOMAIN f = 0..k /\ f[0] = reg
                               /\ \A n \in 1..k : f[n] = StepTo(f[n - 1], planned, n)
             S == {k \in 0..N : Upto(k)}
  <1>1. 0 \in S
    <2> DEFINE f == [n \in 0..0 |-> reg]
    <2>1. DOMAIN f = 0..0 /\ f[0] = reg /\ \A n \in 1..0 : f[n] = StepTo(f[n - 1], planned, n)
      OBVIOUS
    <2> HIDE DEF f
    <2>2. Upto(0)
      BY <2>1
    <2> QED
      BY <2>2
  <1>2. ASSUME NEW k \in 0..(N - 1), k \in S PROVE k + 1 \in S
    <2>1. PICK f : /\ DOMAIN f = 0..k /\ f[0] = reg
                   /\ \A n \in 1..k : f[n] = StepTo(f[n - 1], planned, n)
      BY <1>2
    <2> DEFINE g == [n \in 0..(k + 1) |-> IF n = k + 1 THEN StepTo(f[k], planned, k + 1) ELSE f[n]]
    <2>2. DOMAIN g = 0..(k + 1) /\ g[0] = reg
      BY <2>1
    <2>3. ASSUME NEW n \in 1..(k + 1) PROVE g[n] = StepTo(g[n - 1], planned, n)
      <3>1. CASE n \in 1..k
        <4>1. g[n] = f[n] /\ g[n - 1] = f[n - 1]
          BY <3>1
        <4> QED
          BY <3>1, <4>1, <2>1
      <3>2. CASE n = k + 1
        <4>1. g[n] = StepTo(f[k], planned, n) /\ g[n - 1] = f[k]
          BY <3>2
        <4> QED
          BY <4>1
      <3> QED
        BY <3>1, <3>2
    <2> HIDE DEF g
    <2>4. Upto(k + 1)
      BY <2>2, <2>3
    <2>5. k + 1 \in 0..N
      OBVIOUS
    <2> QED
      BY <2>4, <2>5
  <1> HIDE DEF S
  <1>3. N \in S
    BY <1>1, <1>2, UpTo
  <1> QED
    BY <1>3 DEF S, Steps

LEMMA AllEnrolledStands ==
    ASSUME NEW reg, IsRegister(reg), NumbersStand(reg),
           NEW K \in Nat, NEW planned, \A p \in planned : p.entity \in 1..K
    PROVE  /\ IsRegister(AllEnrolled(reg, planned)) /\ NumbersStand(AllEnrolled(reg, planned))
           /\ AllEnrolled(reg, planned).aliases = reg.aliases
           /\ DOMAIN AllEnrolled(reg, planned).entities = DOMAIN reg.entities \cup {p.entity : p \in planned}
  <1> DEFINE last == Max({p.entity : p \in planned} \cup {0})
             Wanted(f) == [id \in 0..last |->
                IF id = 0 THEN reg
                ELSE IF \E p \in planned : p.entity = id
                     THEN Enrolled(f[id - 1], CHOOSE p \in planned : p.entity = id)
                     ELSE f[id - 1]]
             upTo == CHOOSE f : f = Wanted(f)
  <1>1. last \in Nat /\ \A p \in planned : p.entity \in 1..last
    <2> DEFINE ids == {p.entity : p \in planned} \cup {0}
    <2>1. ids \in SUBSET (0..K) /\ ids # {}
      OBVIOUS
    <2>2. \A p \in planned : p.entity \in ids /\ p.entity \in 1..K
      OBVIOUS
    <2> HIDE DEF ids
    <2>3. Max(ids) \in ids /\ \A x \in ids : Max(ids) >= x
      BY <2>1, MaxIsGreatest
    <2>4. Max(ids) \in Nat
      <3>1. Max(ids) \in 0..K
        BY <2>1, <2>3, Zenon
      <3> QED
        BY <3>1
    <2>5. ASSUME NEW p \in planned PROVE p.entity \in 1..Max(ids)
      <3>1. Max(ids) >= p.entity /\ p.entity \in 1..K
        BY <2>2, <2>3
      <3> QED
        BY <2>4, <3>1
    <2> QED
      BY <2>4, <2>5 DEF ids
  <1>2. AllEnrolled(reg, planned) = upTo[last]
    BY Zenon DEF AllEnrolled
  <1> HIDE DEF last
  <1>3. PICK f : Steps(f, last, reg, planned)
    <2>1. last \in Nat
      BY <1>1
    <2> QED
      BY <2>1, StepsTo, Zenon
  <1> DEFINE made == [n \in 0..last |-> f[n]]
  <1>4. made = Wanted(made)
    <2>1. ASSUME NEW n \in 0..last PROVE made[n] = Wanted(made)[n]
      <3>1. CASE n = 0
        BY <1>3, <3>1 DEF Steps
      <3>2. CASE n # 0
        <4>1. n \in 1..last /\ n - 1 \in 0..last
          BY <1>1, <3>2
        <4> QED
          BY <1>3, <3>2, <4>1 DEF StepTo, Steps
      <3> QED
        BY <3>1, <3>2
    <2> QED
      BY <2>1
  <1> HIDE DEF made
  <1>5. upTo = Wanted(upTo)
    <2> HIDE DEF Wanted
    <2> QED
      BY <1>4, Zenon
  <1> HIDE DEF upTo
  <1>6. upTo[0] = reg /\ \A n \in 1..last : upTo[n] = StepTo(upTo[n - 1], planned, n)
    <2> SUFFICES ASSUME NEW h, h = Wanted(h)
                 PROVE  h[0] = reg /\ \A n \in 1..last : h[n] = StepTo(h[n - 1], planned, n)
      BY <1>5, Zenon
    <2> QED
      BY <1>1 DEF StepTo
  <1> DEFINE Before(n) == {p.entity : p \in {q \in planned : q.entity <= n}}
             Good(r, n) == /\ IsRegister(r) /\ NumbersStand(r)
                           /\ r.aliases = reg.aliases
                           /\ DOMAIN r.entities = DOMAIN reg.entities \cup Before(n)
             S == {n \in 0..last : Good(upTo[n], n)}
  <1>7. 0 \in S
    <2>1. Before(0) = {}
      BY <1>1
    <2> QED
      BY <1>1, <1>6, <2>1
  <1>8. ASSUME NEW n \in 0..(last - 1), n \in S PROVE n + 1 \in S
    <2> DEFINE r == upTo[n]
    <2>1. upTo[n + 1] = StepTo(r, planned, n + 1)
      <3>1. n + 1 \in 1..last /\ (n + 1) - 1 = n
        BY <1>1
      <3> QED
        BY <1>6, <3>1
    <2>2. Good(r, n)
      BY <1>8
    <2> HIDE DEF r
    <2>3. CASE \E p \in planned : p.entity = n + 1
      <3> DEFINE q == CHOOSE p \in planned : p.entity = n + 1
      <3>1. q \in planned /\ q.entity = n + 1
        BY <2>3
      <3>2. upTo[n + 1] = Enrolled(r, q)
        BY <2>1, <2>3 DEF StepTo
      <3> HIDE DEF q
      <3>3. Before(n + 1) = Before(n) \cup {q.entity}
        BY <1>1, <3>1
      <3> HIDE DEF Before
      <3>4. /\ IsRegister(Enrolled(r, q)) /\ NumbersStand(Enrolled(r, q))
            /\ Enrolled(r, q).aliases = r.aliases
            /\ DOMAIN Enrolled(r, q).entities = DOMAIN r.entities \cup {q.entity}
        BY <2>2, EnrolledStands, Zenon
      <3>5. Good(upTo[n + 1], n + 1)
        BY <2>2, <3>2, <3>3, <3>4
      <3>6. n + 1 \in 0..last
        BY <1>1
      <3> QED
        BY <3>5, <3>6
    <2>4. CASE ~ \E p \in planned : p.entity = n + 1
      <3>1. upTo[n + 1] = r
        BY <2>1, <2>4 DEF StepTo
      <3>2. Before(n + 1) = Before(n)
        BY <1>1, <2>4
      <3> HIDE DEF Before
      <3> QED
        BY <1>1, <2>2, <3>1, <3>2
    <2> QED
      BY <2>3, <2>4
  <1> HIDE DEF S
  <1>9. last \in S
    BY <1>1, <1>7, <1>8, UpTo
  <1>10. Good(upTo[last], last)
    BY <1>9 DEF S
  <1>11. Before(last) = {p.entity : p \in planned}
    BY <1>1
  <1> QED
    BY <1>2, <1>10, <1>11
(* allocate: the surfaces know those they were known for and those they    *)
(* are taken for now.                                                      *)
EntitiesOf(assigned) == {assigned[m].entity : m \in DOMAIN assigned}

TakenFor(text, assigned, token) == {assigned[m].entity : m \in {x \in DOMAIN assigned : Token(text, x) = token}}

Enlarged(new, text, reg, assigned) ==
    /\ IsRegister(new) /\ NumbersStand(new) /\ AliasesStand(new)
    /\ DOMAIN new.entities = DOMAIN reg.entities \cup EntitiesOf(assigned)
    /\ \A token : Aliases(new, token) = Aliases(reg, token) \cup TakenFor(text, assigned, token)

LEMMA AllocatedStands ==
    ASSUME NEW text, NEW reg, IsRegister(reg), NumbersStand(reg), AliasesStand(reg),
           NEW K \in Nat, NEW assigned, EntitiesOf(assigned) \subseteq 1..K
    PROVE  Enlarged(Allocated(text, reg, assigned), text, reg, assigned)
  <1> DEFINE planned == Planned(assigned)
             mid == AllEnrolled(reg, planned)
             new == Allocated(text, reg, assigned)
             tokens == {Token(text, m) : m \in DOMAIN assigned}
  <1>1. \A p \in planned : p.entity \in 1..K
    BY DEF Planned, EntitiesOf
  <1>2. {p.entity : p \in planned} = EntitiesOf(assigned)
    <2>1. \A p \in planned : \E m \in DOMAIN assigned : p.entity = assigned[m].entity
      BY DEF Planned
    <2>2. ASSUME NEW m \in DOMAIN assigned PROVE \E p \in planned : p.entity = assigned[m].entity
      <3> DEFINE a == assigned[m]
                 p == [entity |-> a.entity, type |-> a.type, action |-> a.action]
      <3>1. a \in {assigned[x] : x \in DOMAIN assigned}
        OBVIOUS
      <3> HIDE DEF a
      <3>2. p \in planned
        BY <3>1 DEF Planned
      <3>3. p.entity = a.entity
        OBVIOUS
      <3> QED
        BY <3>2, <3>3 DEF a
    <2> HIDE DEF planned
    <2> QED
      BY <2>1, <2>2 DEF EntitiesOf
  <1> HIDE DEF planned
  <1>3. /\ IsRegister(mid) /\ NumbersStand(mid) /\ mid.aliases = reg.aliases
        /\ DOMAIN mid.entities = DOMAIN reg.entities \cup {p.entity : p \in planned}
    BY <1>1, AllEnrolledStands, Zenon
  <1>4. new = Learnt(text, mid, assigned)
    BY DEF Allocated, planned
  <1> HIDE DEF mid, new
  <1>5. \A token : Aliases(mid, token) = Aliases(reg, token)
    BY <1>3 DEF Aliases
  <1>6. new = [entities |-> mid.entities, counters |-> mid.counters,
               aliases |-> [token \in tokens \cup DOMAIN reg.aliases |->
                                Aliases(mid, token) \cup TakenFor(text, assigned, token)]]
    BY <1>3, <1>4 DEF Learnt, IsRegister, TakenFor
  <1>7. /\ new.entities = mid.entities /\ new.counters = mid.counters
        /\ new.aliases = [token \in tokens \cup DOMAIN reg.aliases |->
                                Aliases(mid, token) \cup TakenFor(text, assigned, token)]
    BY <1>6
  <1>8. IsRegister(new)
    BY <1>6, <1>7 DEF IsRegister
  <1>9. NumbersStand(new)
    BY <1>3, <1>7 DEF NumbersStand
  <1>10. \A token : token \notin tokens => TakenFor(text, assigned, token) = {}
    BY DEF TakenFor
  <1>11. \A token \in tokens : TakenFor(text, assigned, token) # {}
    BY DEF TakenFor
  <1>12. \A token : TakenFor(text, assigned, token) \subseteq DOMAIN new.entities
    BY <1>2, <1>3, <1>7 DEF TakenFor, EntitiesOf
  <1> HIDE DEF tokens
  <1>13. ASSUME NEW token PROVE Aliases(new, token) = Aliases(reg, token) \cup TakenFor(text, assigned, token)
    <2>1. CASE token \in tokens \cup DOMAIN reg.aliases
      BY <1>5, <1>7, <2>1 DEF Aliases
    <2>2. CASE token \notin tokens \cup DOMAIN reg.aliases
      BY <1>7, <1>10, <2>2 DEF Aliases
    <2> QED
      BY <2>1, <2>2
  <1>14. ASSUME NEW token \in DOMAIN new.aliases
         PROVE  new.aliases[token] # {} /\ new.aliases[token] \subseteq DOMAIN new.entities
    <2>1. token \in tokens \cup DOMAIN reg.aliases
      BY <1>7, <1>14
    <2>2. new.aliases[token] = Aliases(reg, token) \cup TakenFor(text, assigned, token)
      BY <1>5, <1>7, <2>1
    <2>3. Aliases(reg, token) \subseteq DOMAIN reg.entities
      BY DEF Aliases, AliasesStand
    <2>4. token \in DOMAIN reg.aliases => Aliases(reg, token) # {}
      BY DEF Aliases, AliasesStand
    <2> QED
      BY <1>3, <1>7, <1>11, <1>12, <2>1, <2>2, <2>3, <2>4
  <1>15. AliasesStand(new)
    BY <1>14 DEF AliasesStand
  <1>16. DOMAIN new.entities = DOMAIN reg.entities \cup EntitiesOf(assigned)
    BY <1>2, <1>3, <1>7
  <1> QED
    BY <1>8, <1>9, <1>13, <1>15, <1>16, Zenon DEF new, Enlarged

-----------------------------------------------------------------------------
(* An answer for every group of a capsule that is settled.                 *)

GroupOf(c, m) == CHOOSE g \in c.groups : m \in g.mentions

LEMMA GroupOfIs ==
    ASSUME NEW text, NEW pol, NEW c, Valid(text, pol, c)
    PROVE  /\ \A m \in c.spans : /\ GroupOf(c, m) \in c.groups /\ m \in GroupOf(c, m).mentions
                                 /\ GroupOf(c, m).type = m.type
           /\ \A g \in c.groups : \E m \in c.spans : GroupOf(c, m) = g
  <1>1. /\ \A g \in c.groups : /\ g.mentions # {} /\ g.mentions \subseteq c.spans
                               /\ \A m \in g.mentions : m.type = g.type
                               /\ \A h \in c.groups \ {g} : g.mentions \cap h.mentions = {}
        /\ UNION {g.mentions : g \in c.groups} = c.spans
    BY DEF Valid
  <1>2. ASSUME NEW m \in c.spans PROVE GroupOf(c, m) \in c.groups /\ m \in GroupOf(c, m).mentions
    <2>1. \E g \in c.groups : m \in g.mentions
      BY <1>1
    <2> QED
      BY <2>1 DEF GroupOf
  <1>3. ASSUME NEW g \in c.groups PROVE \E m \in c.spans : GroupOf(c, m) = g
    <2>1. PICK m \in g.mentions : TRUE
      BY <1>1
    <2>2. m \in c.spans
      BY <1>1, <2>1
    <2>3. GroupOf(c, m) \in c.groups /\ m \in GroupOf(c, m).mentions
      BY <1>2, <2>2
    <2> QED
      BY <1>1, <2>1, <2>2, <2>3
  <1> QED
    BY <1>1, <1>2, <1>3

(* Whoever is new has an id of his own: as many ids are given as there are *)
(* new groups.                                                             *)
LEMMA NewAreApart ==
    ASSUME NEW new, IsFiniteSet(new), NEW ids, IsFiniteSet(ids), Cardinality(ids) = Cardinality(new),
           NEW whom, {whom[g] : g \in new} = ids
    PROVE  \A g, h \in new : whom[g] = whom[h] => g = h
  <1> DEFINE f == [g \in new |-> whom[g]]
  <1>1. f \in [new -> ids] /\ \A x \in ids : \E g \in new : f[g] = x
    OBVIOUS
  <1> HIDE DEF f
  <1>2. f \in Surjection(new, ids)
    BY <1>1 DEF Surjection
  <1>3. f \in Injection(new, ids)
    BY <1>2, FS_Surjection
  <1>4. \A g, h \in new : f[g] = f[h] => g = h
    BY <1>3 DEF Injection, IsInjective
  <1> QED
    BY <1>4 DEF f

LEMMA AnswerIsSound ==
    ASSUME IsFiniteSet(desk.capsule.groups),
           Valid(Source, policy, desk.capsule), OpenGroups(desk.capsule) = {},
           NEW k \in Nat, DOMAIN register.entities = 1..k,
           NEW whom \in WhomOf(desk.capsule)
    PROVE  LET assigned == Answered(desk.capsule, whom)
           IN  /\ ValidResolution(Source, policy, desk.capsule, assigned, register)
               /\ \E n \in Nat : DOMAIN register.entities \cup EntitiesOf(assigned) = 1..n
  <1> DEFINE c == desk.capsule
             known == DOMAIN register.entities
             new == {g \in c.groups : whom[g] \notin known}
             assigned == Answered(c, whom)
             G(m) == GroupOf(c, m)
  <1>1. /\ \A g \in c.groups \ new : whom[g] \in Choosable(register, g)
        /\ {whom[g] : g \in new} = FreshIds(Cardinality(new))
    BY DEF WhomOf
  <1>2. IsFiniteSet(new) /\ Cardinality(new) \in Nat
    BY FS_Subset, FS_CardinalityType
  <1>3. FreshIds(Cardinality(new)) = (k + 1)..(k + Cardinality(new))
    <2>1. Cardinality(1..k) = k
      BY FS_Interval
    <2> QED
      BY <2>1 DEF FreshIds
  <1>4. \A g, h \in new : whom[g] = whom[h] => g = h
    <2> DEFINE ids == (k + 1)..(k + Cardinality(new))
    <2> HIDE DEF new
    <2>1. IsFiniteSet(ids) /\ Cardinality(ids) = Cardinality(new)
      <3> DEFINE n == Cardinality(new)
      <3>1. n \in Nat
        BY <1>2
      <3> HIDE DEF n
      <3>2. k + 1 \in Int /\ k + n \in Int
        BY <3>1
      <3>3. IsFiniteSet((k + 1)..(k + n)) /\ Cardinality((k + 1)..(k + n)) = IF k + 1 > k + n THEN 0 ELSE (k + n) - (k + 1) + 1
        BY <3>2, FS_Interval
      <3>4. Cardinality((k + 1)..(k + n)) = n
        BY <3>1, <3>3
      <3> QED
        BY <3>3, <3>4 DEF n
    <2>2. {whom[g] : g \in new} = ids
      BY <1>1, <1>3
    <2> HIDE DEF ids
    <2> QED
      BY <1>2, <2>1, <2>2, NewAreApart
  <1>5. /\ \A m \in c.spans : G(m) \in c.groups /\ m \in G(m).mentions /\ G(m).type = m.type
        /\ \A g \in c.groups : \E m \in c.spans : G(m) = g
    BY GroupOfIs
  <1>6. /\ DOMAIN assigned = c.spans
        /\ \A m \in c.spans :
              /\ assigned[m].entity = whom[G(m)]
              /\ assigned[m].type = m.type
              /\ assigned[m].action = policy[m.type]
              /\ whom[G(m)] \notin known => assigned[m].intent = "new"
    BY <1>5 DEF Answered, Assignment, GroupOf
  <1> HIDE DEF assigned, G
  <1>7. \A m, n \in c.spans : assigned[n].entity = assigned[m].entity => n.type = m.type
    <2> SUFFICES ASSUME NEW m \in c.spans, NEW n \in c.spans, whom[G(n)] = whom[G(m)] PROVE n.type = m.type
      BY <1>6
    <2>1. CASE whom[G(m)] \in known
      <3>1. G(m) \in c.groups \ new /\ G(n) \in c.groups \ new
        BY <1>5, <2>1
      <3>2. register.entities[whom[G(m)]].type = G(m).type /\ register.entities[whom[G(n)]].type = G(n).type
        BY <1>1, <3>1 DEF Choosable
      <3> QED
        BY <1>5, <3>2
    <2>2. CASE whom[G(m)] \notin known
      <3>1. G(m) \in new /\ G(n) \in new
        BY <1>5, <2>2
      <3>2. G(m) = G(n)
        BY <1>4, <3>1
      <3> QED
        BY <1>5, <3>2
    <2> QED
      BY <2>1, <2>2
  <1>8. ASSUME NEW m \in c.spans, assigned[m].entity \in known
        PROVE  register.entities[assigned[m].entity].type = m.type
    <2>1. G(m) \in c.groups \ new
      BY <1>5, <1>6, <1>8
    <2> QED
      BY <1>1, <1>5, <1>6, <2>1 DEF Choosable
  <1>9. ValidResolution(Source, policy, c, assigned, register)
    BY <1>6, <1>7, <1>8 DEF ValidResolution
  <1>10. known \cup EntitiesOf(assigned) = 1..(k + Cardinality(new))
    <2>1. ASSUME NEW m \in c.spans PROVE assigned[m].entity \in 1..(k + Cardinality(new))
      <3>1. CASE whom[G(m)] \in known
        BY <3>1, <1>2, <1>6
      <3>2. CASE whom[G(m)] \notin known
        <4>1. whom[G(m)] \in (k + 1)..(k + Cardinality(new))
          BY <3>2, <1>1, <1>3, <1>5
        <4> QED
          BY <4>1, <1>2, <1>6
      <3> QED
        BY <3>1, <3>2
    <2>2. ASSUME NEW x \in (k + 1)..(k + Cardinality(new)) PROVE \E m \in c.spans : assigned[m].entity = x
      <3>1. PICK g \in new : whom[g] = x
        BY <1>1, <1>3
      <3>2. PICK m \in c.spans : G(m) = g
        BY <1>5, <3>1
      <3> QED
        BY <1>6, <3>1, <3>2
    <2> DEFINE n == Cardinality(new)
    <2>3. n \in Nat
      BY <1>2
    <2>4. 1..(k + n) = 1..k \cup (k + 1)..(k + n)
      <3> HIDE DEF n
      <3> QED
        BY <2>3
    <2> HIDE DEF n, new, c
    <2> QED
      BY <1>6, <2>1, <2>2, <2>4 DEF n, EntitiesOf
  <1>11. k + Cardinality(new) \in Nat
    BY <1>2
  <1> QED
    BY <1>9, <1>10, <1>11 DEF assigned

-----------------------------------------------------------------------------
(* The edits: what they make of a capsule, and of what counts as settled.  *)

IsGroup(g) == DOMAIN g = {"type", "mentions", "state"}

CapsuleOK(c) ==
    /\ DOMAIN c = {"base", "overlay", "spans", "groups"}
    /\ IsFiniteSet(c.groups)
    /\ \A g \in c.groups : IsGroup(g)

SettledOf(c) == c.groups \ OpenGroups(c)

LEMMA SettledIs == \A c : SettledOf(c) = {g \in c.groups : g.state = "RESOLVED"}
  BY DEF SettledOf, OpenGroups

LEMMA GroupIs == \A type, mentions, state :
    IsGroup(Group(type, mentions, state)) /\ Group(type, mentions, state).state = state
  BY DEF IsGroup, Group

LEMMA GroupChanged ==
    ASSUME NEW g, IsGroup(g), NEW mentions, NEW state
    PROVE  /\ IsGroup([g EXCEPT !.mentions = mentions, !.state = state])
           /\ [g EXCEPT !.mentions = mentions, !.state = state].state = state
           /\ IsGroup([g EXCEPT !.state = state])
  <1> DEFINE one == [g EXCEPT !.mentions = mentions, !.state = state]
             two == [g EXCEPT !.state = state]
  <1>1. IsGroup(one) /\ one.state = state
    BY DEF IsGroup
  <1>2. IsGroup(two)
    BY DEF IsGroup
  <1> QED
    BY <1>1, <1>2

(* A capsule whose groups are others. *)
LEMMA CapsuleChanged ==
    ASSUME NEW c, CapsuleOK(c), NEW groups, IsFiniteSet(groups), \A g \in groups : IsGroup(g)
    PROVE  CapsuleOK([c EXCEPT !.groups = groups])
  <1> DEFINE new == [c EXCEPT !.groups = groups]
  <1>1. DOMAIN new = DOMAIN c /\ new.groups = groups
    BY DEF CapsuleOK
  <1> HIDE DEF new
  <1>2. CapsuleOK(new)
    BY <1>1 DEF CapsuleOK
  <1> QED
    BY <1>2 DEF new

(* _remove *)
LEMMA WithoutKeeps ==
    ASSUME NEW c, CapsuleOK(c), NEW old
    PROVE  CapsuleOK(Without(c, old)) /\ SettledOf(Without(c, old)) \subseteq SettledOf(c)
  <1> DEFINE touched == {g \in c.groups : g.mentions \cap old # {}}
             Shrunk(g) == [g EXCEPT !.mentions = @ \ old, !.state = "OPEN"]
             shrunk == {Shrunk(g) : g \in touched}
             left == {g \in shrunk : g.mentions # {}}
             all == (c.groups \ touched) \cup left
             new == Without(c, old)
  <1>1. ASSUME NEW g \in touched PROVE IsGroup(Shrunk(g)) /\ Shrunk(g).state = "OPEN"
    <2>1. IsGroup(g)
      BY DEF CapsuleOK
    <2> QED
      BY <2>1, GroupChanged, Zenon
  <1> DEFINE f == [g \in touched |-> Shrunk(g)]
  <1>2. f \in Surjection(touched, shrunk)
    <2>1. f \in [touched -> shrunk] /\ \A x \in shrunk : \E g \in touched : f[g] = x
      OBVIOUS
    <2> HIDE DEF f, shrunk, touched
    <2> QED
      BY <2>1 DEF Surjection
  <1>3. IsFiniteSet(touched)
    BY FS_Subset DEF CapsuleOK
  <1> HIDE DEF f
  <1>4. IsFiniteSet(shrunk)
    BY <1>2, <1>3, FS_Surjection
  <1>5. IsFiniteSet(left) /\ IsFiniteSet(c.groups \ touched)
    BY <1>4, FS_Subset DEF CapsuleOK
  <1>6. \A g \in left : IsGroup(g) /\ g.state = "OPEN"
    BY <1>1
  <1>7. new = [c EXCEPT !.spans = @ \ old, !.groups = all]
    BY DEF Without
  <1> HIDE DEF touched, shrunk, left, new
  <1>8. IsFiniteSet(all)
    BY <1>5, FS_Union
  <1>9. \A g \in all : IsGroup(g)
    BY <1>6 DEF CapsuleOK
  <1> HIDE DEF all
  <1>10. CapsuleOK(new) /\ new.groups = all
    <2>1. DOMAIN new = DOMAIN c /\ new.groups = all
      BY <1>7 DEF CapsuleOK
    <2> QED
      BY <1>8, <1>9, <2>1 DEF CapsuleOK
  <1>11. SettledOf(new) \subseteq SettledOf(c)
    BY <1>6, <1>10, SettledIs DEF all
  <1> QED
    BY <1>10, <1>11 DEF new

LEMMA KeptKeeps ==
    ASSUME NEW c, CapsuleOK(c), NEW phase, NEW change
    PROVE  /\ CapsuleOK(Kept(phase, c, change)) /\ Kept(phase, c, change).groups = c.groups
           /\ SettledOf(Kept(phase, c, change)) = SettledOf(c)
  <1> DEFINE new == Kept(phase, c, change)
  <1>1. DOMAIN new = DOMAIN c /\ new.groups = c.groups
    <2>1. CASE phase = "mark"
      BY <2>1 DEF Kept, CapsuleOK
    <2>2. CASE phase # "mark"
      BY <2>2 DEF Kept, CapsuleOK
    <2> QED
      BY <2>1, <2>2
  <1> HIDE DEF new
  <1>2. CapsuleOK(new)
    BY <1>1 DEF CapsuleOK
  <1> QED
    BY <1>1, <1>2, SettledIs DEF new

LEMMA AddedKeeps ==
    ASSUME NEW c, CapsuleOK(c), NEW phase, NEW new, NEW old
    PROVE  CapsuleOK(Added(phase, c, new, old)) /\ SettledOf(Added(phase, c, new, old)) \subseteq SettledOf(c)
  <1> DEFINE rest == Without(c, old)
             group == Group(new.type, {new}, "OPEN")
             all == rest.groups \cup {group}
             with == [rest EXCEPT !.spans = @ \cup {new}, !.groups = @ \cup {group}]
  <1>1. CapsuleOK(rest) /\ SettledOf(rest) \subseteq SettledOf(c)
    BY WithoutKeeps
  <1>2. Added(phase, c, new, old) = Kept(phase, with, [old |-> old, new |-> {new}])
    BY DEF Added
  <1> HIDE DEF rest
  <1>3. IsGroup(group) /\ group.state = "OPEN"
    BY GroupIs
  <1> HIDE DEF group
  <1>4. IsFiniteSet(all) /\ \A g \in all : IsGroup(g)
    BY <1>1, <1>3, FS_AddElement DEF CapsuleOK
  <1>5. with = [rest EXCEPT !.spans = rest.spans \cup {new}, !.groups = all]
    OBVIOUS
  <1> HIDE DEF all, with
  <1>6. CapsuleOK(with) /\ with.groups = all
    <2>1. DOMAIN with = DOMAIN rest /\ with.groups = all
      BY <1>1, <1>5 DEF CapsuleOK
    <2> QED
      BY <1>1, <1>4, <2>1 DEF CapsuleOK
  <1>7. SettledOf(with) \subseteq SettledOf(rest)
    BY <1>3, <1>6, SettledIs DEF all
  <1> QED
    BY <1>1, <1>2, <1>6, <1>7, KeptKeeps

LEMMA ExcludedKeeps ==
    ASSUME NEW c, CapsuleOK(c), NEW phase, NEW mark
    PROVE  CapsuleOK(Excluded(phase, c, mark)) /\ SettledOf(Excluded(phase, c, mark)) \subseteq SettledOf(c)
  <1>1. CapsuleOK(Without(c, {mark})) /\ SettledOf(Without(c, {mark})) \subseteq SettledOf(c)
    BY WithoutKeeps
  <1> QED
    BY <1>1, KeptKeeps DEF Excluded

LEMMA MergedKeeps ==
    ASSUME NEW c, CapsuleOK(c), NEW groups
    PROVE  CapsuleOK(Merged(c, groups))
  <1> DEFINE group == Group((CHOOSE g \in groups : TRUE).type, UNION {g.mentions : g \in groups}, "RESOLVED")
             all == (c.groups \ groups) \cup {group}
  <1>1. IsGroup(group)
    BY GroupIs
  <1>2. Merged(c, groups) = [c EXCEPT !.groups = all]
    BY DEF Merged
  <1> HIDE DEF group
  <1>3. IsFiniteSet(c.groups \ groups)
    BY FS_Subset DEF CapsuleOK
  <1>4. IsFiniteSet(all)
    BY <1>3, FS_AddElement
  <1>5. \A g \in all : IsGroup(g)
    BY <1>1 DEF CapsuleOK
  <1> HIDE DEF all
  <1>6. CapsuleOK([c EXCEPT !.groups = all])
    BY <1>4, <1>5, CapsuleChanged
  <1> QED
    BY <1>2, <1>6

LEMMA PartedKeeps ==
    ASSUME NEW c, CapsuleOK(c), NEW g \in c.groups, NEW part
    PROVE  CapsuleOK(Parted(c, g, part))
  <1> DEFINE one == [g EXCEPT !.mentions = part, !.state = "RESOLVED"]
             two == [g EXCEPT !.mentions = @ \ part, !.state = "RESOLVED"]
             all == (c.groups \ {g}) \cup {one, two}
  <1>1. IsGroup(one) /\ IsGroup(two)
    BY GroupChanged DEF CapsuleOK
  <1>2. Parted(c, g, part) = [c EXCEPT !.groups = all]
    BY DEF Parted
  <1> HIDE DEF one, two
  <1>3. IsFiniteSet(c.groups \ {g})
    BY FS_RemoveElement DEF CapsuleOK
  <1>4. IsFiniteSet((c.groups \ {g}) \cup {one})
    BY <1>3, FS_AddElement
  <1>5. IsFiniteSet(((c.groups \ {g}) \cup {one}) \cup {two})
    BY <1>4, FS_AddElement
  <1>6. all = ((c.groups \ {g}) \cup {one}) \cup {two}
    OBVIOUS
  <1>7. \A h \in all : IsGroup(h)
    BY <1>1 DEF CapsuleOK
  <1> HIDE DEF all
  <1> QED
    BY <1>2, <1>5, <1>6, <1>7, CapsuleChanged

LEMMA JudgedKeeps ==
    ASSUME NEW c, CapsuleOK(c), NEW g \in c.groups, NEW state
    PROVE  CapsuleOK([c EXCEPT !.groups = (@ \ {g}) \cup {[g EXCEPT !.state = state]}])
  <1> DEFINE one == [g EXCEPT !.state = state]
             all == (c.groups \ {g}) \cup {one}
  <1>1. IsGroup(one)
    BY GroupChanged DEF CapsuleOK
  <1> HIDE DEF one
  <1>2. IsFiniteSet(c.groups \ {g})
    BY FS_RemoveElement DEF CapsuleOK
  <1>3. IsFiniteSet(all) /\ \A h \in all : IsGroup(h)
    BY <1>1, <1>2, FS_AddElement DEF CapsuleOK
  <1> HIDE DEF all
  <1>4. CapsuleOK([c EXCEPT !.groups = all])
    BY <1>3, CapsuleChanged
  <1> QED
    BY <1>4 DEF all, one

-----------------------------------------------------------------------------
(* The invariant: the desk holds a capsule, what is to be resolved is      *)
(* valid and settled, its answer is one that choose offers, the register's *)
(* numbers stand, and its surfaces know exactly whom they were taken for.  *)

DeskFields == {"rec", "policy", "phase", "capsule", "left", "assigned"}

DeskOK ==
    desk = NoDesk \/ /\ DOMAIN desk = DeskFields
                     /\ desk.phase \in {"mark", "cases", "resolve", "resolved"}
                     /\ CapsuleOK(desk.capsule)

ResolveOK ==
    desk.phase \in {"resolve", "resolved"} =>
        Valid(Source, policy, desk.capsule) /\ OpenGroups(desk.capsule) = {}

AnswerOK ==
    desk.phase = "resolved" => \E whom \in WhomOf(desk.capsule) : desk.assigned = Answered(desk.capsule, whom)

RegisterOK ==
    /\ IsRegister(register) /\ NumbersStand(register) /\ AliasesStand(register)
    /\ \E k \in Nat : DOMAIN register.entities = 1..k

SaidFor(token) == {s[2] : s \in {x \in said : x[1] = token}}

SaidOK == \A token : Aliases(register, token) = SaidFor(token)

CasesInv == DeskOK /\ ResolveOK /\ AnswerOK /\ RegisterOK /\ SaidOK

LEMMA NoDeskPhase == NoDesk.phase = "none"
  BY DEF NoDesk

LEMMA InitCases == Init => CasesInv
  <1> SUFFICES ASSUME Init PROVE CasesInv
    OBVIOUS
  <1>1. desk = NoDesk /\ register = EmptyRegister /\ said = {}
    BY DEF Init
  <1>2. DeskOK /\ ResolveOK /\ AnswerOK
    BY <1>1, NoDeskPhase DEF DeskOK, ResolveOK, AnswerOK
  <1>3. DOMAIN register.entities = {} /\ DOMAIN register.counters = {} /\ DOMAIN register.aliases = {}
    BY <1>1 DEF EmptyRegister
  <1>4. IsRegister(register)
    BY <1>1 DEF EmptyRegister, IsRegister
  <1>5. NumbersStand(register) /\ AliasesStand(register)
    BY <1>3 DEF NumbersStand, AliasesStand
  <1>6. DOMAIN register.entities = 1..0
    BY <1>3
  <1>7. SaidOK
    BY <1>1, <1>3 DEF SaidOK, SaidFor, Aliases
  <1> QED
    BY <1>2, <1>4, <1>5, <1>6, <1>7 DEF CasesInv, RegisterOK

(* What an edit may do to the desk: the work goes on, on another capsule.  *)
WorkedOn ==
    /\ DOMAIN desk' = DeskFields /\ desk'.phase = desk.phase
    /\ CapsuleOK(desk'.capsule)
    /\ UNCHANGED <<register, said>>

LEMMA EditingDesk ==
    ASSUME DeskOK, Editing
    PROVE  DOMAIN desk = DeskFields /\ desk.phase \in {"mark", "cases"} /\ CapsuleOK(desk.capsule)
  BY NoDeskPhase DEF DeskOK, Editing

LEMMA TakeWorks ==
    ASSUME DeskOK, NEW c, CapsuleOK(c), Take(c)
    PROVE  WorkedOn /\ desk'.capsule = c
  <1>1. DOMAIN desk = DeskFields /\ desk.phase \in {"mark", "cases"}
    BY EditingDesk DEF Take
  <1>2. desk' = [desk EXCEPT !.capsule = c, !.left[desk.phase] = @ - 1]
    BY DEF Take
  <1>3. DOMAIN desk' = DeskFields /\ desk'.phase = desk.phase /\ desk'.capsule = c
    BY <1>1, <1>2 DEF DeskFields
  <1> QED
    BY <1>3 DEF WorkedOn, Take

LEMMA EditWorks ==
    ASSUME DeskOK, Add \/ Exclude \/ Merge \/ Split \/ Judge
    PROVE  WorkedOn
  <1>1. Editing
    BY DEF Add, Exclude, Merge, Split, Judge
  <1>2. DOMAIN desk = DeskFields /\ desk.phase \in {"mark", "cases"} /\ CapsuleOK(desk.capsule)
    BY <1>1, EditingDesk
  <1>3. CASE Add
    <2>1. PICK new, old : Take(Added(desk.phase, desk.capsule, new, old))
      BY <1>3 DEF Add
    <2> QED
      BY <1>2, <2>1, AddedKeeps, TakeWorks
  <1>4. CASE Exclude
    <2>1. PICK mark : Take(Excluded(desk.phase, desk.capsule, mark))
      BY <1>4 DEF Exclude
    <2> QED
      BY <1>2, <2>1, ExcludedKeeps, TakeWorks
  <1>5. CASE Merge
    <2>1. PICK groups : Take(Merged(desk.capsule, groups))
      BY <1>5 DEF Merge
    <2> QED
      BY <1>2, <2>1, MergedKeeps, TakeWorks
  <1>6. CASE Split
    <2>1. PICK g \in desk.capsule.groups : \E part : Take(Parted(desk.capsule, g, part))
      BY <1>6 DEF Split
    <2>2. PICK part : Take(Parted(desk.capsule, g, part))
      BY <2>1
    <2> QED
      BY <1>2, <2>2, PartedKeeps, TakeWorks
  <1>7. CASE Judge
    <2>1. PICK g \in desk.capsule.groups, state \in {"RESOLVED", "DEFERRED"} :
            desk' = [desk EXCEPT !.capsule.groups = (@ \ {g}) \cup {[g EXCEPT !.state = state]}]
      BY <1>7 DEF Judge
    <2>2. CapsuleOK([desk.capsule EXCEPT !.groups = (@ \ {g}) \cup {[g EXCEPT !.state = state]}])
      BY <1>2, JudgedKeeps
    <2>3. /\ DOMAIN desk' = DeskFields /\ desk'.phase = desk.phase
          /\ desk'.capsule = [desk.capsule EXCEPT !.groups = (@ \ {g}) \cup {[g EXCEPT !.state = state]}]
      BY <1>2, <2>1 DEF DeskFields
    <2> QED
      BY <1>7, <2>2, <2>3 DEF WorkedOn, Judge
  <1> QED
    BY <1>3, <1>4, <1>5, <1>6, <1>7

LEMMA WorkedOnKeeps ==
    ASSUME CasesInv, Editing, WorkedOn
    PROVE  CasesInv'
  <1>1. desk.phase \in {"mark", "cases"} /\ register' = register /\ said' = said
    BY EditingDesk DEF CasesInv, WorkedOn
  <1>2. DeskOK' /\ ResolveOK' /\ AnswerOK'
    BY <1>1 DEF WorkedOn, DeskOK, ResolveOK, AnswerOK
  <1>3. RegisterOK' /\ SaidOK'
    BY <1>1 DEF CasesInv, RegisterOK, SaidOK, SaidFor
  <1> QED
    BY <1>2, <1>3 DEF CasesInv

(* A new capsule is empty. *)
LEMMA OpenKeeps ==
    ASSUME CasesInv, OpenMarking
    PROVE  CasesInv' /\ desk'.phase = "mark" /\ desk'.capsule.groups = {}
  <1>1. register' = register /\ said' = said
    BY DEF OpenMarking
  <1>2. PICK p \in Policies :
            desk' = [rec |-> Head(plan).rec, policy |-> p, phase |-> "mark",
                     capsule |-> Capsule({}, << >>, {}, {}), left |-> Head(plan), assigned |-> << >>]
    BY DEF OpenMarking
  <1>3. CapsuleOK(Capsule({}, << >>, {}, {})) /\ Capsule({}, << >>, {}, {}).groups = {}
    BY FS_EmptySet DEF CapsuleOK, Capsule
  <1>4. DOMAIN desk' = DeskFields /\ desk'.phase = "mark" /\ desk'.capsule = Capsule({}, << >>, {}, {})
    BY <1>2 DEF DeskFields
  <1>5. DeskOK' /\ ResolveOK' /\ AnswerOK'
    BY <1>3, <1>4 DEF DeskOK, ResolveOK, AnswerOK
  <1>6. RegisterOK' /\ SaidOK'
    BY <1>1 DEF CasesInv, RegisterOK, SaidOK, SaidFor
  <1> QED
    BY <1>3, <1>4, <1>5, <1>6 DEF CasesInv

(* From marks to cases, to an answer, and back when it is refused. *)
LEMMA PhaseKeeps ==
    ASSUME CasesInv, PublishMarks \/ PublishCases \/ AcceptResolution \/ ResolveAnew
    PROVE  CasesInv' /\ desk'.capsule = desk.capsule
  <1>1. /\ DOMAIN desk = DeskFields /\ CapsuleOK(desk.capsule)
        /\ desk.phase \in {"mark", "cases", "resolve", "resolved"}
    BY NoDeskPhase DEF CasesInv, DeskOK, PublishMarks, PublishCases, AcceptResolution, ResolveAnew
  <1>2. register' = register /\ said' = said
    BY DEF PublishMarks, PublishCases, AcceptResolution, ResolveAnew
  <1>3. RegisterOK' /\ SaidOK'
    BY <1>2 DEF CasesInv, RegisterOK, SaidOK, SaidFor
  <1>4. CASE PublishMarks
    <2>1. DOMAIN desk' = DeskFields /\ desk'.phase = "cases" /\ desk'.capsule = desk.capsule
      BY <1>1, <1>4 DEF PublishMarks, DeskFields
    <2> QED
      BY <1>1, <1>3, <2>1 DEF CasesInv, DeskOK, ResolveOK, AnswerOK
  <1>5. CASE PublishCases
    <2>1. /\ DOMAIN desk' = DeskFields /\ desk'.phase = "resolve" /\ desk'.capsule = desk.capsule
          /\ desk'.rec = desk.rec /\ desk'.policy = desk.policy
      BY <1>1, <1>5 DEF PublishCases, DeskFields
    <2>2. Valid(Source, policy, desk.capsule) /\ OpenGroups(desk.capsule) = {}
      BY <1>5 DEF PublishCases
    <2>3. ResolveOK'
      BY <2>1, <2>2 DEF ResolveOK, Source, policy
    <2> QED
      BY <1>1, <1>3, <2>1, <2>3 DEF CasesInv, DeskOK, AnswerOK
  <1>6. CASE AcceptResolution
    <2>1. PICK whom \in WhomOf(desk.capsule) :
            desk' = [desk EXCEPT !.phase = "resolved", !.assigned = Answered(desk.capsule, whom)]
      BY <1>6 DEF AcceptResolution
    <2>2. /\ DOMAIN desk' = DeskFields /\ desk'.phase = "resolved" /\ desk'.capsule = desk.capsule
          /\ desk'.rec = desk.rec /\ desk'.policy = desk.policy
          /\ desk'.assigned = Answered(desk.capsule, whom)
      BY <1>1, <2>1 DEF DeskFields
    <2>3. desk.phase = "resolve"
      BY <1>6 DEF AcceptResolution
    <2>4. ResolveOK'
      BY <2>2, <2>3 DEF CasesInv, ResolveOK, Source, policy
    <2>5. whom \in WhomOf(desk.capsule)' /\ Answered(desk.capsule, whom)' = Answered(desk.capsule, whom)
      BY <1>2, <2>2 DEF WhomOf, FreshIds, Answered, policy
    <2>6. AnswerOK'
      BY <2>2, <2>5 DEF AnswerOK
    <2> QED
      BY <1>1, <1>3, <2>2, <2>4, <2>6 DEF CasesInv, DeskOK
  <1>7. CASE ResolveAnew
    <2>1. /\ DOMAIN desk' = DeskFields /\ desk'.phase = "resolve" /\ desk'.capsule = desk.capsule
          /\ desk'.rec = desk.rec /\ desk'.policy = desk.policy
      BY <1>1, <1>7 DEF ResolveAnew, DeskFields
    <2>2. ResolveOK'
      BY <1>7, <2>1 DEF CasesInv, ResolveOK, ResolveAnew, Source, policy
    <2> QED
      BY <1>1, <1>3, <2>1, <2>2 DEF CasesInv, DeskOK, AnswerOK
  <1> QED
    BY <1>4, <1>5, <1>6, <1>7

(* The register learns what the resolution says, and so does said. *)
LEMMA FinaliseKeeps ==
    ASSUME CasesInv, Finalise
    PROVE  CasesInv'
  <1> DEFINE c == desk.capsule
             assigned == desk.assigned
  <1>1. desk.phase = "resolved"
    BY DEF Finalise
  <1>2. /\ CapsuleOK(c) /\ Valid(Source, policy, c) /\ OpenGroups(c) = {}
        /\ \E whom \in WhomOf(c) : assigned = Answered(c, whom)
    BY <1>1, NoDeskPhase DEF CasesInv, DeskOK, ResolveOK, AnswerOK
  <1>3. PICK k \in Nat : DOMAIN register.entities = 1..k
    BY DEF CasesInv, RegisterOK
  <1>4. PICK whom \in WhomOf(c) : assigned = Answered(c, whom)
    BY <1>2
  <1>5. IsFiniteSet(c.groups)
    BY <1>2 DEF CapsuleOK
  <1>6. /\ ValidResolution(Source, policy, c, assigned, register)
        /\ \E n \in Nat : DOMAIN register.entities \cup EntitiesOf(assigned) = 1..n
    BY <1>2, <1>3, <1>4, <1>5, AnswerIsSound
  <1>7. PICK n \in Nat : DOMAIN register.entities \cup EntitiesOf(assigned) = 1..n
    BY <1>6
  <1>8. DOMAIN assigned = c.spans
    BY <1>6 DEF ValidResolution
  <1>9. EntitiesOf(assigned) \subseteq 1..n
    BY <1>7
  <1>10. register' = Allocated(Source, register, assigned)
    BY DEF Finalise
  <1>11. IsRegister(register) /\ NumbersStand(register) /\ AliasesStand(register)
    BY DEF CasesInv, RegisterOK
  <1> HIDE DEF assigned
  <1>12. Enlarged(register', Source, register, assigned)
    BY <1>9, <1>10, <1>11, AllocatedStands, Zenon
  <1>13. RegisterOK'
    BY <1>7, <1>12 DEF RegisterOK, Enlarged
  <1>14. said' = said \cup {<<Token(Source, m), assigned[m].entity>> : m \in DOMAIN assigned}
    BY <1>8 DEF Finalise, assigned
  <1>15. ASSUME NEW token PROVE SaidFor(token)' = SaidFor(token) \cup TakenFor(Source, assigned, token)
    <2>1. ASSUME NEW e \in SaidFor(token)' PROVE e \in SaidFor(token) \cup TakenFor(Source, assigned, token)
      <3>1. PICK s \in said' : s[1] = token /\ e = s[2]
        BY <2>1 DEF SaidFor
      <3>2. CASE s \in said
        BY <3>1, <3>2 DEF SaidFor
      <3>3. CASE s \notin said
        <4>1. PICK m \in DOMAIN assigned : s = <<Token(Source, m), assigned[m].entity>>
          BY <1>14, <3>1, <3>3
        <4>2. Token(Source, m) = token /\ e = assigned[m].entity
          BY <3>1, <4>1
        <4> QED
          BY <4>2 DEF TakenFor
      <3> QED
        BY <3>2, <3>3
    <2>2. SaidFor(token) \subseteq SaidFor(token)'
      BY <1>14 DEF SaidFor
    <2>3. ASSUME NEW m \in DOMAIN assigned, Token(Source, m) = token PROVE assigned[m].entity \in SaidFor(token)'
      <3> DEFINE s == <<Token(Source, m), assigned[m].entity>>
      <3>1. s \in said'
        BY <1>14
      <3>2. s[1] = token /\ s[2] = assigned[m].entity
        BY <2>3
      <3> HIDE DEF s
      <3> QED
        BY <3>1, <3>2 DEF SaidFor
    <2>4. TakenFor(Source, assigned, token) \subseteq SaidFor(token)'
      BY <2>3 DEF TakenFor
    <2> QED
      BY <2>1, <2>2, <2>4
  <1>16. SaidOK'
    BY <1>12, <1>15 DEF CasesInv, SaidOK, Enlarged
  <1>17. desk' = NoDesk
    BY DEF Finalise
  <1>18. DeskOK' /\ ResolveOK' /\ AnswerOK'
    BY <1>17, NoDeskPhase DEF DeskOK, ResolveOK, AnswerOK
  <1> QED
    BY <1>13, <1>16, <1>18 DEF CasesInv

LEMMA OtherKeeps ==
    ASSUME CasesInv, UNCHANGED <<desk, register, said>>
    PROVE  CasesInv'
  <1>1. DeskOK' /\ ResolveOK'
    BY DEF CasesInv, DeskOK, ResolveOK, Source, policy
  <1>2. RegisterOK' /\ SaidOK'
    BY DEF CasesInv, RegisterOK, SaidOK, SaidFor
  <1>3. AnswerOK'
    <2>1. \A whom \in WhomOf(desk.capsule) :
            whom \in WhomOf(desk.capsule)' /\ Answered(desk.capsule, whom)' = Answered(desk.capsule, whom)
      BY DEF WhomOf, FreshIds, Answered, policy
    <2> QED
      BY <2>1 DEF CasesInv, AnswerOK
  <1> QED
    BY <1>1, <1>2, <1>3 DEF CasesInv

LEMMA NextCases == CasesInv /\ [Next]_vars => CasesInv'
  <1> SUFFICES ASSUME CasesInv, [Next]_vars PROVE CasesInv'
    OBVIOUS
  <1>1. CASE OpenMarking
    BY <1>1, OpenKeeps
  <1>2. CASE Add \/ Exclude \/ Merge \/ Split \/ Judge
    <2>1. Editing
      BY <1>2 DEF Add, Exclude, Merge, Split, Judge
    <2>2. WorkedOn
      BY <1>2, EditWorks DEF CasesInv
    <2> QED
      BY <2>1, <2>2, WorkedOnKeeps
  <1>3. CASE PublishMarks \/ PublishCases \/ AcceptResolution \/ ResolveAnew
    BY <1>3, PhaseKeeps
  <1>4. CASE Finalise
    BY <1>4, FinaliseKeeps
  <1>5. CASE Suggest
    BY <1>5, OtherKeeps DEF Suggest
  <1>6. CASE UNCHANGED vars
    BY <1>6, OtherKeeps DEF vars
  <1> QED
    BY <1>1, <1>2, <1>3, <1>4, <1>5, <1>6 DEF Next

(* The invariant of the work on one record after the other: manual_work.py,*)
(* finalisation.py choose and stable_pseudonymisation.py allocate keep a   *)
(* desk that holds a capsule and a register whose numbers stand.           *)
THEOREM CasesInvariant == Spec => []CasesInv
  <1> QED
    BY InitCases, NextCases, PTL DEF Spec

(* Any answer for settled groups is a resolution, one that fits is not     *)
(* refused when numbers are given, and who is offered for a surface is     *)
(* whoever it was finally taken for, and nobody else.                      *)
THEOREM RegisterAlwaysServes == Spec => []RegisterServes
  <1>1. CasesInv => RegisterServes
    <2> SUFFICES ASSUME CasesInv PROVE RegisterServes
      OBVIOUS
    <2>1. CandidatesAreRemembered
      BY DEF CasesInv, SaidOK, SaidFor, CandidatesAreRemembered
    <2>2. ASSUME desk.phase = "resolve", NEW whom \in WhomOf(desk.capsule)
          PROVE  LET assigned == Answered(desk.capsule, whom)
                 IN  /\ ValidResolution(Source, policy, desk.capsule, assigned, register)
                     /\ Fits(register, assigned) => MayAllocate(Source, policy, desk.capsule, assigned, register)
      <3> DEFINE assigned == Answered(desk.capsule, whom)
      <3>1. /\ IsFiniteSet(desk.capsule.groups)
            /\ Valid(Source, policy, desk.capsule) /\ OpenGroups(desk.capsule) = {}
        BY <2>2, NoDeskPhase DEF CasesInv, DeskOK, ResolveOK, CapsuleOK
      <3>2. PICK k \in Nat : DOMAIN register.entities = 1..k
        BY DEF CasesInv, RegisterOK
      <3>3. /\ ValidResolution(Source, policy, desk.capsule, assigned, register)
            /\ \E n \in Nat : DOMAIN register.entities \cup EntitiesOf(assigned) = 1..n
        BY <2>2, <3>1, <3>2, AnswerIsSound
      <3>4. PICK n \in Nat : DOMAIN register.entities \cup EntitiesOf(assigned) = 1..n
        BY <3>3
      <3> HIDE DEF assigned
      <3>5. EntitiesOf(assigned) \subseteq 1..n
        BY <3>4
      <3>6. IsRegister(register) /\ NumbersStand(register) /\ AliasesStand(register)
        BY DEF CasesInv, RegisterOK
      <3>7. /\ NumbersStand(Allocated(Source, register, assigned))
            /\ AliasesStand(Allocated(Source, register, assigned))
        BY <3>5, <3>6, AllocatedStands, Zenon DEF Enlarged
      <3>8. ValidRegister(register) /\ ValidRegister(Allocated(Source, register, assigned))
        BY <3>6, <3>7, ValidWhenStands
      <3> QED
        BY <3>3, <3>8 DEF MayAllocate, assigned
    <2>3. AnswersStand
      BY <2>2 DEF AnswersStand
    <2> QED
      BY <2>1, <2>3 DEF RegisterServes
  <1> QED
    BY <1>1, CasesInvariant, PTL

(* What counts as settled was settled as it is by a human who merged,      *)
(* split or judged: no other step settles a group or changes one.          *)
THEOREM SettledOnlyByHand == Spec => SettledByHand
  <1> DEFINE Other == desk'.phase \in {"mark", "cases"} /\ ~(Merge \/ Split \/ Judge)
  <1>1. CasesInv /\ Next /\ Other => Settled' \subseteq Settled
    <2> SUFFICES ASSUME CasesInv, Next, Other PROVE Settled' \subseteq Settled
      OBVIOUS
    <2>1. Settled' = SettledOf(desk.capsule)'
      BY DEF Settled, Editing, SettledOf
    <2>2. Editing => Settled = SettledOf(desk.capsule)
      BY DEF Settled, SettledOf
    <2>3. CASE OpenMarking
      <3>1. desk'.capsule.groups = {}
        BY <2>3, OpenKeeps
      <3> QED
        BY <2>1, <3>1 DEF SettledOf
    <2>4. CASE Add
      <3>1. PICK new, old : Take(Added(desk.phase, desk.capsule, new, old))
        BY <2>4 DEF Add
      <3>2. Editing /\ CapsuleOK(desk.capsule)
        BY <2>4, EditingDesk DEF Add, CasesInv
      <3>3. /\ CapsuleOK(Added(desk.phase, desk.capsule, new, old))
            /\ SettledOf(Added(desk.phase, desk.capsule, new, old)) \subseteq SettledOf(desk.capsule)
        BY <3>2, AddedKeeps
      <3>4. desk'.capsule = Added(desk.phase, desk.capsule, new, old)
        BY <3>1, <3>3, TakeWorks DEF CasesInv
      <3> QED
        BY <2>1, <2>2, <3>2, <3>3, <3>4 DEF SettledOf, OpenGroups
    <2>5. CASE Exclude
      <3>1. PICK mark : Take(Excluded(desk.phase, desk.capsule, mark))
        BY <2>5 DEF Exclude
      <3>2. Editing /\ CapsuleOK(desk.capsule)
        BY <2>5, EditingDesk DEF Exclude, CasesInv
      <3>3. /\ CapsuleOK(Excluded(desk.phase, desk.capsule, mark))
            /\ SettledOf(Excluded(desk.phase, desk.capsule, mark)) \subseteq SettledOf(desk.capsule)
        BY <3>2, ExcludedKeeps
      <3>4. desk'.capsule = Excluded(desk.phase, desk.capsule, mark)
        BY <3>1, <3>3, TakeWorks DEF CasesInv
      <3> QED
        BY <2>1, <2>2, <3>2, <3>3, <3>4 DEF SettledOf, OpenGroups
    <2>6. CASE PublishMarks
      <3>1. Editing /\ desk'.capsule = desk.capsule
        BY <2>6, PhaseKeeps DEF Editing, PublishMarks
      <3> QED
        BY <2>1, <2>2, <3>1 DEF SettledOf, OpenGroups
    <2>7. CASE PublishCases \/ AcceptResolution \/ Finalise \/ ResolveAnew
      <3>1. CASE Finalise
        BY <3>1, NoDeskPhase DEF Finalise
      <3>2. CASE PublishCases \/ AcceptResolution \/ ResolveAnew
        <4>1. DOMAIN desk = DeskFields
          BY <3>2, NoDeskPhase DEF CasesInv, DeskOK, PublishCases, AcceptResolution, ResolveAnew
        <4>2. desk'.phase \in {"resolve", "resolved"}
          BY <3>2, <4>1 DEF PublishCases, AcceptResolution, ResolveAnew, DeskFields
        <4> QED
          BY <4>2
      <3> QED
        BY <2>7, <3>1, <3>2
    <2>8. CASE Suggest
      BY <2>8 DEF Suggest, Settled, Editing, OpenGroups
    <2> QED
      BY <2>3, <2>4, <2>5, <2>6, <2>7, <2>8 DEF Next
  <1>2. CasesInv /\ [Next]_vars => [Other => Settled' \subseteq Settled]_vars
    BY <1>1
  <1> QED
    BY <1>2, CasesInvariant, PTL DEF Spec, SettledByHand

-----------------------------------------------------------------------------
(* The order of marks: there is one, it has every mark once, and in it the *)
(* comparison of neighbours sees every two marks that share a character.   *)

IsMark(m) == m.cue \in Nat /\ m.start \in Nat /\ m.end \in Nat

AreMarks(marks) == IsFiniteSet(marks) /\ \A m \in marks : IsMark(m)

LEMMA FirstMark ==
    ASSUME NEW marks, marks # {}, \A m \in marks : IsMark(m)
    PROVE  \E m \in marks : \A x \in marks : ~Earlier(x, m)
  <1>1. PICK c \in marks : \A x \in marks : c.cue <= x.cue
    <2> DEFINE S == {x.cue : x \in marks}
    <2>1. S \subseteq Nat /\ S # {}
      BY DEF IsMark
    <2>2. PICK n \in S : \A k \in S : n <= k
      BY <2>1, LeastExists
    <2> QED
      BY <2>2
  <1> DEFINE inCue == {x \in marks : x.cue = c.cue}
  <1>2. PICK s \in inCue : \A x \in inCue : s.start <= x.start
    <2> DEFINE S == {x.start : x \in inCue}
    <2>1. S \subseteq Nat /\ S # {}
      BY DEF IsMark
    <2>2. PICK n \in S : \A k \in S : n <= k
      BY <2>1, LeastExists
    <2> QED
      BY <2>2
  <1> DEFINE atStart == {x \in inCue : x.start = s.start}
  <1>3. PICK m \in atStart : \A x \in atStart : m.end <= x.end
    <2> DEFINE S == {x.end : x \in atStart}
    <2>1. S \subseteq Nat /\ S # {}
      BY DEF IsMark
    <2>2. PICK n \in S : \A k \in S : n <= k
      BY <2>1, LeastExists
    <2> QED
      BY <2>2
  <1>4. m \in marks /\ m.cue = c.cue /\ m.start = s.start
    BY <1>3
  <1>5. ASSUME NEW x \in marks PROVE ~Earlier(x, m)
    <2>1. IsMark(x) /\ IsMark(m) /\ c.cue <= x.cue
      BY <1>1, <1>4
    <2>2. x.cue = m.cue => m.start <= x.start
      BY <1>2, <1>4
    <2>3. x.cue = m.cue /\ x.start = m.start => m.end <= x.end
      BY <1>3, <1>4
    <2> QED
      BY <1>4, <2>1, <2>2, <2>3 DEF Earlier, IsMark
  <1> QED
    BY <1>4, <1>5

LEMMA OrderExists ==
    ASSUME NEW marks, AreMarks(marks)
    PROVE  \E order \in SetToSeqs(marks) : Sorted(order)
  <1> DEFINE N == Cardinality(marks)
             HasOrder(T) == \E order \in SetToSeqs(T) : Sorted(order)
             S == {k \in 0..N : \A T \in SUBSET marks : Cardinality(T) = k => HasOrder(T)}
  <1>1. N \in Nat
    BY FS_CardinalityType DEF AreMarks
  <1>2. \A T \in SUBSET marks : IsFiniteSet(T) /\ Cardinality(T) \in 0..N
    BY <1>1, FS_Subset, FS_CardinalityType DEF AreMarks
  <1>3. 0 \in S
    <2>1. ASSUME NEW T \in SUBSET marks, Cardinality(T) = 0 PROVE HasOrder(T)
      <3>1. T = {} /\ Cardinality({}) = 0
        BY <1>2, <2>1, FS_EmptySet
      <3>2. << >> \in SetToSeqs({})
        BY <3>1 DEF SetToSeqs
      <3>3. Sorted(<< >>)
        BY DEF Sorted
      <3> QED
        BY <3>1, <3>2, <3>3
    <2> QED
      BY <1>1, <2>1
  <1>4. ASSUME NEW k \in 0..(N - 1), k \in S PROVE k + 1 \in S
    <2> SUFFICES ASSUME NEW T \in SUBSET marks, Cardinality(T) = k + 1 PROVE HasOrder(T)
      BY <1>1
    <2>1. IsFiniteSet(T) /\ T # {}
      BY <1>2, FS_EmptySet
    <2>2. PICK m \in T : \A x \in T : ~Earlier(x, m)
      BY <2>1, FirstMark DEF AreMarks
    <2>3. Cardinality(T \ {m}) = k /\ T \ {m} \in SUBSET marks
      BY <2>1, <2>2, FS_RemoveElement
    <2>4. PICK order \in SetToSeqs(T \ {m}) : Sorted(order)
      BY <1>4, <2>3
    <2>5. /\ order \in [1..k -> T \ {m}]
          /\ \A i, j \in 1..k : i # j => order[i] # order[j]
          /\ \A i, j \in 1..k : i < j => ~Earlier(order[j], order[i])
      BY <2>3, <2>4 DEF SetToSeqs, Sorted
    <2> DEFINE new == [i \in 1..(k + 1) |-> IF i = 1 THEN m ELSE order[i - 1]]
    <2>6. \A i \in 1..(k + 1) : new[i] = IF i = 1 THEN m ELSE order[i - 1]
      OBVIOUS
    <2>7. \A i \in 1..(k + 1) : i # 1 => i - 1 \in 1..k
      OBVIOUS
    <2>8. new \in [1..(k + 1) -> T]
      BY <2>2, <2>5, <2>7
    <2>9. DOMAIN new = 1..(k + 1)
      OBVIOUS
    <2> HIDE DEF new
    <2>10. ASSUME NEW i \in 1..(k + 1), NEW j \in 1..(k + 1), i < j
           PROVE  new[i] # new[j] /\ ~Earlier(new[j], new[i])
      <3>1. j # 1 /\ j - 1 \in 1..k /\ new[j] = order[j - 1]
        BY <2>6, <2>10
      <3>2. order[j - 1] \in T \ {m}
        BY <2>5, <3>1
      <3>3. CASE i = 1
        BY <2>2, <2>6, <3>1, <3>2, <3>3
      <3>4. CASE i # 1
        <4>1. i - 1 \in 1..k /\ new[i] = order[i - 1] /\ i - 1 < j - 1 /\ i - 1 # j - 1
          BY <2>6, <2>10, <3>4
        <4> QED
          BY <2>5, <3>1, <4>1
      <3> QED
        BY <3>3, <3>4
    <2>11. \A i, j \in 1..(k + 1) : i # j => new[i] # new[j]
      <3> TAKE i, j \in 1..(k + 1)
      <3>1. i # j => i < j \/ j < i
        OBVIOUS
      <3> QED
        BY <2>10, <3>1
    <2>12. new \in SetToSeqs(T)
      BY <2>8, <2>11 DEF SetToSeqs
    <2>13. Sorted(new)
      BY <2>9, <2>10 DEF Sorted
    <2> QED
      BY <2>12, <2>13
  <1> HIDE DEF S
  <1>5. N \in S
    BY <1>1, <1>3, <1>4, UpTo
  <1> QED
    BY <1>5 DEF S

LEMMA OrderIs ==
    ASSUME NEW marks, AreMarks(marks)
    PROVE  /\ Len(InOrder(marks)) \in Nat
           /\ InOrder(marks) \in [1..Len(InOrder(marks)) -> marks]
           /\ \A i, j \in 1..Len(InOrder(marks)) : i # j => InOrder(marks)[i] # InOrder(marks)[j]
           /\ \A m \in marks : \E i \in 1..Len(InOrder(marks)) : InOrder(marks)[i] = m
           /\ Sorted(InOrder(marks))
  <1> DEFINE N == Cardinality(marks)
  <1>1. N \in Nat /\ IsFiniteSet(marks)
    BY FS_CardinalityType DEF AreMarks
  <1>2. InOrder(marks) \in SetToSeqs(marks) /\ Sorted(InOrder(marks))
    BY OrderExists DEF InOrder
  <1>3. /\ InOrder(marks) \in [1..N -> marks]
        /\ \A i, j \in 1..N : i # j => InOrder(marks)[i] # InOrder(marks)[j]
    BY <1>2 DEF SetToSeqs
  <1>4. Len(InOrder(marks)) = N
    BY <1>1, <1>3, LenProperties, IsASeq
  <1>5. InOrder(marks) \in Injection(1..N, marks)
    BY <1>3 DEF Injection, IsInjective
  <1>6. Cardinality(1..N) = N
    BY <1>1, FS_Interval
  <1>7. InOrder(marks) \in Surjection(1..N, marks)
    BY <1>1, <1>5, <1>6, FS_Injection
  <1>8. \A m \in marks : \E i \in 1..N : InOrder(marks)[i] = m
    BY <1>7 DEF Surjection
  <1> QED
    BY <1>1, <1>2, <1>3, <1>4, <1>8

LEMMA NeighboursSuffice ==
    ASSUME NEW marks, AreMarks(marks), \A m \in marks : m.start < m.end
    PROVE  RefuseOverlaps(marks) <=> Apart(marks)
  <1> DEFINE order == InOrder(marks)
             n == Len(order)
  <1>1. /\ n \in Nat /\ order \in [1..n -> marks]
        /\ \A i, j \in 1..n : i # j => order[i] # order[j]
        /\ \A m \in marks : \E i \in 1..n : order[i] = m
        /\ \A i, j \in 1..n : i < j => ~Earlier(order[j], order[i])
    BY OrderIs DEF Sorted
  <1>2. RefuseOverlaps(marks) <=>
            \A i \in 1..(n - 1) : order[i].cue = order[i + 1].cue => order[i].end <= order[i + 1].start
    BY DEF RefuseOverlaps
  <1> HIDE DEF order, n
  <1>3. \A i \in 1..n : /\ order[i] \in marks /\ IsMark(order[i]) /\ order[i].start < order[i].end
    BY <1>1 DEF AreMarks
  <1>4. \A i, j \in 1..n : i < j => /\ order[i].cue <= order[j].cue
                                    /\ order[i].cue = order[j].cue => order[i].start <= order[j].start
    BY <1>1, <1>3 DEF Earlier, IsMark
  <1>5. ASSUME RefuseOverlaps(marks) PROVE Apart(marks)
    <2> DEFINE After(i, d) == /\ i + 1 + d <= n /\ order[i].cue = order[i + 1 + d].cue
                              /\ ~(order[i].end <= order[i + 1 + d].start)
               D == {d \in Nat : \E i \in 1..n : After(i, d)}
    <2>1. D = {}
      <3> SUFFICES ASSUME D # {} PROVE FALSE
        OBVIOUS
      <3>1. PICK d \in D : \A e \in D : d <= e
        BY LeastExists
      <3>2. PICK i \in 1..n : After(i, d)
        BY <3>1
      <3>3. d # 0
        BY <1>1, <1>2, <1>5, <3>2
      <3>4. /\ d - 1 \in Nat /\ i + d \in 1..n /\ i + 1 + d \in 1..n /\ i + 1 + (d - 1) = i + d
            /\ i < i + d /\ i + d < i + 1 + d /\ i + d \in 1..(n - 1) /\ (i + d) + 1 = i + 1 + d
        BY <1>1, <3>1, <3>2, <3>3
      <3>5. order[i].cue = order[i + d].cue /\ order[i + d].cue = order[i + 1 + d].cue
        <4>1. order[i].cue <= order[i + d].cue /\ order[i + d].cue <= order[i + 1 + d].cue
          BY <1>4, <3>4
        <4> QED
          BY <1>3, <3>2, <3>4, <4>1 DEF IsMark
      <3>6. order[i + d].end <= order[i + 1 + d].start
        BY <1>2, <1>5, <3>4, <3>5
      <3>7. ~(d - 1 \in D)
        BY <3>1
      <3>8. order[i].end <= order[i + d].start
        <4>1. ~After(i, d - 1)
          BY <3>4, <3>7
        <4> QED
          BY <3>4, <3>5, <4>1
      <3>9. order[i].end <= order[i + 1 + d].start
        BY <1>3, <3>4, <3>6, <3>8 DEF IsMark
      <3> QED
        BY <3>2, <3>9
    <2>2. ASSUME NEW i \in 1..n, NEW j \in 1..n, i < j, order[i].cue = order[j].cue
          PROVE  order[i].end <= order[j].start
      <3>1. j - i - 1 \in Nat /\ i + 1 + (j - i - 1) = j /\ j <= n
        BY <1>1, <2>2
      <3>2. ~After(i, j - i - 1)
        BY <2>1, <3>1
      <3> QED
        BY <2>2, <3>1, <3>2
    <2>3. ASSUME NEW i \in 1..n, NEW j \in 1..n, i < j
          PROVE  Cells(order[i]) \cap Cells(order[j]) = {}
      <3> SUFFICES ASSUME NEW x \in order[i].start..(order[i].end - 1), NEW y \in order[j].start..(order[j].end - 1),
                          <<order[i].cue, x>> = <<order[j].cue, y>>
                   PROVE  FALSE
        BY DEF Cells
      <3>1. order[i].end <= order[j].start
        BY <2>2, <2>3
      <3> QED
        BY <1>3, <3>1 DEF IsMark
    <2>4. ASSUME NEW a \in marks, NEW b \in marks, a # b PROVE Cells(a) \cap Cells(b) = {}
      <3>1. PICK i \in 1..n : order[i] = a
        BY <1>1
      <3>2. PICK j \in 1..n : order[j] = b
        BY <1>1
      <3>3. i < j \/ j < i
        BY <2>4, <3>1, <3>2
      <3> QED
        BY <2>3, <3>1, <3>2, <3>3
    <2> QED
      BY <2>4 DEF Apart
  <1>6. ASSUME Apart(marks) PROVE RefuseOverlaps(marks)
    <2> SUFFICES ASSUME NEW i \in 1..(n - 1), order[i].cue = order[i + 1].cue
                 PROVE  order[i].end <= order[i + 1].start
      BY <1>2
    <2>1. i \in 1..n /\ i + 1 \in 1..n /\ i < i + 1 /\ i # i + 1
      BY <1>1
    <2>2. Cells(order[i]) \cap Cells(order[i + 1]) = {}
      BY <1>1, <1>3, <1>6, <2>1 DEF Apart
    <2>3. /\ IsMark(order[i]) /\ IsMark(order[i + 1]) /\ order[i].start <= order[i + 1].start
          /\ order[i + 1].start < order[i + 1].end
      BY <1>3, <1>4, <2>1
    <2>4. <<order[i + 1].cue, order[i + 1].start>> \in Cells(order[i + 1])
      BY <2>3 DEF Cells, IsMark
    <2>5. ~(order[i].end <= order[i + 1].start) => <<order[i].cue, order[i + 1].start>> \in Cells(order[i])
      BY <2>3 DEF Cells, IsMark
    <2> QED
      BY <2>2, <2>4, <2>5
  <1> QED
    BY <1>5, <1>6

LEMMA BoundIs ==
    ASSUME NEW text, NEW marks, AreMarks(marks)
    PROVE  Bound(text, marks) <=> (\A m \in marks : InRange(text, m)) /\ Apart(marks)
  BY NeighboursSuffice DEF Bound, InRange

-----------------------------------------------------------------------------
(* Folds over a sequence: the fold is the walk that takes one element      *)
(* after the other.  The folds of the modules are told apart by a name,    *)
(* given for what is the same in all steps.                                *)

Folded(fold, at, x) ==
    CASE fold.name = "replay" -> Amended(fold.text, at, x)
      [] fold.name = "render" -> Rendered(fold.text, fold.reg, fold.assigned, at, x)
      [] fold.name = "draft" ->
            Replaced(at, x, Replacement(fold.text, fold.policy[x.type], x, DraftLabel(fold.groups, x)))
      [] fold.name = "outside" -> IF x - 1 \in fold.cells THEN at ELSE Append(at, fold.segment[x])
      [] fold.name = "length" -> at + Len(x) + 1
      [] fold.name = "evidence" -> Retaken(fold.text, fold.blocks, fold.requests, at, x)

(* The walk over the elements at some places. *)
Walk(f, fold, start, seq, some) ==
    /\ DOMAIN f = 0..Len(seq) /\ f[0] = start
    /\ \A n \in 1..Len(seq) : f[n] = IF n \in some THEN Folded(fold, f[n - 1], seq[n]) ELSE f[n - 1]

LEMMA WalkExists ==
    ASSUME NEW fold, NEW start, NEW seq, Len(seq) \in Nat, NEW some
    PROVE  \E f : Walk(f, fold, start, seq, some)
  <1> DEFINE N == Len(seq)
             Step(at, n) == IF n \in some THEN Folded(fold, at, seq[n]) ELSE at
             Upto(k) == \E f : DOMAIN f = 0..k /\ f[0] = start /\ \A n \in 1..k : f[n] = Step(f[n - 1], n)
             S == {k \in 0..N : Upto(k)}
  <1>1. 0 \in S
    <2> DEFINE f == [n \in 0..0 |-> start]
    <2>1. DOMAIN f = 0..0 /\ f[0] = start /\ \A n \in 1..0 : f[n] = Step(f[n - 1], n)
      OBVIOUS
    <2> HIDE DEF f, Step
    <2> QED
      BY <2>1
  <1> HIDE DEF Step
  <1>2. ASSUME NEW k \in 0..(N - 1), k \in S PROVE k + 1 \in S
    <2>1. PICK f : DOMAIN f = 0..k /\ f[0] = start /\ \A n \in 1..k : f[n] = Step(f[n - 1], n)
      BY <1>2
    <2> DEFINE g == [n \in 0..(k + 1) |-> IF n = k + 1 THEN Step(f[k], k + 1) ELSE f[n]]
    <2>2. DOMAIN g = 0..(k + 1) /\ g[0] = start
      BY <2>1
    <2>3. ASSUME NEW n \in 1..(k + 1) PROVE g[n] = Step(g[n - 1], n)
      <3>1. CASE n \in 1..k
        <4>1. g[n] = f[n] /\ g[n - 1] = f[n - 1]
          BY <3>1
        <4> QED
          BY <3>1, <4>1, <2>1
      <3>2. CASE n = k + 1
        <4>1. g[n] = Step(f[k], n) /\ g[n - 1] = f[k]
          BY <3>2
        <4> QED
          BY <4>1
      <3> QED
        BY <3>1, <3>2
    <2> HIDE DEF g
    <2>4. Upto(k + 1)
      BY <2>2, <2>3
    <2>5. k + 1 \in 0..N
      OBVIOUS
    <2> QED
      BY <2>4, <2>5
  <1> HIDE DEF S, N
  <1>3. N \in Nat
    BY DEF N
  <1>4. 0..N \subseteq S
    BY <1>1, <1>2, <1>3, UpTo, Zenon
  <1>5. N \in S
    BY <1>3, <1>4
  <1> QED
    BY <1>5 DEF S, Walk, Step, N

(* Two walks that take the same elements up to a place agree up to there,  *)
(* and one that takes none after a place ends as it was there.             *)
LEMMA WalksAgree ==
    ASSUME NEW fold, NEW start, NEW seq, NEW other, NEW some, NEW others, NEW f, NEW g,
           Len(seq) \in Nat, Len(other) \in Nat,
           Walk(f, fold, start, seq, some), Walk(g, fold, start, other, others),
           NEW K \in Nat, K <= Len(seq), K <= Len(other),
           \A n \in 1..K : (n \in some <=> n \in others) /\ seq[n] = other[n]
    PROVE  f[K] = g[K]
  <1> DEFINE S == {k \in 0..K : f[k] = g[k]}
  <1>1. 0 \in S
    <2>1. f[0] = g[0]
      BY Zenon DEF Walk
    <2> QED
      BY <2>1
  <1>2. ASSUME NEW k \in 0..(K - 1), k \in S PROVE k + 1 \in S
    <2>1. k + 1 \in 1..K /\ k + 1 \in 1..Len(seq) /\ k + 1 \in 1..Len(other) /\ (k + 1) - 1 = k
      OBVIOUS
    <2>2. f[k + 1] = IF k + 1 \in some THEN Folded(fold, f[k], seq[k + 1]) ELSE f[k]
      BY <2>1 DEF Walk
    <2>3. g[k + 1] = IF k + 1 \in others THEN Folded(fold, g[k], other[k + 1]) ELSE g[k]
      BY <2>1 DEF Walk
    <2>4. f[k + 1] = g[k + 1]
      BY <1>2, <2>1, <2>2, <2>3
    <2> QED
      BY <2>1, <2>4
  <1> HIDE DEF S
  <1>3. 0..K \subseteq S
    BY <1>1, <1>2, UpTo, Zenon
  <1>4. K \in S
    BY <1>3
  <1> QED
    BY <1>4 DEF S

LEMMA LongerWalk ==
    ASSUME NEW fold, NEW start, NEW seq, NEW other, NEW f, NEW g, NEW N \in Nat,
           Len(seq) = N, Len(other) = N + 1,
           Walk(f, fold, start, seq, 1..N), Walk(g, fold, start, other, 1..(N + 1)),
           \A n \in 1..N : seq[n] = other[n]
    PROVE  g[N + 1] = Folded(fold, f[N], other[N + 1])
  <1> DEFINE some == 1..N
             others == 1..(N + 1)
  <1>1. \A n \in 1..N : (n \in some <=> n \in others) /\ seq[n] = other[n]
    OBVIOUS
  <1>2. /\ Len(seq) \in Nat /\ Len(other) \in Nat /\ N <= Len(seq) /\ N <= Len(other)
        /\ Walk(f, fold, start, seq, some) /\ Walk(g, fold, start, other, others)
    OBVIOUS
  <1>3. N + 1 \in others /\ N + 1 \in 1..Len(other) /\ (N + 1) - 1 = N
    OBVIOUS
  <1> HIDE DEF some, others
  <1>4. f[N] = g[N]
    BY <1>1, <1>2, WalksAgree
  <1>5. g[N + 1] = Folded(fold, g[N], other[N + 1])
    BY <1>2, <1>3 DEF Walk
  <1> QED
    BY <1>4, <1>5

LEMMA WalkRests ==
    ASSUME NEW fold, NEW start, NEW seq, NEW some, NEW f, Len(seq) \in Nat,
           Walk(f, fold, start, seq, some),
           NEW K \in 0..Len(seq), \A n \in (K + 1)..Len(seq) : n \notin some
    PROVE  f[Len(seq)] = f[K]
  <1> DEFINE N == Len(seq) - K
             S == {k \in 0..N : f[K + k] = f[K]}
  <1>1. N \in Nat /\ 0 \in S
    OBVIOUS
  <1>2. ASSUME NEW k \in 0..(N - 1), k \in S PROVE k + 1 \in S
    <2>1. K + (k + 1) \in (K + 1)..Len(seq) /\ K + (k + 1) \in 1..Len(seq) /\ K + (k + 1) - 1 = K + k
      OBVIOUS
    <2>2. f[K + (k + 1)] = f[K + k]
      BY <2>1 DEF Walk
    <2> QED
      BY <1>2, <2>2
  <1> HIDE DEF S
  <1>3. N \in S
    BY <1>1, <1>2, UpTo
  <1>4. f[K + N] = f[K] /\ K + N = Len(seq)
    BY <1>3 DEF S
  <1> QED
    BY <1>4

(* The library folds over sets of places, the greatest of them last. *)
OverSets(g, fold, start, seq) ==
    /\ DOMAIN g = SUBSET (1..Len(seq))
    /\ \A s \in SUBSET (1..Len(seq)) :
          g[s] = IF s = {} THEN start ELSE Folded(fold, g[s \ {Max(s)}], seq[Max(s)])

IsTable(g, S) == g = [s \in S |-> g[s]]

LEMMA OverSetsExists ==
    ASSUME NEW fold, NEW start, NEW seq, Len(seq) \in Nat
    PROVE  \E g : OverSets(g, fold, start, seq) /\ IsTable(g, SUBSET (1..Len(seq)))
  <1> DEFINE N == Len(seq)
             w(s) == CHOOSE h : Walk(h, fold, start, seq, s)
             g == [s \in SUBSET (1..N) |-> w(s)[N]]
  <1>1. \A s : Walk(w(s), fold, start, seq, s)
    BY WalkExists
  <1> HIDE DEF w
  <1>2. ASSUME NEW s \in SUBSET (1..N)
        PROVE  g[s] = IF s = {} THEN start ELSE Folded(fold, g[s \ {Max(s)}], seq[Max(s)])
    <2>1. CASE s = {}
      <3>1. Walk(w(s), fold, start, seq, s) /\ 0 \in 0..N /\ \A n \in (0 + 1)..N : n \notin s
        BY <1>1, <2>1
      <3>2. w(s)[N] = w(s)[0]
        BY <3>1, WalkRests
      <3>3. w(s)[0] = start
        BY <3>1, Zenon DEF Walk
      <3> QED
        BY <2>1, <3>2, <3>3
    <2>2. CASE s # {}
      <3> DEFINE x == Max(s)
      <3>1. x \in s /\ \A y \in s : x >= y
        <4>1. s \in SUBSET (0..N)
          OBVIOUS
        <4> QED
          BY <2>2, <4>1, MaxIsGreatest
      <3> HIDE DEF x
      <3>2. x \in 1..N /\ x \in 0..N /\ x - 1 \in 0..N /\ x - 1 \in Nat /\ x - 1 <= N
        BY <3>1
      <3>3. w(s)[N] = w(s)[x]
        <4>1. \A n \in (x + 1)..N : n \notin s
          BY <3>1, <3>2
        <4> QED
          BY <1>1, <3>2, <4>1, WalkRests
      <3>4. w(s)[x] = Folded(fold, w(s)[x - 1], seq[x])
        BY <1>1, <3>1, <3>2 DEF Walk
      <3>5. w(s \ {x})[N] = w(s \ {x})[x - 1]
        <4>1. \A n \in ((x - 1) + 1)..N : n \notin s \ {x}
          BY <3>1, <3>2
        <4> QED
          BY <1>1, <3>2, <4>1, WalkRests
      <3>6. w(s)[x - 1] = w(s \ {x})[x - 1]
        <4>1. \A n \in 1..(x - 1) : n \in s <=> n \in s \ {x}
          BY <3>2
        <4> QED
          BY <1>1, <3>2, <4>1, WalksAgree
      <3>7. g[s] = w(s)[N] /\ g[s \ {x}] = w(s \ {x})[N]
        OBVIOUS
      <3>8. g[s] = Folded(fold, g[s \ {x}], seq[x])
        BY <3>3, <3>4, <3>5, <3>6, <3>7
      <3> QED
        BY <2>2, <3>8 DEF x
    <2> QED
      BY <2>1, <2>2
  <1>3. DOMAIN g = SUBSET (1..N)
    BY Zenon
  <1>4. g = [s \in SUBSET (1..N) |-> g[s]]
    BY Zenon
  <1> HIDE DEF g
  <1> QED
    BY <1>2, <1>3, <1>4, Zenon DEF OverSets, IsTable

LEMMA OverSetsIs ==
    ASSUME NEW fold, NEW start, NEW seq, Len(seq) \in Nat, NEW g, OverSets(g, fold, start, seq),
           NEW f, Walk(f, fold, start, seq, 1..Len(seq))
    PROVE  g[1..Len(seq)] = f[Len(seq)]
  <1> DEFINE N == Len(seq)
             S == {k \in 0..N : g[1..k] = f[k]}
  <1>1. /\ g[{}] = start
        /\ \A s \in SUBSET (1..N) : s # {} => g[s] = Folded(fold, g[s \ {Max(s)}], seq[Max(s)])
    BY DEF OverSets
  <1>2. 0 \in S
    <2>1. 1..0 = {} /\ 0 \in 0..N
      OBVIOUS
    <2>2. f[0] = start
      BY Zenon DEF Walk
    <2>3. g[1..0] = f[0]
      BY <1>1, <2>1, <2>2, Zenon
    <2> QED
      BY <2>1, <2>3
  <1>3. ASSUME NEW k \in 0..(N - 1), k \in S PROVE k + 1 \in S
    <2> DEFINE s == 1..(k + 1)
    <2>1. s \in SUBSET (1..N) /\ s # {} /\ s \in SUBSET (0..N) /\ k + 1 \in s /\ \A y \in s : k + 1 >= y
      <3>1. k \in Nat /\ N \in Nat /\ k + 1 <= N
        OBVIOUS
      <3> HIDE DEF N
      <3>2. \A y \in s : y \in 1..N /\ y \in 0..N /\ k + 1 >= y
        BY <3>1
      <3>3. k + 1 \in s
        BY <3>1
      <3> HIDE DEF s
      <3> QED
        BY <3>2, <3>3
    <2>2. Max(s) = k + 1
      <3>1. Max(s) \in s /\ Max(s) >= k + 1
        BY <2>1, MaxIsGreatest
      <3> QED
        BY <3>1
    <2>3. s \ {k + 1} = 1..k
      OBVIOUS
    <2>4. g[s] = Folded(fold, g[1..k], seq[k + 1])
      BY <1>1, <2>1, <2>2, <2>3
    <2>5. f[k + 1] = Folded(fold, f[k], seq[k + 1])
      <3>1. k + 1 \in 1..N /\ (k + 1) - 1 = k
        OBVIOUS
      <3> QED
        BY <3>1 DEF Walk
    <2>6. k + 1 \in 0..N
      OBVIOUS
    <2> QED
      BY <1>3, <2>4, <2>5, <2>6
  <1> HIDE DEF S
  <1>4. 0..N \subseteq S
    BY <1>2, <1>3, UpTo, Zenon
  <1>5. N \in S
    BY <1>4
  <1> QED
    BY <1>5 DEF S

-----------------------------------------------------------------------------
(* The overlay: a change more is replayed on what the others gave.         *)

Replaying(text) == [name |-> "replay", text |-> text]

Replay(text, base, overlay) ==
    FoldLeft(LAMBDA at, change : Amended(text, at, change), [stands |-> TRUE, marks |-> base], overlay)

LEMMA ReplayIs ==
    ASSUME NEW text, NEW base, NEW overlay, Len(overlay) \in Nat, DOMAIN overlay = 1..Len(overlay), NEW f,
           Walk(f, Replaying(text), [stands |-> TRUE, marks |-> base], overlay, 1..Len(overlay))
    PROVE  Replay(text, base, overlay) = f[Len(overlay)]
  <1> DEFINE places == 1..Len(overlay)
             start == [stands |-> TRUE, marks |-> base]
             Wanted(g) == [s \in SUBSET places |->
                 IF s = {} THEN start ELSE Amended(text, g[s \ {Max(s)}], overlay[Max(s)])]
             iter == CHOOSE g : g = Wanted(g)
  <1>1. Replay(text, base, overlay) = iter[places]
    BY Zenon DEF Replay, FoldLeft, MapThenFoldSet
  <1>2. \A at, change : Folded(Replaying(text), at, change) = Amended(text, at, change)
    BY DEF Folded, Replaying
  <1> HIDE DEF start
  <1>3. PICK g : OverSets(g, Replaying(text), start, overlay) /\ IsTable(g, SUBSET places)
    BY OverSetsExists
  <1>4. g = Wanted(g)
    BY <1>2, <1>3, Zenon DEF OverSets, IsTable
  <1>5. iter = Wanted(iter)
    BY <1>4, Zenon
  <1> HIDE DEF iter
  <1>6. OverSets(iter, Replaying(text), start, overlay)
    BY <1>2, <1>5 DEF OverSets
  <1> QED
    BY <1>1, <1>6, OverSetsIs DEF start

LEMMA ReplayOneMore ==
    ASSUME NEW text, NEW base, NEW T, NEW overlay \in Seq(T), NEW change \in T
    PROVE  Replay(text, base, Append(overlay, change)) = Amended(text, Replay(text, base, overlay), change)
  <1> DEFINE other == Append(overlay, change)
             N == Len(overlay)
             start == [stands |-> TRUE, marks |-> base]
  <1>1. /\ N \in Nat /\ DOMAIN overlay = 1..N /\ Len(overlay) = N
        /\ Len(other) = N + 1 /\ DOMAIN other = 1..(N + 1) /\ Len(other) \in Nat
        /\ other[N + 1] = change /\ \A n \in 1..N : overlay[n] = other[n]
    OBVIOUS
  <1> HIDE DEF other, N, start
  <1>2. PICK f : Walk(f, Replaying(text), start, overlay, 1..N)
    BY <1>1, WalkExists
  <1>3. PICK g : Walk(g, Replaying(text), start, other, 1..(N + 1))
    BY <1>1, WalkExists
  <1>4. Replay(text, base, overlay) = f[N]
    BY <1>1, <1>2, ReplayIs DEF start
  <1>5. Replay(text, base, other) = g[N + 1]
    BY <1>1, <1>3, ReplayIs DEF start
  <1>6. g[N + 1] = Folded(Replaying(text), f[N], other[N + 1])
    BY <1>1, <1>2, <1>3, LongerWalk
  <1> QED
    BY <1>1, <1>4, <1>5, <1>6 DEF other, Folded, Replaying

LEMMA ReplayedIs == \A text, c : Replayed(text, c) = Replay(text, c.base, c.overlay)
  BY Zenon DEF Replayed, Replay

LEMMA ReplayedNothing ==
    ASSUME NEW text, NEW c, c.overlay = << >>
    PROVE  Replayed(text, c) = [stands |-> TRUE, marks |-> c.base]
  <1>1. ASSUME NEW base PROVE Replay(text, base, << >>) = [stands |-> TRUE, marks |-> base]
    <2>1. Len(<< >>) \in Nat /\ Len(<< >>) = 0 /\ DOMAIN << >> = 1..Len(<< >>)
      OBVIOUS
    <2>2. PICK f : Walk(f, Replaying(text), [stands |-> TRUE, marks |-> base], << >>, 1..Len(<< >>))
      BY <2>1, WalkExists, Zenon
    <2>3. Replay(text, base, << >>) = f[0]
      BY <2>1, <2>2, ReplayIs
    <2> QED
      BY <2>2, <2>3, Zenon DEF Walk
  <1> QED
    BY <1>1, ReplayedIs

-----------------------------------------------------------------------------
(* The groups: they part the marks, also when marks go, when one is added, *)
(* when two groups become one and when one is judged.                      *)

GroupsStand(pol, spans, groups) ==
    /\ \A g \in groups :
          /\ g.mentions # {} /\ g.mentions \subseteq spans
          /\ g.type \in DOMAIN pol /\ g.state \in States
          /\ \A m \in g.mentions : m.type = g.type
          /\ \A h \in groups \ {g} : g.mentions \cap h.mentions = {}
    /\ UNION {g.mentions : g \in groups} = spans

LEMMA ValidIs ==
    ASSUME NEW text, NEW pol, NEW c
    PROVE  Valid(text, pol, c) <=>
              /\ Bound(text, c.base) /\ Bound(text, c.spans)
              /\ Replayed(text, c).stands /\ Replayed(text, c).marks = c.spans
              /\ GroupsStand(pol, c.spans, c.groups)
  <1> DEFINE replayed == Replayed(text, c)
  <1>1. Valid(text, pol, c) <=>
          /\ Bound(text, c.base)
          /\ replayed.stands /\ replayed.marks = c.spans
          /\ Bound(text, c.spans)
          /\ GroupsStand(pol, c.spans, c.groups)
    BY Zenon DEF Valid, GroupsStand
  <1> QED
    BY <1>1

LEMMA WithoutStands ==
    ASSUME NEW c, CapsuleOK(c), NEW pol, GroupsStand(pol, c.spans, c.groups), NEW old
    PROVE  /\ DOMAIN Without(c, old) = DOMAIN c
           /\ Without(c, old).base = c.base /\ Without(c, old).overlay = c.overlay
           /\ Without(c, old).spans = c.spans \ old
           /\ GroupsStand(pol, c.spans \ old, Without(c, old).groups)
  <1> DEFINE Shrunk(g) == [g EXCEPT !.mentions = @ \ old, !.state = "OPEN"]
             touched == {g \in c.groups : g.mentions \cap old # {}}
             all == (c.groups \ touched) \cup {g \in {Shrunk(h) : h \in touched} : g.mentions # {}}
             After(g) == IF g \in touched THEN Shrunk(g) ELSE g
  <1>1. Without(c, old) = [c EXCEPT !.spans = @ \ old, !.groups = all]
    BY DEF Without
  <1>2. ASSUME NEW g \in c.groups
        PROVE  /\ After(g).type = g.type /\ After(g).mentions = g.mentions \ old
               /\ After(g).state \in States
    <2>1. IsGroup(g) /\ g.state \in States
      BY DEF CapsuleOK, GroupsStand
    <2>2. CASE g \in touched
      <3>1. Shrunk(g).type = g.type /\ Shrunk(g).mentions = g.mentions \ old /\ Shrunk(g).state = "OPEN"
        BY <2>1 DEF IsGroup
      <3> QED
        BY <2>2, <3>1 DEF States
    <2>3. CASE g \notin touched
      BY <2>1, <2>3
    <2> QED
      BY <2>2, <2>3
  <1>3. ASSUME NEW h \in all PROVE h.mentions # {} /\ \E g \in c.groups : h = After(g)
    <2>1. CASE h \in c.groups \ touched
      BY <2>1 DEF GroupsStand
    <2>2. CASE h \notin c.groups \ touched
      BY <2>2
    <2> QED
      BY <2>1, <2>2
  <1>4. ASSUME NEW g \in c.groups, g.mentions \ old # {} PROVE After(g) \in all
    <2>1. After(g).mentions # {}
      BY <1>2, <1>4
    <2> QED
      BY <2>1
  <1>5. /\ DOMAIN Without(c, old) = DOMAIN c
        /\ Without(c, old).base = c.base /\ Without(c, old).overlay = c.overlay
        /\ Without(c, old).spans = c.spans \ old /\ Without(c, old).groups = all
    <2> HIDE DEF all
    <2> QED
      BY <1>1 DEF CapsuleOK
  <1> HIDE DEF all, After
  <1>6. ASSUME NEW h \in all
        PROVE  /\ h.mentions # {} /\ h.mentions \subseteq c.spans \ old
               /\ h.type \in DOMAIN pol /\ h.state \in States
               /\ \A m \in h.mentions : m.type = h.type
               /\ \A k \in all \ {h} : h.mentions \cap k.mentions = {}
    <2>1. PICK g \in c.groups : h = After(g)
      BY <1>3
    <2>2. h.type = g.type /\ h.mentions = g.mentions \ old /\ h.state \in States
      BY <1>2, <2>1
    <2>3. ASSUME NEW k \in all \ {h} PROVE h.mentions \cap k.mentions = {}
      <3>1. PICK f \in c.groups : k = After(f)
        BY <1>3
      <3>2. f # g /\ k.mentions = f.mentions \ old
        BY <1>2, <2>1, <3>1
      <3> QED
        BY <2>2, <3>2 DEF GroupsStand
    <2> QED
      BY <1>3, <2>2, <2>3 DEF GroupsStand
  <1>7. UNION {h.mentions : h \in all} = c.spans \ old
    <2>1. ASSUME NEW m \in c.spans \ old PROVE \E h \in all : m \in h.mentions
      <3>1. PICK g \in c.groups : m \in g.mentions
        BY DEF GroupsStand
      <3> QED
        BY <1>2, <1>4, <3>1
    <2>2. \A h \in all : h.mentions \subseteq c.spans \ old
      BY <1>6
    <2> QED
      BY <2>1, <2>2
  <1> QED
    BY <1>5, <1>6, <1>7 DEF GroupsStand

LEMMA GroupAdded ==
    ASSUME NEW pol, NEW spans, NEW groups, GroupsStand(pol, spans, groups),
           NEW new, new \notin spans, new.type \in DOMAIN pol
    PROVE  GroupsStand(pol, spans \cup {new}, groups \cup {Group(new.type, {new}, "OPEN")})
  <1> DEFINE group == Group(new.type, {new}, "OPEN")
  <1>1. group.type = new.type /\ group.mentions = {new} /\ group.state \in States
    BY DEF Group, States
  <1> HIDE DEF group
  <1>2. \A g \in groups : new \notin g.mentions
    BY DEF GroupsStand
  <1>3. UNION {g.mentions : g \in groups \cup {group}} = spans \cup {new}
    <2>1. UNION {g.mentions : g \in groups} = spans
      BY DEF GroupsStand
    <2> QED
      BY <1>1, <2>1
  <1>4. ASSUME NEW g \in groups \cup {group}
        PROVE  /\ g.mentions # {} /\ g.mentions \subseteq spans \cup {new}
               /\ g.type \in DOMAIN pol /\ g.state \in States
               /\ \A m \in g.mentions : m.type = g.type
               /\ \A h \in (groups \cup {group}) \ {g} : g.mentions \cap h.mentions = {}
    <2>1. CASE g = group
      BY <1>1, <1>2, <2>1
    <2>2. CASE g \in groups
      BY <1>1, <1>2, <2>2 DEF GroupsStand
    <2> QED
      BY <2>1, <2>2
  <1>5. GroupsStand(pol, spans \cup {new}, groups \cup {group})
    BY <1>3, <1>4 DEF GroupsStand
  <1> QED
    BY <1>5 DEF group

(* One group in place of some, with their mentions and their type. *)
LEMMA GroupReplaces ==
    ASSUME NEW pol, NEW spans, NEW groups, GroupsStand(pol, spans, groups),
           NEW some \in SUBSET groups, NEW group, some # {}, \A g \in some : g.type = group.type,
           group.mentions = UNION {g.mentions : g \in some}, group.state \in States
    PROVE  GroupsStand(pol, spans, (groups \ some) \cup {group})
  <1> DEFINE all == (groups \ some) \cup {group}
  <1>1. PICK one \in some : TRUE
    OBVIOUS
  <1>2. /\ group.mentions # {} /\ group.mentions \subseteq spans /\ group.type \in DOMAIN pol
        /\ \A m \in group.mentions : m.type = group.type
    <2>1. one \in groups /\ one.type = group.type /\ one.mentions # {} /\ one.mentions \subseteq group.mentions
      BY <1>1 DEF GroupsStand
    <2>2. \A m \in group.mentions : \E g \in some : m \in g.mentions
      OBVIOUS
    <2> QED
      BY <2>1, <2>2 DEF GroupsStand
  <1>3. \A h \in groups \ some : h.mentions \cap group.mentions = {}
    <2> SUFFICES ASSUME NEW h \in groups \ some, NEW m \in h.mentions, m \in group.mentions PROVE FALSE
      OBVIOUS
    <2>1. PICK g \in some : m \in g.mentions
      OBVIOUS
    <2>2. g \in groups /\ g # h
      OBVIOUS
    <2> QED
      BY <2>1, <2>2 DEF GroupsStand
  <1>4. ASSUME NEW g \in all
        PROVE  /\ g.mentions # {} /\ g.mentions \subseteq spans
               /\ g.type \in DOMAIN pol /\ g.state \in States
               /\ \A m \in g.mentions : m.type = g.type
               /\ \A h \in all \ {g} : g.mentions \cap h.mentions = {}
    <2>1. CASE g = group
      BY <1>2, <1>3, <2>1
    <2>2. CASE g \in groups \ some
      BY <1>3, <2>2 DEF GroupsStand
    <2> QED
      BY <2>1, <2>2
  <1>5. UNION {g.mentions : g \in all} = spans
    <2>1. UNION {g.mentions : g \in groups} = spans
      BY DEF GroupsStand
    <2>2. ASSUME NEW m \in spans PROVE \E g \in all : m \in g.mentions
      <3>1. PICK g \in groups : m \in g.mentions
        BY <2>1
      <3>2. CASE g \in some
        BY <3>1, <3>2
      <3>3. CASE g \notin some
        BY <3>1, <3>3
      <3> QED
        BY <3>2, <3>3
    <2>3. \A g \in all : g.mentions \subseteq spans
      BY <1>4
    <2> HIDE DEF all
    <2> QED
      BY <2>2, <2>3
  <1> QED
    BY <1>4, <1>5 DEF GroupsStand

-----------------------------------------------------------------------------
(* The edits: each gives a capsule that stands as a whole.                 *)

Changes(places) == [old : SUBSET places, new : SUBSET places]

(* What is known of a capsule that is worked at. *)
WorkStands(text, pol, places, phase, c) ==
    /\ CapsuleOK(c) /\ Valid(text, pol, c)
    /\ c.spans \subseteq places /\ IsFiniteSet(c.spans) /\ \A m \in places : IsMark(m)
    /\ c.overlay \in Seq(Changes(places))
    /\ phase = "mark" => c.overlay = << >>

LEMMA BoundOfFew ==
    ASSUME NEW text
    PROVE  Bound(text, {}) /\ \A m : IsMark(m) /\ InRange(text, m) => Bound(text, {m})
  <1>1. AreMarks({}) /\ Apart({})
    BY FS_EmptySet DEF AreMarks, Apart
  <1>2. Bound(text, {})
    BY <1>1, BoundIs
  <1>3. ASSUME NEW m, IsMark(m), InRange(text, m) PROVE Bound(text, {m})
    <2>1. AreMarks({m}) /\ Apart({m})
      BY <1>3, FS_Singleton DEF AreMarks, Apart
    <2> QED
      BY <1>3, <2>1, BoundIs
  <1> QED
    BY <1>2, <1>3

(* Kept, of a capsule that was changed as the change says. *)
LEMMA KeptStands ==
    ASSUME NEW text, NEW pol, NEW places, NEW phase, NEW c, WorkStands(text, pol, places, phase, c),
           NEW rest, DOMAIN rest = DOMAIN c, rest.base = c.base, rest.overlay = c.overlay,
           NEW change \in Changes(places), rest.spans = (c.spans \ change.old) \cup change.new,
           change.old \cup change.new # {}, change.old \subseteq c.spans,
           change.new \cap (c.spans \ change.old) = {}, Bound(text, change.new),
           GroupsStand(pol, rest.spans, rest.groups), Bound(text, rest.spans)
    PROVE  Valid(text, pol, Kept(phase, rest, change))
  <1> DEFINE kept == Kept(phase, rest, change)
  <1>1. DOMAIN c = {"base", "overlay", "spans", "groups"}
    BY DEF WorkStands, CapsuleOK
  <1>2. CASE phase = "mark"
    <2>1. kept.base = rest.spans /\ kept.overlay = << >> /\ kept.spans = rest.spans /\ kept.groups = rest.groups
      BY <1>1, <1>2 DEF Kept, WorkStands
    <2> HIDE DEF kept
    <2>2. Replayed(text, kept) = [stands |-> TRUE, marks |-> rest.spans]
      BY <2>1, ReplayedNothing
    <2>3. Replayed(text, kept).stands /\ Replayed(text, kept).marks = kept.spans
      BY <2>1, <2>2
    <2>4. Valid(text, pol, kept)
      BY <2>1, <2>3, ValidIs
    <2> QED
      BY <2>4 DEF kept
  <1>3. CASE phase # "mark"
    <2>1. /\ kept.base = c.base /\ kept.overlay = Append(c.overlay, change)
          /\ kept.spans = rest.spans /\ kept.groups = rest.groups
      BY <1>1, <1>3 DEF Kept
    <2> HIDE DEF kept
    <2>2. c.overlay \in Seq(Changes(places)) /\ change \in Changes(places)
      BY DEF WorkStands
    <2>3. Replayed(text, kept) = Amended(text, Replayed(text, c), change)
      <3>1. Replayed(text, kept) = Replay(text, c.base, Append(c.overlay, change))
        BY <2>1, ReplayedIs
      <3>2. Replay(text, c.base, Append(c.overlay, change)) = Amended(text, Replay(text, c.base, c.overlay), change)
        BY <2>2, ReplayOneMore
      <3> QED
        BY <3>1, <3>2, ReplayedIs
    <2>4. Bound(text, c.base) /\ Replayed(text, c).stands /\ Replayed(text, c).marks = c.spans
      BY ValidIs DEF WorkStands
    <2>5. Replayed(text, kept).stands /\ Replayed(text, kept).marks = kept.spans
      BY <2>1, <2>3, <2>4 DEF Amended
    <2>6. Valid(text, pol, kept)
      BY <2>1, <2>4, <2>5, ValidIs
    <2> QED
      BY <2>6 DEF kept
  <1> QED
    BY <1>2, <1>3

LEMMA KeptHas ==
    ASSUME NEW phase, NEW rest, NEW change, DOMAIN rest = {"base", "overlay", "spans", "groups"}
    PROVE  /\ Kept(phase, rest, change).spans = rest.spans
           /\ Kept(phase, rest, change).overlay =
                  IF phase = "mark" THEN rest.overlay ELSE Append(rest.overlay, change)
  BY DEF Kept

(* exclude *)
LEMMA ExcludedStands ==
    ASSUME NEW text, NEW pol, NEW places, NEW phase, NEW c, WorkStands(text, pol, places, phase, c),
           NEW mark \in c.spans
    PROVE  Valid(text, pol, Excluded(phase, c, mark))
  <1> DEFINE rest == Without(c, {mark})
             change == [old |-> {mark}, new |-> {}]
  <1>1. CapsuleOK(c) /\ GroupsStand(pol, c.spans, c.groups) /\ Bound(text, c.spans)
    BY ValidIs DEF WorkStands
  <1>2. /\ DOMAIN rest = DOMAIN c /\ rest.base = c.base /\ rest.overlay = c.overlay
        /\ rest.spans = c.spans \ {mark} /\ GroupsStand(pol, rest.spans, rest.groups)
    <2>1. /\ DOMAIN rest = DOMAIN c /\ rest.base = c.base /\ rest.overlay = c.overlay
          /\ rest.spans = c.spans \ {mark} /\ GroupsStand(pol, c.spans \ {mark}, rest.groups)
      BY <1>1, WithoutStands
    <2> HIDE DEF rest
    <2> QED
      BY <2>1
  <1>3. Bound(text, rest.spans)
    <2>1. AreMarks(c.spans) /\ AreMarks(rest.spans)
      BY <1>2, FS_Subset DEF AreMarks, WorkStands
    <2>2. (\A m \in c.spans : InRange(text, m)) /\ Apart(c.spans)
      BY <1>1, <2>1, BoundIs
    <2>3. (\A m \in rest.spans : InRange(text, m)) /\ Apart(rest.spans)
      BY <1>2, <2>2 DEF Apart
    <2> QED
      BY <2>1, <2>3, BoundIs
  <1>4. /\ change \in Changes(places) /\ rest.spans = (c.spans \ change.old) \cup change.new
        /\ change.old \cup change.new # {} /\ change.old \subseteq c.spans
        /\ change.new \cap (c.spans \ change.old) = {} /\ Bound(text, change.new)
    BY <1>2, BoundOfFew DEF Changes, WorkStands
  <1>5. Excluded(phase, c, mark) = Kept(phase, rest, change)
    BY DEF Excluded
  <1> HIDE DEF rest, change
  <1>6. Valid(text, pol, Kept(phase, rest, change))
    BY <1>2, <1>3, <1>4, KeptStands
  <1> QED
    BY <1>5, <1>6

(* add: exactly when the mark is in the text and shares nothing. *)
LEMMA AddedStands ==
    ASSUME NEW text, NEW pol, NEW places, NEW phase, NEW c, WorkStands(text, pol, places, phase, c),
           NEW new \in places, NEW old \in SUBSET c.spans, new.type \in DOMAIN pol, new \notin c.spans \ old
    PROVE  /\ Valid(text, pol, Added(phase, c, new, old)) <=>
                  InRange(text, new) /\ Apart((c.spans \ old) \cup {new})
           /\ Added(phase, c, new, old).spans = (c.spans \ old) \cup {new}
           /\ Added(phase, c, new, old).overlay =
                  IF phase = "mark" THEN c.overlay ELSE Append(c.overlay, [old |-> old, new |-> {new}])
  <1> DEFINE without == Without(c, old)
             group == Group(new.type, {new}, "OPEN")
             rest == [without EXCEPT !.spans = @ \cup {new}, !.groups = @ \cup {group}]
             change == [old |-> old, new |-> {new}]
             added == Added(phase, c, new, old)
             marks == (c.spans \ old) \cup {new}
  <1>1. /\ CapsuleOK(c) /\ GroupsStand(pol, c.spans, c.groups) /\ Bound(text, c.spans)
        /\ DOMAIN c = {"base", "overlay", "spans", "groups"}
    BY ValidIs DEF WorkStands, CapsuleOK
  <1>2. /\ DOMAIN without = DOMAIN c /\ without.base = c.base /\ without.overlay = c.overlay
        /\ without.spans = c.spans \ old /\ GroupsStand(pol, c.spans \ old, without.groups)
    BY <1>1, WithoutStands
  <1>3. GroupsStand(pol, marks, without.groups \cup {group})
    BY <1>2, GroupAdded
  <1>4. added = Kept(phase, rest, change)
    BY DEF Added
  <1> HIDE DEF without, group, added
  <1>5. /\ DOMAIN rest = DOMAIN c /\ rest.base = c.base /\ rest.overlay = c.overlay
        /\ rest.spans = marks /\ rest.groups = without.groups \cup {group}
    BY <1>1, <1>2
  <1> HIDE DEF rest
  <1>6. AreMarks(c.spans) /\ AreMarks(marks) /\ IsMark(new)
    <2>1. IsFiniteSet(c.spans \ old)
      BY FS_Subset DEF WorkStands
    <2>2. IsFiniteSet(marks)
      BY <2>1, FS_AddElement
    <2> QED
      BY <2>2 DEF AreMarks, WorkStands
  <1>7. Bound(text, marks) <=> InRange(text, new) /\ Apart(marks)
    <2>1. \A m \in c.spans : InRange(text, m)
      BY <1>1, <1>6, BoundIs
    <2>2. Bound(text, marks) <=> (\A m \in marks : InRange(text, m)) /\ Apart(marks)
      BY <1>6, BoundIs
    <2>3. (\A m \in marks : InRange(text, m)) <=> InRange(text, new)
      BY <2>1
    <2> HIDE DEF marks
    <2> QED
      BY <2>2, <2>3
  <1>8. /\ change \in Changes(places) /\ rest.spans = (c.spans \ change.old) \cup change.new
        /\ change.old \cup change.new # {} /\ change.old \subseteq c.spans
        /\ change.new \cap (c.spans \ change.old) = {}
    BY <1>5 DEF Changes, WorkStands
  <1>9. change.new = {new}
    OBVIOUS
  <1>10. added.spans = marks /\ added.overlay = IF phase = "mark" THEN c.overlay ELSE Append(c.overlay, change)
    BY <1>1, <1>4, <1>5, KeptHas
  <1> HIDE DEF change, marks
  <1>11. ASSUME InRange(text, new), Apart(marks) PROVE Valid(text, pol, added)
    <2>1. Bound(text, marks) /\ Bound(text, change.new)
      BY <1>6, <1>7, <1>9, <1>11, BoundOfFew
    <2>2. GroupsStand(pol, rest.spans, rest.groups) /\ Bound(text, rest.spans)
      BY <1>3, <1>5, <2>1
    <2>3. Valid(text, pol, Kept(phase, rest, change))
      BY <1>5, <1>8, <2>1, <2>2, KeptStands
    <2> QED
      BY <1>4, <2>3
  <1>12. ASSUME Valid(text, pol, added) PROVE InRange(text, new) /\ Apart(marks)
    BY <1>7, <1>10, <1>12, ValidIs
  <1> QED
    BY <1>10, <1>11, <1>12 DEF added, marks, change

(* A capsule of which only the groups are others. *)
LEMMA RegroupedStands ==
    ASSUME NEW text, NEW pol, NEW c, CapsuleOK(c), Valid(text, pol, c),
           NEW groups, GroupsStand(pol, c.spans, groups)
    PROVE  Valid(text, pol, [c EXCEPT !.groups = groups])
  <1> DEFINE new == [c EXCEPT !.groups = groups]
  <1>1. new.base = c.base /\ new.overlay = c.overlay /\ new.spans = c.spans /\ new.groups = groups
    BY DEF CapsuleOK
  <1> HIDE DEF new
  <1>2. Replayed(text, new) = Replayed(text, c)
    BY <1>1, ReplayedIs
  <1>3. Valid(text, pol, new)
    BY <1>1, <1>2, ValidIs
  <1> QED
    BY <1>3 DEF new

(* merge *)
LEMMA MergedStands ==
    ASSUME NEW text, NEW pol, NEW c, CapsuleOK(c), Valid(text, pol, c),
           NEW g \in c.groups, NEW h \in c.groups, g.type = h.type
    PROVE  Valid(text, pol, Merged(c, {g, h}))
  <1> DEFINE type == (CHOOSE x \in {g, h} : TRUE).type
             group == Group(type, UNION {x.mentions : x \in {g, h}}, "RESOLVED")
             all == (c.groups \ {g, h}) \cup {group}
  <1>1. type = g.type
    OBVIOUS
  <1>2. Merged(c, {g, h}) = [c EXCEPT !.groups = all]
    BY DEF Merged
  <1> HIDE DEF type
  <1>3. group.type = g.type /\ group.mentions = UNION {x.mentions : x \in {g, h}} /\ group.state \in States
    BY <1>1 DEF Group, States
  <1> HIDE DEF group
  <1>4. GroupsStand(pol, c.spans, all)
    <2>1. GroupsStand(pol, c.spans, c.groups)
      BY ValidIs
    <2>2. {g, h} \in SUBSET c.groups /\ {g, h} # {} /\ \A x \in {g, h} : x.type = group.type
      BY <1>3
    <2> QED
      BY <1>3, <2>1, <2>2, GroupReplaces
  <1> QED
    BY <1>2, <1>4, RegroupedStands

(* state *)
LEMMA JudgedStands ==
    ASSUME NEW text, NEW pol, NEW c, CapsuleOK(c), Valid(text, pol, c),
           NEW g \in c.groups, NEW state \in States
    PROVE  Valid(text, pol, [c EXCEPT !.groups = (@ \ {g}) \cup {[g EXCEPT !.state = state]}])
  <1> DEFINE group == [g EXCEPT !.state = state]
             all == (c.groups \ {g}) \cup {group}
  <1>1. group.type = g.type /\ group.mentions = g.mentions /\ group.state \in States
    BY DEF CapsuleOK, IsGroup
  <1> HIDE DEF group
  <1>2. GroupsStand(pol, c.spans, all)
    <2>1. GroupsStand(pol, c.spans, c.groups)
      BY ValidIs
    <2>2. {g} \in SUBSET c.groups /\ {g} # {} /\ (\A x \in {g} : x.type = group.type)
      BY <1>1
    <2>3. group.mentions = UNION {x.mentions : x \in {g}}
      BY <1>1
    <2> QED
      BY <1>1, <2>1, <2>2, <2>3, GroupReplaces
  <1>3. Valid(text, pol, [c EXCEPT !.groups = all])
    BY <1>2, RegroupedStands
  <1> QED
    BY <1>3 DEF group

-----------------------------------------------------------------------------
(* The invariant of an edited capsule: it is valid, its marks are places,  *)
(* and it has no overlay yet while its marks are collected.                *)

PlanOK == plan \in Seq([rec : Records, mark : Nat, cases : Nat])

EditOK ==
    Editing => desk.rec \in Records /\ WorkStands(Source, policy, Places[desk.rec], desk.phase, desk.capsule)

EditsInv == PlanOK /\ EditOK

LEMMA PlacesAreMarks == \A r \in Records : \A m \in Places[r] : IsMark(m)
  BY PlacesAssumption DEF IsMark

LEMMA InitEdits == Init => EditsInv
  <1> SUFFICES ASSUME Init PROVE EditsInv
    OBVIOUS
  <1>1. PlanOK
    BY PlansAssumption DEF Init, PlanOK
  <1>2. ~Editing
    BY NoDeskPhase DEF Init, Editing
  <1> QED
    BY <1>1, <1>2 DEF EditsInv, EditOK

(* A taken edit: its marks are places, its overlay is no longer than one   *)
(* change more, and the rest the edit itself has checked.                  *)
LEMMA TakenStands ==
    ASSUME CasesInv, EditsInv, Editing, NEW c, Take(c), CapsuleOK(c),
           c.spans \subseteq Places[desk.rec], IsFiniteSet(c.spans),
           \/ c.overlay = desk.capsule.overlay
           \/ /\ desk.phase # "mark"
              /\ \E change \in Changes(Places[desk.rec]) : c.overlay = Append(desk.capsule.overlay, change)
    PROVE  EditsInv'
  <1>1. DOMAIN desk = DeskFields /\ desk.phase \in {"mark", "cases"}
    BY EditingDesk DEF CasesInv
  <1>2. /\ desk'.rec = desk.rec /\ desk'.policy = desk.policy /\ desk'.phase = desk.phase
        /\ desk'.capsule = c /\ plan' = plan
    BY <1>1 DEF Take, DeskFields
  <1>3. Valid(Source, policy, c)
    BY DEF Take
  <1>4. desk.rec \in Records /\ WorkStands(Source, policy, Places[desk.rec], desk.phase, desk.capsule)
    BY DEF EditsInv, EditOK
  <1>5. c.overlay \in Seq(Changes(Places[desk.rec])) /\ (desk.phase = "mark" => c.overlay = << >>)
    <2>1. /\ desk.capsule.overlay \in Seq(Changes(Places[desk.rec]))
          /\ desk.phase = "mark" => desk.capsule.overlay = << >>
      BY <1>4 DEF WorkStands
    <2>2. CASE c.overlay = desk.capsule.overlay
      BY <2>1, <2>2
    <2>3. CASE desk.phase # "mark" /\ \E change \in Changes(Places[desk.rec]) :
                                        c.overlay = Append(desk.capsule.overlay, change)
      <3>1. PICK change \in Changes(Places[desk.rec]) : c.overlay = Append(desk.capsule.overlay, change)
        BY <2>3
      <3>2. Append(desk.capsule.overlay, change) \in Seq(Changes(Places[desk.rec]))
        BY <2>1, AppendProperties
      <3> QED
        BY <2>3, <3>1, <3>2
    <2> QED
      BY <2>2, <2>3
  <1>6. WorkStands(Source, policy, Places[desk.rec], desk.phase, c)
    BY <1>3, <1>4, <1>5 DEF WorkStands
  <1>7. EditOK'
    BY <1>2, <1>4, <1>6 DEF EditOK, Source, policy
  <1>8. PlanOK'
    BY <1>2 DEF EditsInv, PlanOK
  <1> QED
    BY <1>7, <1>8 DEF EditsInv

LEMMA EditKeepsEdits ==
    ASSUME CasesInv, EditsInv, Add \/ Exclude \/ Merge \/ Split
    PROVE  EditsInv'
  <1> DEFINE c == desk.capsule
             places == Places[desk.rec]
  <1>1. Editing /\ CapsuleOK(c)
    BY EditingDesk DEF CasesInv, Add, Exclude, Merge, Split
  <1>2. desk.rec \in Records /\ WorkStands(Source, policy, places, desk.phase, c)
    BY <1>1 DEF EditsInv, EditOK
  <1>3. c.spans \subseteq places /\ IsFiniteSet(c.spans) /\ GroupsStand(policy, c.spans, c.groups)
    BY <1>2, ValidIs DEF WorkStands
  <1>4. CASE Add
    <2>1. PICK new \in places, old \in OldOf(c) : MayMark(c, new, old) /\ Take(Added(desk.phase, c, new, old))
      BY <1>4 DEF Add
    <2> DEFINE added == Added(desk.phase, c, new, old)
               change == [old |-> old, new |-> {new}]
    <2>2. old \in SUBSET c.spans /\ new.type \in DOMAIN policy /\ new \notin c.spans \ old
      BY <2>1 DEF MayMark
    <2>3. CapsuleOK(added)
      BY <1>1, AddedKeeps
    <2>4. /\ added.spans = (c.spans \ old) \cup {new}
          /\ added.overlay = IF desk.phase = "mark" THEN c.overlay ELSE Append(c.overlay, change)
      <3>1. new \in places
        BY <2>1
      <3>2. /\ Valid(Source, policy, Added(desk.phase, c, new, old)) <=>
                  InRange(Source, new) /\ Apart((c.spans \ old) \cup {new})
            /\ Added(desk.phase, c, new, old).spans = (c.spans \ old) \cup {new}
            /\ Added(desk.phase, c, new, old).overlay =
                  IF desk.phase = "mark" THEN c.overlay ELSE Append(c.overlay, [old |-> old, new |-> {new}])
        <4> HIDE DEF c, places
        <4> QED
          BY <1>2, <2>2, <3>1, AddedStands
      <3> QED
        BY <3>2
    <2>5. change \in Changes(places)
      BY <1>3, <2>2 DEF Changes
    <2> HIDE DEF added
    <2>6. added.spans \subseteq places
      BY <1>3, <2>4
    <2>7. IsFiniteSet(added.spans)
      <3>1. IsFiniteSet(c.spans \ old)
        BY <1>3, FS_Subset
      <3> QED
        BY <2>4, <3>1, FS_AddElement
    <2>8. Take(added)
      BY <2>1 DEF added
    <2>9. \/ added.overlay = c.overlay
          \/ desk.phase # "mark" /\ (\E x \in Changes(places) : added.overlay = Append(c.overlay, x))
      <3> HIDE DEF change
      <3>1. CASE desk.phase = "mark"
        BY <2>4, <3>1
      <3>2. CASE desk.phase # "mark"
        BY <2>4, <2>5, <3>2, Zenon
      <3> QED
        BY <3>1, <3>2
    <2> QED
      BY <1>1, <2>3, <2>6, <2>7, <2>8, <2>9, TakenStands
  <1>5. CASE Exclude
    <2>1. PICK mark \in c.spans : Take(Excluded(desk.phase, c, mark))
      BY <1>5 DEF Exclude
    <2> DEFINE less == Excluded(desk.phase, c, mark)
               rest == Without(c, {mark})
               change == [old |-> {mark}, new |-> {}]
    <2>2. CapsuleOK(less)
      BY <1>1, ExcludedKeeps
    <2>3. less = Kept(desk.phase, rest, change)
      BY DEF Excluded
    <2>4. DOMAIN rest = DOMAIN c /\ rest.overlay = c.overlay /\ rest.spans = c.spans \ {mark}
      BY <1>1, <1>3, WithoutStands
    <2>5. change \in Changes(places)
      BY <1>3 DEF Changes
    <2> HIDE DEF less, rest
    <2>6. DOMAIN rest = {"base", "overlay", "spans", "groups"}
      BY <1>1, <2>4 DEF CapsuleOK
    <2>7. /\ less.spans = rest.spans
          /\ less.overlay = IF desk.phase = "mark" THEN rest.overlay ELSE Append(rest.overlay, change)
      BY <2>3, <2>6, KeptHas
    <2>8. less.spans \subseteq places /\ IsFiniteSet(less.spans)
      BY <1>3, <2>4, <2>7, FS_Subset
    <2>9. \/ less.overlay = c.overlay
          \/ desk.phase # "mark" /\ (\E x \in Changes(places) : less.overlay = Append(c.overlay, x))
      <3> HIDE DEF change
      <3>1. CASE desk.phase = "mark"
        BY <2>4, <2>7, <3>1
      <3>2. CASE desk.phase # "mark"
        <4>1. less.overlay = Append(c.overlay, change)
          BY <2>4, <2>7, <3>2
        <4> QED
          BY <2>5, <3>2, <4>1, Zenon
      <3> QED
        BY <3>1, <3>2
    <2>10. Take(less)
      BY <2>1 DEF less
    <2> QED
      BY <1>1, <2>2, <2>8, <2>9, <2>10, TakenStands
  <1>6. CASE Merge
    <2>1. PICK groups : Take(Merged(c, groups))
      BY <1>6 DEF Merge
    <2> DEFINE merged == Merged(c, groups)
    <2>2. CapsuleOK(merged) /\ Take(merged)
      BY <1>1, <2>1, MergedKeeps
    <2>3. merged.spans = c.spans /\ merged.overlay = c.overlay
      BY <1>1 DEF Merged, CapsuleOK
    <2> HIDE DEF merged
    <2>4. merged.spans \subseteq places /\ IsFiniteSet(merged.spans)
      BY <1>3, <2>3
    <2> QED
      BY <1>1, <2>2, <2>3, <2>4, TakenStands
  <1>7. CASE Split
    <2>1. PICK g \in c.groups : \E part : Take(Parted(c, g, part))
      BY <1>7 DEF Split
    <2>2. PICK part : Take(Parted(c, g, part))
      BY <2>1
    <2> DEFINE parted == Parted(c, g, part)
    <2>3. CapsuleOK(parted) /\ Take(parted)
      BY <1>1, <2>2, PartedKeeps
    <2>4. parted.spans = c.spans /\ parted.overlay = c.overlay
      BY <1>1 DEF Parted, CapsuleOK
    <2> HIDE DEF parted
    <2>5. parted.spans \subseteq places /\ IsFiniteSet(parted.spans)
      BY <1>3, <2>4
    <2> QED
      BY <1>1, <2>3, <2>4, <2>5, TakenStands
  <1> QED
    BY <1>4, <1>5, <1>6, <1>7

LEMMA JudgeKeepsEdits ==
    ASSUME CasesInv, EditsInv, Judge
    PROVE  EditsInv'
  <1> DEFINE c == desk.capsule
  <1>1. Editing /\ CapsuleOK(c) /\ DOMAIN desk = DeskFields
    BY EditingDesk DEF CasesInv, Judge
  <1>2. desk.rec \in Records /\ WorkStands(Source, policy, Places[desk.rec], desk.phase, c)
    BY <1>1 DEF EditsInv, EditOK
  <1>3. PICK g \in c.groups, state \in {"RESOLVED", "DEFERRED"} :
            desk' = [desk EXCEPT !.capsule.groups = (@ \ {g}) \cup {[g EXCEPT !.state = state]}]
    BY DEF Judge
  <1> DEFINE new == [c EXCEPT !.groups = (@ \ {g}) \cup {[g EXCEPT !.state = state]}]
  <1>4. /\ desk'.rec = desk.rec /\ desk'.policy = desk.policy /\ desk'.phase = desk.phase
        /\ desk'.capsule = new
    BY <1>1, <1>3 DEF DeskFields
  <1>5. CapsuleOK(new)
    BY <1>1, JudgedKeeps
  <1>6. Valid(Source, policy, new)
    BY <1>1, <1>2, JudgedStands DEF WorkStands, States
  <1>7. new.spans = c.spans /\ new.overlay = c.overlay
    BY <1>1 DEF CapsuleOK
  <1> HIDE DEF new
  <1>8. WorkStands(Source, policy, Places[desk.rec], desk.phase, new)
    BY <1>2, <1>5, <1>6, <1>7 DEF WorkStands
  <1>9. EditOK'
    BY <1>2, <1>4, <1>8 DEF EditOK, Source, policy
  <1>10. PlanOK'
    BY DEF Judge, EditsInv, PlanOK
  <1> QED
    BY <1>9, <1>10 DEF EditsInv

LEMMA OpenKeepsEdits ==
    ASSUME EditsInv, OpenMarking
    PROVE  EditsInv'
  <1> DEFINE empty == Capsule({}, << >>, {}, {})
  <1>1. PICK p \in Policies :
            desk' = [rec |-> Head(plan).rec, policy |-> p, phase |-> "mark",
                     capsule |-> empty, left |-> Head(plan), assigned |-> << >>]
    BY DEF OpenMarking
  <1>2. plan # << >> /\ plan \in Seq([rec : Records, mark : Nat, cases : Nat]) /\ plan' = Tail(plan)
    BY DEF OpenMarking, EditsInv, PlanOK
  <1>3. PlanOK' /\ Head(plan).rec \in Records
    <2>1. Head(plan) \in [rec : Records, mark : Nat, cases : Nat]
      BY <1>2, HeadTailProperties
    <2>2. Tail(plan) \in Seq([rec : Records, mark : Nat, cases : Nat])
      BY <1>2, HeadTailProperties
    <2>3. PlanOK'
      BY <1>2, <2>2 DEF PlanOK
    <2> QED
      BY <2>1, <2>3
  <1>4. /\ desk'.rec = Head(plan).rec /\ desk'.policy = p /\ desk'.phase = "mark"
        /\ desk'.capsule = empty
    BY <1>1
  <1>5. CapsuleOK(empty) /\ empty.base = {} /\ empty.overlay = << >> /\ empty.spans = {} /\ empty.groups = {}
    BY FS_EmptySet DEF CapsuleOK, Capsule
  <1> HIDE DEF empty
  <1>6. Valid(Source', p, empty)
    <2>1. Bound(Source', {})
      BY BoundOfFew
    <2>2. Replayed(Source', empty).stands /\ Replayed(Source', empty).marks = {}
      <3>1. Replayed(Source', empty) = [stands |-> TRUE, marks |-> {}]
        BY <1>5, ReplayedNothing
      <3> QED
        BY <3>1
    <2>3. GroupsStand(p, {}, {})
      BY DEF GroupsStand
    <2> QED
      BY <1>5, <2>1, <2>2, <2>3, ValidIs
  <1>7. << >> \in Seq(Changes(Places[Head(plan).rec]))
    OBVIOUS
  <1>8. WorkStands(Source', p, Places[Head(plan).rec], "mark", empty)
    BY <1>3, <1>5, <1>6, <1>7, PlacesAreMarks, FS_EmptySet DEF WorkStands
  <1>9. EditOK'
    BY <1>3, <1>4, <1>8 DEF EditOK, policy
  <1> QED
    BY <1>3, <1>9 DEF EditsInv

LEMMA NextEdits == CasesInv /\ EditsInv /\ [Next]_vars => EditsInv'
  <1> SUFFICES ASSUME CasesInv, EditsInv, [Next]_vars PROVE EditsInv'
    OBVIOUS
  <1>1. CASE OpenMarking
    BY <1>1, OpenKeepsEdits
  <1>2. CASE Add \/ Exclude \/ Merge \/ Split
    BY <1>2, EditKeepsEdits
  <1>3. CASE Judge
    BY <1>3, JudgeKeepsEdits
  <1>4. CASE PublishMarks
    <2>1. Editing /\ DOMAIN desk = DeskFields /\ desk.phase = "mark"
      BY <1>4, EditingDesk DEF CasesInv, PublishMarks, Editing
    <2>2. /\ desk'.rec = desk.rec /\ desk'.policy = desk.policy /\ desk'.phase = "cases"
          /\ desk'.capsule = desk.capsule /\ plan' = plan
      BY <1>4, <2>1 DEF PublishMarks, DeskFields
    <2>3. desk.rec \in Records /\ WorkStands(Source, policy, Places[desk.rec], desk.phase, desk.capsule)
      BY <2>1 DEF EditsInv, EditOK
    <2>4. WorkStands(Source, policy, Places[desk.rec], "cases", desk.capsule)
      BY <2>3 DEF WorkStands
    <2>5. EditOK'
      BY <2>2, <2>3, <2>4 DEF EditOK, Source, policy
    <2> QED
      BY <2>2, <2>5 DEF EditsInv, PlanOK
  <1>5. CASE PublishCases \/ AcceptResolution \/ ResolveAnew
    <2>1. DOMAIN desk = DeskFields
      BY <1>5, NoDeskPhase DEF CasesInv, DeskOK, PublishCases, AcceptResolution, ResolveAnew
    <2>2. desk'.phase \in {"resolve", "resolved"} /\ plan' = plan
      BY <1>5, <2>1 DEF PublishCases, AcceptResolution, ResolveAnew, DeskFields
    <2> QED
      BY <2>2 DEF EditsInv, EditOK, PlanOK, Editing
  <1>6. CASE Finalise
    <2>1. desk' = NoDesk /\ plan' = plan
      BY <1>6 DEF Finalise
    <2> QED
      BY <2>1, NoDeskPhase DEF EditsInv, EditOK, PlanOK, Editing
  <1>7. CASE UNCHANGED <<desk, plan>>
    BY <1>7 DEF EditsInv, EditOK, PlanOK, Editing, Source, policy
  <1> QED
    BY <1>1, <1>2, <1>3, <1>4, <1>5, <1>6, <1>7 DEF Next, Suggest, vars

(* manual_work.py and manual_pseudonymisation.py validate agree, after any *)
(* number of edits of any text: what was worked at is valid, so is what an *)
(* exclusion or a merge makes of it, and a mark is refused exactly when it *)
(* is not in the text or shares a character with one that stays.           *)
THEOREM EditsAlwaysStand == Spec => []EditsStand
  <1>1. Spec => []EditsInv
    BY InitEdits, NextEdits, CasesInvariant, PTL DEF Spec
  <1>2. CasesInv /\ EditsInv => EditsStand
    <2> SUFFICES ASSUME CasesInv, EditsInv, Editing
                 PROVE  /\ Valid(Source, policy, desk.capsule)
                        /\ \A mark \in desk.capsule.spans :
                              Valid(Source, policy, Excluded(desk.phase, desk.capsule, mark))
                        /\ \A new \in Places[desk.rec], old \in OldOf(desk.capsule) :
                              MayMark(desk.capsule, new, old) =>
                                (Valid(Source, policy, Added(desk.phase, desk.capsule, new, old)) <=>
                                    InRange(Source, new) /\ Apart((desk.capsule.spans \ old) \cup {new}))
                        /\ \A g, h \in desk.capsule.groups :
                              g # h /\ g.type = h.type => Valid(Source, policy, Merged(desk.capsule, {g, h}))
      BY DEF EditsStand
    <2>1. WorkStands(Source, policy, Places[desk.rec], desk.phase, desk.capsule)
      BY DEF EditsInv, EditOK
    <2>2. Valid(Source, policy, desk.capsule) /\ CapsuleOK(desk.capsule)
      BY <2>1 DEF WorkStands
    <2>3. \A mark \in desk.capsule.spans : Valid(Source, policy, Excluded(desk.phase, desk.capsule, mark))
      BY <2>1, ExcludedStands
    <2>4. ASSUME NEW new \in Places[desk.rec], NEW old, MayMark(desk.capsule, new, old)
          PROVE  Valid(Source, policy, Added(desk.phase, desk.capsule, new, old)) <=>
                    InRange(Source, new) /\ Apart((desk.capsule.spans \ old) \cup {new})
      <3>1. old \in SUBSET desk.capsule.spans /\ new.type \in DOMAIN policy /\ new \notin desk.capsule.spans \ old
        BY <2>4 DEF MayMark
      <3> QED
        BY <2>1, <3>1, AddedStands
    <2>5. \A g, h \in desk.capsule.groups : g.type = h.type => Valid(Source, policy, Merged(desk.capsule, {g, h}))
      BY <2>2, MergedStands
    <2> QED
      BY <2>2, <2>3, <2>4, <2>5
  <1> QED
    BY <1>1, <1>2, CasesInvariant, PTL

-----------------------------------------------------------------------------
(* Sequences, whatever is in them. *)

IsSeq(s) == \E T : s \in Seq(T)

LEMMA SeqHas ==
    ASSUME NEW s, IsSeq(s)
    PROVE  Len(s) \in Nat /\ DOMAIN s = 1..Len(s)
  BY DEF IsSeq

LEMMA SeqsJoin ==
    ASSUME NEW s, NEW t, IsSeq(s), IsSeq(t)
    PROVE  /\ IsSeq(s \o t)
           /\ Len(s \o t) = Len(s) + Len(t)
           /\ \A i \in 1..Len(s) : (s \o t)[i] = s[i]
           /\ \A i \in 1..Len(t) : (s \o t)[Len(s) + i] = t[i]
  <1>1. PICK S : s \in Seq(S)
    BY DEF IsSeq
  <1>2. PICK T : t \in Seq(T)
    BY DEF IsSeq
  <1> DEFINE U == S \cup T
  <1>3. s \in Seq(U) /\ t \in Seq(U)
    BY <1>1, <1>2
  <1> HIDE DEF U
  <1>4. s \o t \in Seq(U)
    BY <1>3
  <1> QED
    BY <1>3, <1>4 DEF IsSeq

LEMMA SeqGrows ==
    ASSUME NEW s, NEW x, IsSeq(s)
    PROVE  /\ IsSeq(Append(s, x))
           /\ Len(Append(s, x)) = Len(s) + 1
           /\ Append(s, x)[Len(s) + 1] = x
           /\ \A i \in 1..Len(s) : Append(s, x)[i] = s[i]
  <1>1. PICK S : s \in Seq(S)
    BY DEF IsSeq
  <1> DEFINE U == S \cup {x}
  <1>2. s \in Seq(U) /\ x \in U
    BY <1>1
  <1> HIDE DEF U
  <1>3. Append(s, x) \in Seq(U)
    BY <1>2
  <1> QED
    BY <1>2, <1>3 DEF IsSeq

LEMMA TableIsSeq ==
    ASSUME NEW n \in Nat, NEW s, DOMAIN s = 1..n, IsTable(s, 1..n)
    PROVE  IsSeq(s) /\ Len(s) = n
  <1> DEFINE T == {s[i] : i \in 1..n}
  <1>1. s \in [1..n -> T]
    BY DEF IsTable
  <1> HIDE DEF T
  <1>2. s \in Seq(T)
    BY <1>1
  <1> QED
    BY <1>1, <1>2 DEF IsSeq

-----------------------------------------------------------------------------
(* The blocks: they cut the segments, in order, and none is empty. *)

Cuts(cut, n, blocks) ==
    /\ Len(blocks) \in Nat \ {0} /\ DOMAIN blocks = 1..Len(blocks)
    /\ cut \in [0..Len(blocks) -> 0..n] /\ cut[0] = 0 /\ cut[Len(blocks)] = n
    /\ \A b \in 1..Len(blocks) :
          /\ cut[b - 1] < cut[b]
          /\ blocks[b] = [i \in 1..(cut[b] - cut[b - 1]) |-> cut[b - 1] + i]

LEMMA Rounding ==
    ASSUME NEW n \in Nat \ {0}, NEW size \in Nat \ {0}
    PROVE  LET B == (n + size - 1) \div size
           IN  B \in Nat \ {0} /\ (B - 1) * size < n /\ n <= B * size
  <1> DEFINE B == (n + size - 1) \div size
             m == n + size - 1
  <1>1. m \in Nat /\ B \in Int /\ size * B <= m /\ m < size * (B + 1)
    BY Z3
  <1> QED
    BY <1>1, Z3

LEMMA BlocksAre ==
    ASSUME NEW text, Len(text) \in Nat \ {0}, NEW size \in Nat \ {0}
    PROVE  \E cut : Cuts(cut, Len(text), Blocks(text, size))
  <1> DEFINE n == Len(text)
             B == (n + size - 1) \div size
             cut == [b \in 0..B |-> IF b * size < n THEN b * size ELSE n]
             blocks == Blocks(text, size)
  <1>1. B \in Nat \ {0} /\ (B - 1) * size < n /\ n <= B * size
    BY Rounding
  <1>2. ASSUME NEW b \in 0..B PROVE b * size \in Nat /\ (b < B => b * size < n)
    <2>1. b * size \in Nat
      BY <1>1
    <2>2. ASSUME b < B PROVE b * size < n
      <3>1. b * size <= (B - 1) * size
        BY <2>2, <1>1
      <3> QED
        BY <3>1, <1>1, <2>1
    <2> QED
      BY <2>1, <2>2
  <1>3. ASSUME NEW b \in 1..B PROVE (b - 1) * size \in Nat /\ (b - 1) * size < n /\ b * size = (b - 1) * size + size
    BY <1>1, <1>2
  <1>4. blocks = [b \in 1..B |-> LET first == (b - 1) * size
                                     last == IF b * size < n THEN b * size ELSE n
                                 IN  [i \in 1..(last - first) |-> first + i]]
    BY DEF Blocks
  <1> HIDE DEF n, B, blocks
  <1>5. Len(blocks) = B /\ DOMAIN blocks = 1..B
    <2>1. DOMAIN blocks = 1..B /\ IsTable(blocks, 1..B)
      BY <1>4, Zenon DEF IsTable
    <2> QED
      BY <1>1, <2>1, TableIsSeq
  <1>6. n \in Nat
    BY DEF n
  <1>7. cut \in [0..B -> 0..n] /\ cut[0] = 0 /\ cut[B] = n
    <2>1. 0 * size = 0 /\ 0 < n
      BY DEF n
    <2> QED
      BY <1>1, <1>2, <1>6, <2>1
  <1>8. ASSUME NEW b \in 1..B
        PROVE  /\ cut[b - 1] < cut[b]
               /\ blocks[b] = [i \in 1..(cut[b] - cut[b - 1]) |-> cut[b - 1] + i]
    <2>1. b - 1 \in 0..B /\ b \in 0..B
      BY <1>1
    <2>2. cut[b - 1] = (b - 1) * size /\ cut[b] = IF b * size < n THEN b * size ELSE n
      BY <1>3, <2>1
    <2>3. cut[b - 1] < cut[b]
      BY <1>3, <2>2, <1>6
    <2>4. blocks[b] = LET first == (b - 1) * size
                          last == IF b * size < n THEN b * size ELSE n
                      IN  [i \in 1..(last - first) |-> first + i]
      BY <1>4, Zenon
    <2> HIDE DEF cut
    <2> QED
      BY <2>2, <2>3, <2>4, Zenon
  <1> HIDE DEF cut
  <1>9. Cuts(cut, n, blocks)
    BY <1>1, <1>5, <1>7, <1>8 DEF Cuts
  <1> QED
    BY <1>9 DEF n, blocks

LEMMA CutsRise ==
    ASSUME NEW n \in Nat, NEW blocks, NEW cut, Cuts(cut, n, blocks), NEW b \in 1..Len(blocks)
    PROVE  /\ cut[b] \in 0..n /\ cut[b - 1] \in 0..n
           /\ Len(blocks[b]) = cut[b] - cut[b - 1]
           /\ ToSet(blocks[b]) = (cut[b - 1] + 1)..cut[b]
  <1>1. b \in 0..Len(blocks) /\ b - 1 \in 0..Len(blocks)
    BY DEF Cuts
  <1>2. cut[b] \in 0..n /\ cut[b - 1] \in 0..n /\ cut[b - 1] < cut[b]
    BY <1>1 DEF Cuts
  <1> DEFINE from == cut[b - 1]
             k == cut[b] - from
  <1>3. k \in Nat /\ from \in Nat /\ cut[b] = from + k
    BY <1>2
  <1>4. blocks[b] = [i \in 1..k |-> from + i]
    BY DEF Cuts
  <1> HIDE DEF from, k
  <1>5. Len(blocks[b]) = k
    BY <1>3, <1>4
  <1>6. ToSet(blocks[b]) = {from + i : i \in 1..k}
    BY <1>4 DEF ToSet
  <1>7. {from + i : i \in 1..k} = (from + 1)..(from + k)
    <2>1. ASSUME NEW x \in (from + 1)..(from + k) PROVE \E i \in 1..k : x = from + i
      <3>1. x - from \in 1..k /\ x = from + (x - from)
        BY <1>3
      <3> QED
        BY <3>1
    <2> QED
      BY <2>1, <1>3
  <1> QED
    BY <1>2, <1>3, <1>5, <1>6, <1>7 DEF from, k

-----------------------------------------------------------------------------
(* The rows of a block, once they are complete: in order they are the      *)
(* block.                                                                  *)

LEMMA AscendingIs ==
    ASSUME NEW rows, NEW from \in Nat, NEW k \in Nat, ToSet(rows) = (from + 1)..(from + k)
    PROVE  Ascending(rows) = [i \in 1..k |-> from + i]
  <1> DEFINE S == ToSet(rows)
             Rising(order) == \A i, j \in DOMAIN order : i < j => order[i] < order[j]
             ids == [i \in 1..k |-> from + i]
  <1>1. Cardinality(S) = k
    <2>1. Cardinality((from + 1)..(from + k)) = IF from + 1 > from + k THEN 0 ELSE (from + k) - (from + 1) + 1
      BY FS_Interval
    <2> QED
      BY <2>1
  <1> HIDE DEF S
  <1>2. S = (from + 1)..(from + k)
    BY DEF S
  <1>3. SetToSeqs(S) = {f \in [1..k -> S] : \A i, j \in 1..k : i # j => f[i] # f[j]}
    BY <1>1 DEF SetToSeqs
  <1>4. ids \in SetToSeqs(S) /\ Rising(ids)
    BY <1>2, <1>3
  <1>5. ASSUME NEW order \in SetToSeqs(S), Rising(order) PROVE order = ids
    <2>1. order \in [1..k -> S]
      BY <1>3
    <2>2. \A i, j \in 1..k : i < j => order[i] < order[j]
      BY <1>5, <2>1
    <2>3. \A i \in 1..k : order[i] \in Nat /\ from + 1 <= order[i] /\ order[i] <= from + k
      BY <2>1, <1>2
    <2>4. ASSUME NEW i \in 1..k PROVE order[i] >= from + i
      <3> DEFINE T == {m \in 0..k : m > 0 => order[m] >= from + m}
      <3>1. 0 \in T
        OBVIOUS
      <3>2. ASSUME NEW m \in 0..(k - 1), m \in T PROVE m + 1 \in T
        <4>1. m + 1 \in 1..k /\ m + 1 \in 0..k
          OBVIOUS
        <4>2. CASE m = 0
          BY <4>1, <4>2, <2>3
        <4>3. CASE m > 0
          <5>1. m \in 1..k /\ m < m + 1 /\ order[m] >= from + m
            BY <3>2, <4>3
          <5>2. order[m] < order[m + 1]
            BY <2>2, <4>1, <5>1
          <5> QED
            BY <4>1, <5>1, <5>2, <2>3
        <4> QED
          BY <4>2, <4>3
      <3> HIDE DEF T
      <3>3. 0..k \subseteq T
        BY <3>1, <3>2, UpTo, Zenon
      <3>4. i \in T
        BY <3>3
      <3> QED
        BY <3>4 DEF T
    <2>5. ASSUME NEW i \in 1..k PROVE order[i] <= from + i
      <3> DEFINE T == {m \in 0..k : m < k => order[k - m] <= from + (k - m)}
      <3>1. 0 \in T
        <4>1. CASE k = 0
          BY <4>1
        <4>2. CASE k > 0
          <5>1. k \in 1..k /\ k - 0 = k
            BY <4>2
          <5> QED
            BY <5>1, <2>3
        <4> QED
          BY <4>1, <4>2
      <3>2. ASSUME NEW m \in 0..(k - 1), m \in T PROVE m + 1 \in T
        <4>1. m + 1 \in 0..k /\ k - m \in 1..k /\ order[k - m] <= from + (k - m)
          BY <3>2
        <4>2. CASE m + 1 < k
          <5>1. k - (m + 1) \in 1..k /\ k - (m + 1) < k - m
            BY <4>2
          <5>2. order[k - (m + 1)] < order[k - m]
            BY <2>2, <4>1, <5>1
          <5> QED
            BY <4>1, <5>1, <5>2, <2>3
        <4> QED
          BY <4>1, <4>2
      <3> HIDE DEF T
      <3>3. 0..k \subseteq T
        BY <3>1, <3>2, UpTo, Zenon
      <3>4. k - i \in T /\ k - i < k /\ k - (k - i) = i
        BY <3>3
      <3> QED
        BY <3>4 DEF T
    <2>6. \A i \in 1..k : order[i] = from + i
      BY <2>3, <2>4, <2>5
    <2> QED
      BY <2>1, <2>6
  <1> HIDE DEF ids
  <1>6. Ascending(rows) = CHOOSE order \in SetToSeqs(S) : Rising(order)
    BY Zenon DEF Ascending, S
  <1> HIDE DEF Rising
  <1>7. (CHOOSE order \in SetToSeqs(S) : Rising(order)) = ids
    BY <1>4, <1>5
  <1> QED
    BY <1>6, <1>7 DEF ids

-----------------------------------------------------------------------------
(* Where the segments stand: one after the other, with a line feed between.*)

IsText(text) == IsSeq(text) /\ Len(text) > 0 /\ \A i \in 1..Len(text) : IsSeq(text[i])

LEMMA SpansAre ==
    ASSUME NEW text, IsText(text)
    PROVE  /\ DOMAIN SegmentSpans(text) = 1..Len(text)
           /\ \A i \in 1..Len(text) :
                /\ SegmentSpans(text)[i][1] \in Nat
                /\ SegmentSpans(text)[i][2] = SegmentSpans(text)[i][1] + Len(text[i])
           /\ \A i, j \in 1..Len(text) : i < j => SegmentSpans(text)[i][2] < SegmentSpans(text)[j][1]
  <1> DEFINE n == Len(text)
             spans == SegmentSpans(text)
             Wanted(f) == f = [i \in DOMAIN text |-> IF i = 1 THEN 0 ELSE f[i - 1] + Len(text[i - 1]) + 1]
             start == CHOOSE f : Wanted(f)
  <1>1. n \in Nat /\ DOMAIN text = 1..n /\ \A i \in 1..n : Len(text[i]) \in Nat
    BY SeqHas DEF IsText
  <1>2. spans = [i \in 1..n |-> <<start[i], start[i] + Len(text[i])>>]
    BY <1>1, Zenon DEF SegmentSpans
  <1> HIDE DEF n, spans
  <1>3. \E f : Wanted(f)
    <2> DEFINE fold == [name |-> "length"]
    <2>1. PICK w : Walk(w, fold, 0, text, 1..n)
      BY <1>1, WalkExists DEF n
    <2>2. \A at, x : Folded(fold, at, x) = at + Len(x) + 1
      BY DEF Folded
    <2> HIDE DEF fold
    <2>3. w[0] = 0 /\ \A i \in 1..n : w[i] = w[i - 1] + Len(text[i]) + 1
      BY <2>1, <2>2, <1>1 DEF Walk, n
    <2> DEFINE f == [i \in 1..n |-> w[i - 1]]
    <2>4. ASSUME NEW i \in 1..n PROVE f[i] = IF i = 1 THEN 0 ELSE f[i - 1] + Len(text[i - 1]) + 1
      <3>1. CASE i = 1
        BY <3>1, <2>3
      <3>2. CASE i # 1
        <4>1. i - 1 \in 1..n /\ (i - 1) - 1 \in 0..n
          BY <3>2, <1>1
        <4> QED
          BY <3>2, <4>1, <2>3
      <3> QED
        BY <3>1, <3>2
    <2>5. f = [i \in 1..n |-> f[i]]
      BY Zenon
    <2> HIDE DEF f
    <2>6. f = [i \in 1..n |-> IF i = 1 THEN 0 ELSE f[i - 1] + Len(text[i - 1]) + 1]
      BY <2>4, <2>5, Zenon
    <2>7. Wanted(f)
      BY <2>6, <1>1, Zenon
    <2> QED
      BY <2>7
  <1>4. Wanted(start)
    BY <1>3, Zenon
  <1> HIDE DEF start
  <1>5. \A i \in 1..n : start[i] = IF i = 1 THEN 0 ELSE start[i - 1] + Len(text[i - 1]) + 1
    BY <1>4, <1>1
  <1>6. ASSUME NEW i \in 1..n PROVE start[i] \in Nat
    <2> DEFINE S == {m \in 0..n : m > 0 => start[m] \in Nat}
    <2>1. 0 \in S
      BY <1>1
    <2>2. ASSUME NEW m \in 0..(n - 1), m \in S PROVE m + 1 \in S
      <3>1. m + 1 \in 1..n /\ m + 1 \in 0..n
        BY <1>1
      <3>2. start[m + 1] = IF m + 1 = 1 THEN 0 ELSE start[(m + 1) - 1] + Len(text[(m + 1) - 1]) + 1
        BY <1>5, <3>1
      <3>3. CASE m = 0
        BY <3>1, <3>2, <3>3
      <3>4. CASE m # 0
        <4>1. m \in 1..n /\ (m + 1) - 1 = m /\ m > 0
          BY <3>4, <1>1
        <4>2. start[m] \in Nat /\ Len(text[m]) \in Nat
          BY <4>1, <2>2, <1>1
        <4> QED
          BY <3>1, <3>2, <3>4, <4>1, <4>2
      <3> QED
        BY <3>3, <3>4
    <2> HIDE DEF S
    <2>3. 0..n \subseteq S
      BY <2>1, <2>2, <1>1, UpTo, Zenon
    <2>4. i \in S /\ i > 0
      BY <2>3, <1>1
    <2> QED
      BY <2>4 DEF S
  <1>7. ASSUME NEW i \in 1..n, NEW j \in 1..n, i < j PROVE start[i] + Len(text[i]) < start[j]
    <2> DEFINE N == n - (i + 1)
               S == {m \in 0..N : start[i] + Len(text[i]) < start[i + 1 + m]}
    <2>1. N \in Nat /\ i + 1 \in 1..n
      BY <1>1, <1>7
    <2>2. ASSUME NEW m \in 0..N PROVE start[i + 1 + m] = start[i + m] + Len(text[i + m]) + 1 /\ i + m \in 1..n /\ i + 1 + m \in 1..n
      <3>1. i + 1 + m \in 1..n /\ (i + 1 + m) - 1 = i + m /\ i + m \in 1..n /\ i + 1 + m # 1
        BY <1>1, <2>1
      <3> QED
        BY <3>1, <1>5
    <2>3. 0 \in S
      <3>1. start[i + 1 + 0] = start[i + 0] + Len(text[i + 0]) + 1 /\ i + 0 = i
        BY <2>1, <2>2
      <3>2. start[i] \in Nat /\ Len(text[i]) \in Nat
        BY <1>1, <1>6
      <3> QED
        BY <2>1, <3>1, <3>2
    <2>4. ASSUME NEW m \in 0..(N - 1), m \in S PROVE m + 1 \in S
      <3>1. m + 1 \in 0..N /\ i + (m + 1) = i + 1 + m /\ i + (m + 1) \in 1..n
        BY <2>1, <2>2
      <3>2. start[i + 1 + (m + 1)] = start[i + 1 + m] + Len(text[i + 1 + m]) + 1
        BY <3>1, <2>2
      <3>3. start[i] \in Nat /\ Len(text[i]) \in Nat /\ start[i + 1 + m] \in Nat /\ Len(text[i + 1 + m]) \in Nat
        BY <3>1, <1>1, <1>6
      <3>4. start[i] + Len(text[i]) < start[i + 1 + m]
        BY <2>4
      <3> HIDE DEF N
      <3>5. start[i] + Len(text[i]) < start[i + 1 + (m + 1)]
        BY <3>2, <3>3, <3>4
      <3> QED
        BY <3>1, <3>5
    <2> HIDE DEF S
    <2>5. 0..N \subseteq S
      BY <2>1, <2>3, <2>4, UpTo, Zenon
    <2>6. j - (i + 1) \in 0..N /\ i + 1 + (j - (i + 1)) = j
      BY <1>7, <1>1
    <2>7. j - (i + 1) \in S
      BY <2>5, <2>6
    <2> QED
      BY <2>6, <2>7 DEF S
  <1> QED
    BY <1>1, <1>2, <1>6, <1>7 DEF n, spans

(* An anchor on the whole of a segment covers it, and no other. *)
LEMMA AnchorCovers ==
    ASSUME NEW text, IsText(text), NEW i \in 1..Len(text), text[i] # << >>
    PROVE  CoveredSegments(SegmentSpans(text), {SegmentSpans(text)[i]}) = {i}
  <1> DEFINE n == Len(text)
             spans == SegmentSpans(text)
  <1>1. n \in Nat /\ DOMAIN spans = 1..n
    BY SpansAre, SeqHas DEF IsText
  <1>2. \A s \in 1..n : spans[s][1] \in Nat /\ spans[s][2] \in Nat /\ spans[s][1] <= spans[s][2]
    <2> TAKE s \in 1..n
    <2>1. Len(text[s]) \in Nat
      BY SeqHas DEF IsText
    <2>2. spans[s][1] \in Nat /\ spans[s][2] = spans[s][1] + Len(text[s])
      BY SpansAre
    <2> HIDE DEF spans
    <2> QED
      BY <2>1, <2>2
  <1>3. spans[i][1] < spans[i][2]
    <2>1. Len(text[i]) \in Nat /\ Len(text[i]) # 0
      BY DEF IsText, IsSeq
    <2>2. spans[i][1] \in Nat /\ spans[i][2] = spans[i][1] + Len(text[i])
      BY SpansAre
    <2> HIDE DEF spans
    <2> QED
      BY <2>1, <2>2
  <1>4. \A s, t \in 1..n : s < t => spans[s][2] < spans[t][1]
    BY SpansAre
  <1> HIDE DEF spans, n
  <1>5. ASSUME NEW s \in 1..n PROVE spans[i][1] < spans[s][2] /\ spans[i][2] > spans[s][1] <=> s = i
    <2>1. CASE s = i
      BY <2>1, <1>2, <1>3 DEF n
    <2>2. CASE s < i
      BY <2>2, <1>2, <1>4 DEF n
    <2>3. CASE s > i
      BY <2>3, <1>2, <1>4 DEF n
    <2> QED
      BY <2>1, <2>2, <2>3, <1>1 DEF n
  <1>6. CoveredSegments(spans, {spans[i]}) = {s \in 1..n : spans[i][1] < spans[s][2] /\ spans[i][2] > spans[s][1]}
    BY <1>1 DEF CoveredSegments
  <1>7. i \in 1..n
    BY DEF n
  <1> QED
    BY <1>5, <1>6, <1>7 DEF spans

(* What is suggested for the first segments of a text. *)
AllTo(text, k) == [i \in 1..k |-> [segment |-> i, anchor |-> SegmentSpans(text)[i]]]

(* A block that stands adds its own to what the blocks before it gave. *)
LEMMA BlockAdds ==
    ASSUME NEW text, IsText(text), NEW blocks, NEW cut, Cuts(cut, Len(text), blocks),
           NEW b \in 1..Len(blocks), NEW rows, BlockStands(text, rows, blocks[b])
    PROVE  /\ AllTo(text, cut[b - 1]) \o Suggested(text, rows) = AllTo(text, cut[b])
           /\ \A s \in (cut[b - 1] + 1)..cut[b] : text[s] # << >>
  <1> DEFINE from == cut[b - 1]
             k == cut[b] - from
             order == Ascending(rows)
             old == AllTo(text, from)
             new == Suggested(text, rows)
             Entry(i) == [segment |-> i, anchor |-> SegmentSpans(text)[i]]
  <1>1. from \in Nat /\ cut[b] \in Nat /\ k \in Nat /\ cut[b] = from + k /\ ToSet(blocks[b]) = (from + 1)..(from + k)
    <2>1. Len(text) \in Nat
      BY SeqHas DEF IsText
    <2>2. cut[b] \in 0..Len(text) /\ cut[b - 1] \in 0..Len(text) /\ ToSet(blocks[b]) = (cut[b - 1] + 1)..cut[b]
      BY <2>1, CutsRise
    <2>3. cut[b - 1] < cut[b]
      BY DEF Cuts
    <2> QED
      BY <2>1, <2>2, <2>3
  <1> HIDE DEF from, k
  <1>2. ToSet(rows) = (from + 1)..(from + k)
    BY <1>1 DEF BlockStands, Complete, NothingForeign
  <1>3. order = [i \in 1..k |-> from + i]
    BY <1>1, <1>2, AscendingIs
  <1>4. new = [i \in 1..k |-> Entry(from + i)]
    <2>1. new = [i \in DOMAIN order |-> Entry(order[i])]
      BY Zenon DEF Suggested, Anchored
    <2> HIDE DEF new, order, Entry
    <2>2. DOMAIN order = 1..k /\ \A i \in 1..k : order[i] = from + i
      BY <1>3
    <2> QED
      BY <2>1, <2>2
  <1>5. old = [i \in 1..from |-> Entry(i)]
    BY DEF AllTo
  <1> HIDE DEF new, old, Entry, order
  <1>6. IsSeq(old) /\ Len(old) = from
    <2>1. DOMAIN old = 1..from /\ IsTable(old, 1..from)
      BY <1>5, Zenon DEF IsTable
    <2> QED
      BY <1>1, <2>1, TableIsSeq
  <1>7. IsSeq(new) /\ Len(new) = k
    <2>1. DOMAIN new = 1..k /\ IsTable(new, 1..k)
      BY <1>4, Zenon DEF IsTable
    <2> QED
      BY <1>1, <2>1, TableIsSeq
  <1> DEFINE all == old \o new
  <1>8. /\ IsSeq(all) /\ Len(all) = from + k
        /\ \A i \in 1..from : all[i] = old[i]
        /\ \A i \in 1..k : all[from + i] = new[i]
    BY <1>6, <1>7, SeqsJoin
  <1> HIDE DEF all
  <1>9. ASSUME NEW i \in 1..(from + k) PROVE all[i] = Entry(i)
    <2>1. CASE i <= from
      <3>1. i \in 1..from
        BY <2>1, <1>1
      <3> QED
        BY <3>1, <1>5, <1>8
    <2>2. CASE i > from
      <3>1. i - from \in 1..k /\ from + (i - from) = i
        BY <2>2, <1>1
      <3>2. all[i] = new[i - from]
        BY <3>1, <1>8
      <3> QED
        BY <3>1, <3>2, <1>4
    <2> QED
      BY <2>1, <2>2, <1>1
  <1>10. all = [i \in 1..(from + k) |-> Entry(i)]
    <2>1. IsSeq(all) /\ DOMAIN all = 1..(from + k)
      BY <1>8, SeqHas
    <2>2. all = [i \in 1..(from + k) |-> all[i]]
      <3>1. PICK T : all \in Seq(T)
        BY <2>1 DEF IsSeq
      <3> QED
        BY <2>1, <3>1
    <2> QED
      BY <2>2, <1>9, Zenon
  <1>11. AllTo(text, from + k) = [i \in 1..(from + k) |-> Entry(i)]
    BY Zenon DEF AllTo, Entry
  <1>12. ASSUME NEW s \in (from + 1)..(from + k) PROVE text[s] # << >>
    <2>1. PICK i \in DOMAIN rows : rows[i] = s
      BY <1>2 DEF ToSet
    <2> QED
      BY <2>1 DEF BlockStands, Anchorable
  <1> QED
    BY <1>1, <1>10, <1>11, <1>12 DEF all, old, new, from

-----------------------------------------------------------------------------
(* The evidence, worked through block after block. *)

Proving(text, blocks, requests) ==
    [name |-> "evidence", text |-> text, blocks |-> blocks, requests |-> requests]

Unproven == [stands |-> TRUE, cursor |-> 1, suggestions |-> << >>]

Ids(blocks) == [b \in DOMAIN blocks |-> b]

ProvenBy(w, text, blocks, requests) ==
    Walk(w, Proving(text, blocks, requests), Unproven, Ids(blocks), 1..Len(Ids(blocks)))

ProofOf(text, blocks, requests) ==
    FoldLeft(LAMBDA at, b : Retaken(text, blocks, requests, at, b), Unproven, Ids(blocks))

LEMMA IdsAre ==
    ASSUME NEW blocks, NEW B \in Nat, DOMAIN blocks = 1..B
    PROVE  Len(Ids(blocks)) = B /\ DOMAIN Ids(blocks) = 1..B /\ \A b \in 1..B : Ids(blocks)[b] = b
  <1>1. DOMAIN Ids(blocks) = 1..B /\ IsTable(Ids(blocks), 1..B)
    BY Zenon DEF Ids, IsTable
  <1>2. Len(Ids(blocks)) = B
    BY <1>1, TableIsSeq
  <1>3. \A b \in 1..B : Ids(blocks)[b] = b
    BY DEF Ids
  <1> QED
    BY <1>1, <1>2, <1>3

LEMMA ProofIs ==
    ASSUME NEW text, NEW blocks, NEW requests, NEW B \in Nat, DOMAIN blocks = 1..B, NEW w,
           ProvenBy(w, text, blocks, requests)
    PROVE  ProofOf(text, blocks, requests) = w[B]
  <1> DEFINE places == 1..B
             start == Unproven
             seq == Ids(blocks)
             fold == Proving(text, blocks, requests)
             Wanted(g) == [s \in SUBSET places |->
                 IF s = {} THEN start ELSE Retaken(text, blocks, requests, g[s \ {Max(s)}], seq[Max(s)])]
             iter == CHOOSE g : g = Wanted(g)
  <1>1. Len(seq) = B /\ DOMAIN seq = places
    BY IdsAre
  <1> HIDE DEF seq, start
  <1>2. ProofOf(text, blocks, requests) = iter[places]
    <2>1. ProofOf(text, blocks, requests) =
              FoldLeft(LAMBDA at, b : Retaken(text, blocks, requests, at, b), start, seq)
      BY Zenon DEF ProofOf, seq, start
    <2> QED
      BY <1>1, <2>1, Zenon DEF FoldLeft, MapThenFoldSet
  <1>3. \A at, b : Folded(fold, at, b) = Retaken(text, blocks, requests, at, b)
    BY DEF Folded, Proving
  <1> HIDE DEF fold
  <1>4. PICK g : OverSets(g, fold, start, seq) /\ IsTable(g, SUBSET places)
    BY <1>1, OverSetsExists
  <1>5. g = Wanted(g)
    BY <1>1, <1>3, <1>4, Zenon DEF OverSets, IsTable
  <1>6. iter = Wanted(iter)
    BY <1>5, Zenon
  <1> HIDE DEF iter
  <1>7. OverSets(iter, fold, start, seq)
    BY <1>1, <1>3, <1>6 DEF OverSets
  <1>8. Walk(w, fold, start, seq, 1..Len(seq))
    BY DEF ProvenBy, fold, start, seq
  <1>9. iter[1..Len(seq)] = w[Len(seq)]
    BY <1>1, <1>7, <1>8, OverSetsIs
  <1> QED
    BY <1>1, <1>2, <1>9

LEMMA ProvenSteps ==
    ASSUME NEW text, NEW blocks, NEW requests, NEW B \in Nat, DOMAIN blocks = 1..B, NEW w,
           ProvenBy(w, text, blocks, requests)
    PROVE  w[0] = Unproven /\ \A b \in 1..B : w[b] = Retaken(text, blocks, requests, w[b - 1], b)
  <1> DEFINE fold == Proving(text, blocks, requests)
  <1>1. Len(Ids(blocks)) = B /\ \A b \in 1..B : Ids(blocks)[b] = b
    BY IdsAre
  <1>2. \A at, b : Folded(fold, at, b) = Retaken(text, blocks, requests, at, b)
    BY DEF Folded, Proving
  <1> HIDE DEF fold
  <1>3. Walk(w, fold, Unproven, Ids(blocks), 1..B)
    BY <1>1 DEF ProvenBy, fold
  <1>4. w[0] = Unproven
    BY <1>3, Zenon DEF Walk
  <1>5. \A b \in 1..B : w[b] = Retaken(text, blocks, requests, w[b - 1], b)
    BY <1>1, <1>2, <1>3 DEF Walk
  <1> QED
    BY <1>4, <1>5

LEMMA ProofExists ==
    ASSUME NEW text, NEW blocks, NEW requests, NEW B \in Nat, DOMAIN blocks = 1..B
    PROVE  \E w : ProvenBy(w, text, blocks, requests)
  <1> DEFINE fold == Proving(text, blocks, requests)
  <1>1. Len(Ids(blocks)) = B
    BY IdsAre
  <1> HIDE DEF fold
  <1>2. \E w : Walk(w, fold, Unproven, Ids(blocks), 1..Len(Ids(blocks)))
    BY <1>1, WalkExists
  <1> QED
    BY <1>2 DEF ProvenBy, fold

LEMMA EvidenceIs ==
    ASSUME NEW text, NEW blocks, NEW requests, NEW suggestions, NEW B \in Nat, DOMAIN blocks = 1..B, NEW w,
           ProvenBy(w, text, blocks, requests)
    PROVE  EvidenceStands(text, blocks, requests, suggestions) <=>
              w[B].stands /\ w[B].cursor = Len(requests) + 1 /\ w[B].suggestions = suggestions
  <1> DEFINE end == ProofOf(text, blocks, requests)
  <1>1. EvidenceStands(text, blocks, requests, suggestions) <=>
            end.stands /\ end.cursor = Len(requests) + 1 /\ end.suggestions = suggestions
    BY Zenon DEF EvidenceStands, ProofOf, Unproven, Ids
  <1>2. end = w[B]
    BY ProofIs
  <1> HIDE DEF end
  <1> QED
    BY <1>1, <1>2

(* One block of the evidence, when it stands. *)
Asks(requests, i, kind, b) ==
    i \in DOMAIN requests /\ requests[i].kind = kind /\ requests[i].block = b

LEMMA RetakenIs ==
    ASSUME NEW text, NEW blocks, NEW requests, NEW at, NEW b,
           Retaken(text, blocks, requests, at, b).stands
    PROVE  LET next == Retaken(text, blocks, requests, at, b)
               i == at.cursor
               whole == Complete(requests[i].answer, blocks[b])
           IN  /\ at.stands
               /\ Asks(requests, i, "original", b)
               /\ whole => next.cursor = i + 1
               /\ ~whole => Asks(requests, i + 1, "supplement", b) /\ next.cursor = i + 2
  <1> DEFINE next == Retaken(text, blocks, requests, at, b)
             i == at.cursor
             rows == requests[i].answer
             missing == Missing(rows, blocks[b])
             added == requests[i + 1].answer
             whole == Complete(rows, blocks[b])
             all == IF whole THEN rows ELSE rows \o added
             Took(k, kind, segments) ==
                k \in DOMAIN requests /\ requests[k] = Request(kind, b, segments, requests[k].answer)
             good == [stands |-> TRUE, cursor |-> i + (IF whole THEN 1 ELSE 2),
                      suggestions |-> at.suggestions \o Suggested(text, all)]
             bad == [at EXCEPT !.stands = FALSE]
  <1>1. next = IF ~at.stands \/ ~Took(i, "original", blocks[b]) THEN bad
               ELSE IF ~whole /\ ~(/\ Partial(rows, blocks[b])
                                   /\ Took(i + 1, "supplement", missing)
                                   /\ Complete(added, missing))
               THEN bad
               ELSE IF ~BlockStands(text, all, blocks[b]) THEN bad
               ELSE good
    BY Zenon DEF Retaken
  <1>2. \A k, kind, segments : Took(k, kind, segments) => Asks(requests, k, kind, b)
    BY DEF Request, Asks
  <1>3. good.stands /\ good.cursor = IF whole THEN i + 1 ELSE i + 2
    OBVIOUS
  <1>4. bad.stands # TRUE
    OBVIOUS
  <1>5. next.stands
    OBVIOUS
  <1> HIDE DEF next, good, bad, whole, Took, missing, added, all, rows
  <1>6. next = good /\ at.stands /\ Took(i, "original", blocks[b]) /\ (~whole => Took(i + 1, "supplement", missing))
    BY <1>1, <1>4, <1>5
  <1> QED
    BY <1>2, <1>3, <1>6 DEF next, whole, rows

(* What the evidence of the first blocks is made of, up to a place: for    *)
(* every block its original request, and its supplement exactly when the   *)
(* original left something out, each once.                                 *)
Same(r, q) == r.kind = q.kind /\ r.block = q.block

Whole(r, blocks) == Complete(r.answer, blocks[r.block])

Settling(blocks, requests, upto, k) ==
    /\ \A i \in 1..upto : requests[i].block \in 1..k
    /\ \A i, j \in 1..upto : Same(requests[i], requests[j]) => i = j
    /\ \A b \in 1..k : \E i \in 1..upto :
          /\ requests[i].kind = "original" /\ requests[i].block = b
          /\ ~Whole(requests[i], blocks) =>
                \E j \in 1..upto : requests[j].kind = "supplement" /\ requests[j].block = b
    /\ \A i \in 1..upto :
          \/ requests[i].kind = "original"
          \/ /\ requests[i].kind = "supplement"
             /\ \E j \in 1..upto : /\ requests[j].kind = "original" /\ requests[j].block = requests[i].block
                                   /\ ~Whole(requests[j], blocks)

LEMMA SettlingGrows ==
    ASSUME NEW blocks, NEW requests, NEW k \in Nat, NEW upto \in Nat, Settling(blocks, requests, upto, k),
           NEW more \in 1..2,
           requests[upto + 1].kind = "original", requests[upto + 1].block = k + 1,
           more = 1 <=> Whole(requests[upto + 1], blocks),
           more = 2 => requests[upto + 2].kind = "supplement" /\ requests[upto + 2].block = k + 1
    PROVE  Settling(blocks, requests, upto + more, k + 1)
  <1> DEFINE r(i) == requests[i]
             new == upto + more
             first == upto + 1
  <1>1. /\ 1..upto \subseteq 1..new /\ first \in 1..new /\ (more = 2 => upto + 2 \in 1..new)
        /\ \A i \in 1..new : i \in 1..upto \/ i = first \/ (more = 2 /\ i = upto + 2)
        /\ first # upto + 2
        /\ first \notin 1..upto /\ upto + 2 \notin 1..upto
    OBVIOUS
  <1>2. 1..k \subseteq 1..(k + 1) /\ k + 1 \notin 1..k /\ k + 1 \in 1..(k + 1) /\ \A b \in 1..(k + 1) : b \in 1..k \/ b = k + 1
    OBVIOUS
  <1>3. /\ r(first).kind = "original" /\ r(first).block = k + 1
        /\ more = 2 => r(upto + 2).kind = "supplement" /\ r(upto + 2).block = k + 1
        /\ more = 1 \/ more = 2
        /\ more = 1 <=> Whole(r(first), blocks)
    OBVIOUS
  <1>4. /\ \A i \in 1..upto : r(i).block \in 1..k
        /\ \A i, j \in 1..upto : Same(r(i), r(j)) => i = j
    BY DEF Settling
  <1>5. /\ \A b \in 1..k : \E i \in 1..upto :
              /\ r(i).kind = "original" /\ r(i).block = b
              /\ ~Whole(r(i), blocks) => \E j \in 1..upto : r(j).kind = "supplement" /\ r(j).block = b
        /\ \A i \in 1..upto :
              \/ r(i).kind = "original"
              \/ /\ r(i).kind = "supplement"
                 /\ \E j \in 1..upto : /\ r(j).kind = "original" /\ r(j).block = r(i).block
                                       /\ ~Whole(r(j), blocks)
    BY DEF Settling
  <1> HIDE DEF new, first, r
  <1>6. \A i \in 1..new : r(i).block \in 1..(k + 1)
    BY <1>1, <1>2, <1>3, <1>4
  <1>7. ASSUME NEW i \in 1..new, NEW j \in 1..new, Same(r(i), r(j)) PROVE i = j
    <2>1. r(i).kind = r(j).kind /\ r(i).block = r(j).block
      BY <1>7 DEF Same
    <2>2. CASE i \in 1..upto
      <3>1. r(i).block # k + 1
        BY <2>2, <1>2, <1>4
      <3>2. j \in 1..upto
        BY <3>1, <2>1, <1>1, <1>3
      <3> QED
        BY <2>2, <3>2, <1>4, <1>7
    <2>3. CASE i \notin 1..upto
      <3>1. r(i).block = k + 1
        BY <2>3, <1>1, <1>3
      <3>2. j \notin 1..upto
        BY <3>1, <2>1, <1>2, <1>4
      <3> QED
        BY <2>1, <2>3, <3>2, <1>1, <1>3
    <2> QED
      BY <2>2, <2>3
  <1>8. ASSUME NEW b \in 1..(k + 1)
        PROVE  \E i \in 1..new :
                  /\ r(i).kind = "original" /\ r(i).block = b
                  /\ ~Whole(r(i), blocks) => \E j \in 1..new : r(j).kind = "supplement" /\ r(j).block = b
    <2>1. CASE b \in 1..k
      BY <2>1, <1>1, <1>5
    <2>2. CASE b = k + 1
      BY <2>2, <1>1, <1>3
    <2> QED
      BY <2>1, <2>2, <1>2
  <1>9. ASSUME NEW i \in 1..new
        PROVE  \/ r(i).kind = "original"
               \/ /\ r(i).kind = "supplement"
                  /\ \E j \in 1..new : /\ r(j).kind = "original" /\ r(j).block = r(i).block
                                       /\ ~Whole(r(j), blocks)
    <2>1. CASE i \in 1..upto
      BY <2>1, <1>1, <1>5
    <2>2. CASE i = first
      BY <2>2, <1>3
    <2>3. CASE more = 2 /\ i = upto + 2
      BY <2>3, <1>1, <1>3
    <2> QED
      BY <2>1, <2>2, <2>3, <1>1
  <1> QED
    BY <1>6, <1>7, <1>8, <1>9 DEF Settling, new, r

(* What is found to stand consists of that, and of nothing else. *)
LEMMA AcceptedSettles ==
    ASSUME NEW text, NEW blocks, NEW requests, NEW suggestions, NEW B \in Nat, DOMAIN blocks = 1..B,
           IsSeq(requests), EvidenceStands(text, blocks, requests, suggestions)
    PROVE  Settling(blocks, requests, Len(requests), B)
  <1> DEFINE n == Len(requests)
  <1>1. n \in Nat /\ DOMAIN requests = 1..n
    BY SeqHas
  <1>2. PICK w : /\ w[0] = Unproven
                 /\ \A b \in 1..B : w[b] = Retaken(text, blocks, requests, w[b - 1], b)
                 /\ w[B].stands /\ w[B].cursor = n + 1
    <2>1. PICK w : ProvenBy(w, text, blocks, requests)
      BY ProofExists
    <2>2. w[0] = Unproven /\ \A b \in 1..B : w[b] = Retaken(text, blocks, requests, w[b - 1], b)
      BY <2>1, ProvenSteps
    <2>3. w[B].stands /\ w[B].cursor = n + 1
      BY <2>1, EvidenceIs
    <2> QED
      BY <2>2, <2>3
  <1> HIDE DEF n
  <1> DEFINE Good(k) == w[k].stands => w[k].cursor \in 1..(n + 1) /\ Settling(blocks, requests, w[k].cursor - 1, k)
             S == {k \in 0..B : Good(k)}
  <1>3. 0 \in S
    <2>1. Unproven.cursor = 1
      BY DEF Unproven
    <2>2. w[0].cursor = 1 /\ 1 - 1 = 0 /\ 1..0 = {}
      BY <1>2, <2>1
    <2>3. Settling(blocks, requests, 0, 0)
      BY <2>2 DEF Settling
    <2> QED
      BY <2>2, <2>3, <1>1
  <1>4. ASSUME NEW k \in 0..(B - 1), k \in S PROVE k + 1 \in S
    <2>1. k \in Nat /\ k + 1 \in 1..B /\ k + 1 \in 0..B /\ (k + 1) - 1 = k /\ Good(k)
      BY <1>4
    <2> HIDE DEF S, Good
    <2>2. ASSUME w[k + 1].stands
          PROVE  w[k + 1].cursor \in 1..(n + 1) /\ Settling(blocks, requests, w[k + 1].cursor - 1, k + 1)
      <3> DEFINE at == w[k]
                 next == w[k + 1]
                 c == at.cursor
                 whole == Complete(requests[c].answer, blocks[k + 1])
      <3>1. next = Retaken(text, blocks, requests, at, k + 1)
        BY <1>2, <2>1
      <3>2. /\ at.stands
            /\ Asks(requests, c, "original", k + 1)
            /\ whole => next.cursor = c + 1
            /\ ~whole => Asks(requests, c + 1, "supplement", k + 1) /\ next.cursor = c + 2
        BY <2>2, <3>1, RetakenIs
      <3>3. c \in 1..(n + 1) /\ Settling(blocks, requests, c - 1, k)
        BY <2>1, <3>2 DEF Good
      <3> HIDE DEF at, next, c
      <3>4. /\ c \in 1..n /\ requests[c].kind = "original" /\ requests[c].block = k + 1
            /\ whole <=> Whole(requests[c], blocks)
        BY <1>1, <3>2 DEF Asks, Whole
      <3>5. ~whole => c + 1 \in 1..n /\ requests[c + 1].kind = "supplement" /\ requests[c + 1].block = k + 1
        BY <1>1, <3>2 DEF Asks
      <3> HIDE DEF whole
      <3> DEFINE more == IF whole THEN 1 ELSE 2
                 upto == c - 1
      <3>6. /\ upto \in Nat /\ upto + 1 = c /\ upto + 2 = c + 1 /\ more \in 1..2
            /\ (more = 1 <=> whole) /\ (more = 2 <=> ~whole)
        BY <1>1, <3>4
      <3> HIDE DEF more, upto
      <3>7. Settling(blocks, requests, upto + more, k + 1)
        BY <2>1, <3>3, <3>4, <3>5, <3>6, SettlingGrows DEF upto
      <3>8. next.cursor = c + more /\ next.cursor \in 1..(n + 1) /\ next.cursor - 1 = upto + more
        BY <1>1, <3>2, <3>4, <3>5, <3>6
      <3> QED
        BY <3>7, <3>8 DEF next
    <2> QED
      BY <2>1, <2>2 DEF S, Good
  <1> HIDE DEF S
  <1>5. B \in S
    <2>1. 0..B \subseteq S
      BY <1>3, <1>4, UpTo, Zenon
    <2> QED
      BY <2>1
  <1>6. (n + 1) - 1 = n
    BY <1>1
  <1> QED
    BY <1>2, <1>5, <1>6 DEF S, n

(* A request is neither to be left out nor to be repeated. *)
LEMMA NothingToSpare ==
    ASSUME NEW text, NEW blocks, NEW requests, NEW suggestions, NEW B \in Nat, DOMAIN blocks = 1..B,
           IsSeq(requests), EvidenceStands(text, blocks, requests, suggestions), NEW i \in DOMAIN requests
    PROVE  /\ ~EvidenceStands(text, blocks, RemoveAt(requests, i), suggestions)
           /\ ~EvidenceStands(text, blocks,
                              SubSeq(requests, 1, i) \o SubSeq(requests, i, Len(requests)), suggestions)
  <1> DEFINE n == Len(requests)
  <1>1. n \in Nat /\ DOMAIN requests = 1..n /\ i \in 1..n
    BY SeqHas
  <1>2. PICK T : requests \in Seq(T)
    BY DEF IsSeq
  <1>3. Settling(blocks, requests, n, B)
    BY AcceptedSettles
  <1>4. ASSUME EvidenceStands(text, blocks, RemoveAt(requests, i), suggestions) PROVE FALSE
    <2> DEFINE less == RemoveAt(requests, i)
    <2>1. less \in Seq(T) /\ Len(less) = n - 1 /\ \A j \in 1..(n - 1) : less[j] = requests[IF j < i THEN j ELSE j + 1]
      <3> DEFINE a == SubSeq(requests, 1, i - 1)
                 z == SubSeq(requests, i + 1, n)
      <3>1. a \in Seq(T) /\ Len(a) = i - 1 /\ \A j \in 1..(i - 1) : a[j] = requests[j]
        BY <1>1, <1>2
      <3>2. z \in Seq(T) /\ Len(z) = n - i /\ \A j \in 1..(n - i) : z[j] = requests[i + j]
        BY <1>1, <1>2
      <3>3. less = a \o z
        BY DEF RemoveAt
      <3> HIDE DEF a, z, less, n
      <3>4. less \in Seq(T) /\ Len(less) = n - 1
        <4>1. a \o z \in Seq(T) /\ Len(a \o z) = Len(a) + Len(z)
          BY <3>1, <3>2
        <4>2. (i - 1) + (n - i) = n - 1
          BY <1>1
        <4> QED
          BY <3>1, <3>2, <3>3, <4>1, <4>2
      <3> DEFINE before == i - 1
                 after == n - i
      <3>6. before \in Nat /\ after \in Nat /\ before + after = n - 1 /\ n \in Nat
        BY <1>1
      <3>7. /\ \A j \in 1..before : less[j] = a[j]
            /\ \A j \in 1..after : less[before + j] = z[j]
        <4>1. IsSeq(a) /\ IsSeq(z)
          BY <3>1, <3>2, Zenon DEF IsSeq
        <4> QED
          BY <4>1, <3>1, <3>2, <3>3, SeqsJoin
      <3>5. ASSUME NEW j \in 1..(n - 1) PROVE less[j] = requests[IF j < i THEN j ELSE j + 1]
        <4>1. CASE j < i
          <5>1. j \in 1..before /\ j \in 1..(i - 1)
            BY <4>1, <1>1
          <5>2. less[j] = a[j] /\ a[j] = requests[j]
            BY <5>1, <3>1, <3>7
          <5> QED
            BY <4>1, <5>2
        <4>2. CASE j >= i
          <5> DEFINE m == j - before
          <5>1. m \in 1..after /\ m \in 1..(n - i) /\ before + m = j /\ i + m = j + 1
            BY <4>2, <1>1
          <5> HIDE DEF m, before, after
          <5>2. less[before + m] = z[m] /\ z[m] = requests[i + m]
            BY <5>1, <3>2, <3>7
          <5>3. less[j] = requests[j + 1]
            BY <5>1, <5>2
          <5>4. ~(j < i)
            BY <4>2, <1>1
          <5> QED
            BY <5>3, <5>4
        <4> QED
          BY <4>1, <4>2, <1>1
      <3> QED
        BY <3>4, <3>5
    <2>2. Settling(blocks, less, n - 1, B)
      <3>1. IsSeq(less)
        BY <2>1, Zenon DEF IsSeq
      <3> QED
        BY <1>4, <2>1, <3>1, AcceptedSettles
    <2> HIDE DEF less, n
    <2>3. ASSUME NEW j \in 1..(n - 1) PROVE \E m \in 1..n : m # i /\ less[j] = requests[m]
      <3> DEFINE m == IF j < i THEN j ELSE j + 1
      <3>1. m \in 1..n /\ m # i
        BY <1>1
      <3> QED
        BY <2>1, <3>1
    <2>4. requests[i].block \in 1..B
      BY <1>1, <1>3 DEF Settling
    <2>5. \A j, m \in 1..n : Same(requests[j], requests[m]) => j = m
      BY <1>3 DEF Settling
    <2>6. PICK o \in 1..(n - 1) :
              /\ less[o].kind = "original" /\ less[o].block = requests[i].block
              /\ ~Whole(less[o], blocks) =>
                    \E j \in 1..(n - 1) : less[j].kind = "supplement" /\ less[j].block = requests[i].block
      BY <2>2, <2>4 DEF Settling
    <2>7. PICK p \in 1..n : p # i /\ less[o] = requests[p]
      BY <2>3
    <2>8. CASE requests[i].kind = "original"
      <3>1. Same(requests[p], requests[i])
        BY <2>6, <2>7, <2>8 DEF Same
      <3> QED
        BY <2>5, <2>7, <3>1, <1>1
    <2>9. CASE requests[i].kind # "original"
      <3>1. /\ requests[i].kind = "supplement"
            /\ \E j \in 1..n : /\ requests[j].kind = "original" /\ requests[j].block = requests[i].block
                               /\ ~Whole(requests[j], blocks)
        BY <1>1, <1>3, <2>9 DEF Settling
      <3>2. PICK q \in 1..n : /\ requests[q].kind = "original" /\ requests[q].block = requests[i].block
                              /\ ~Whole(requests[q], blocks)
        BY <3>1
      <3>3. Same(requests[p], requests[q])
        BY <2>6, <2>7, <3>2 DEF Same
      <3>4. ~Whole(less[o], blocks)
        BY <2>5, <2>7, <3>2, <3>3
      <3>5. PICK j \in 1..(n - 1) : less[j].kind = "supplement" /\ less[j].block = requests[i].block
        BY <2>6, <3>4
      <3>6. PICK m \in 1..n : m # i /\ less[j] = requests[m]
        BY <2>3
      <3>7. Same(requests[m], requests[i])
        BY <3>1, <3>5, <3>6 DEF Same
      <3> QED
        BY <2>5, <3>6, <3>7, <1>1
    <2> QED
      BY <2>8, <2>9
  <1>5. ASSUME EvidenceStands(text, blocks, SubSeq(requests, 1, i) \o SubSeq(requests, i, n), suggestions) PROVE FALSE
    <2> DEFINE a == SubSeq(requests, 1, i)
               z == SubSeq(requests, i, n)
               twice == a \o z
    <2>1. a \in Seq(T) /\ Len(a) = i /\ a[i] = requests[i]
      BY <1>1, <1>2
    <2>2. z \in Seq(T) /\ Len(z) = n - i + 1 /\ z[1] = requests[i]
      BY <1>1, <1>2
    <2> HIDE DEF a, z
    <2>3. twice \in Seq(T) /\ Len(twice) = n + 1 /\ twice[i] = requests[i] /\ twice[i + 1] = requests[i]
      <3>1. IsSeq(a) /\ IsSeq(z)
        BY <2>1, <2>2, Zenon DEF IsSeq
      <3>2. i \in 1..Len(a) /\ 1 \in 1..Len(z) /\ Len(a) + 1 = i + 1
        BY <1>1, <2>1, <2>2
      <3>3. twice[i] = a[i] /\ twice[Len(a) + 1] = z[1]
        BY <3>1, <3>2, SeqsJoin
      <3>4. twice \in Seq(T) /\ Len(twice) = n + 1
        BY <1>1, <2>1, <2>2
      <3> HIDE DEF twice
      <3> QED
        BY <2>1, <2>2, <3>2, <3>3, <3>4
    <2>4. IsSeq(twice)
      BY <2>3, Zenon DEF IsSeq
    <2>5. Settling(blocks, twice, n + 1, B)
      BY <1>5, <2>3, <2>4, AcceptedSettles DEF a, z
    <2>6. i \in 1..(n + 1) /\ i + 1 \in 1..(n + 1) /\ i # i + 1
      BY <1>1
    <2>7. Same(twice[i], twice[i + 1])
      BY <2>3 DEF Same
    <2> QED
      BY <2>5, <2>6, <2>7 DEF Settling
  <1> QED
    BY <1>4, <1>5

(* The next place in the evidence, when a block stands. *)
TakenOn(at, n, suggestions) ==
    [stands |-> TRUE, cursor |-> at.cursor + n, suggestions |-> at.suggestions \o suggestions]

LEMMA RetakenWhole ==
    ASSUME NEW text, NEW blocks, NEW requests, NEW at, NEW b, NEW rows, at.stands,
           at.cursor \in DOMAIN requests, requests[at.cursor] = Request("original", b, blocks[b], rows),
           Complete(rows, blocks[b]), BlockStands(text, rows, blocks[b])
    PROVE  Retaken(text, blocks, requests, at, b) = TakenOn(at, 1, Suggested(text, rows))
  <1> DEFINE mine == requests[at.cursor].answer
             Took(i, kind, segments) ==
                i \in DOMAIN requests /\ requests[i] = Request(kind, b, segments, requests[i].answer)
  <1>1. at.stands
    OBVIOUS
  <1>2. mine = rows
    BY <1>1 DEF Request
  <1>3. Took(at.cursor, "original", blocks[b])
    BY <1>1, <1>2
  <1> HIDE DEF mine, Took
  <1> DEFINE added == requests[at.cursor + 1].answer
             missing == Missing(mine, blocks[b])
             whole == Complete(mine, blocks[b])
             all == IF whole THEN mine ELSE mine \o added
  <1>4. whole /\ all = rows
    BY <1>2
  <1>5. Retaken(text, blocks, requests, at, b) =
            IF ~at.stands \/ ~Took(at.cursor, "original", blocks[b]) THEN [at EXCEPT !.stands = FALSE]
            ELSE IF ~whole /\ ~(/\ Partial(mine, blocks[b])
                                /\ Took(at.cursor + 1, "supplement", missing)
                                /\ Complete(added, missing))
            THEN [at EXCEPT !.stands = FALSE]
            ELSE IF ~BlockStands(text, all, blocks[b]) THEN [at EXCEPT !.stands = FALSE]
            ELSE [stands |-> TRUE, cursor |-> at.cursor + (IF whole THEN 1 ELSE 2),
                  suggestions |-> at.suggestions \o Suggested(text, all)]
    BY Zenon DEF Retaken, mine, Took
  <1> HIDE DEF added, missing, whole, all
  <1>6. Retaken(text, blocks, requests, at, b) =
            [stands |-> TRUE, cursor |-> at.cursor + (IF whole THEN 1 ELSE 2),
             suggestions |-> at.suggestions \o Suggested(text, all)]
    BY <1>1, <1>3, <1>4, <1>5, Zenon
  <1> QED
    BY <1>4, <1>6 DEF TakenOn

LEMMA RetakenCompleted ==
    ASSUME NEW text, NEW blocks, NEW requests, NEW at, NEW b, NEW rows, NEW more, at.stands,
           at.cursor \in DOMAIN requests, requests[at.cursor] = Request("original", b, blocks[b], rows),
           Partial(rows, blocks[b]), at.cursor + 1 \in DOMAIN requests,
           requests[at.cursor + 1] = Request("supplement", b, Missing(rows, blocks[b]), more),
           Complete(more, Missing(rows, blocks[b])), BlockStands(text, rows \o more, blocks[b])
    PROVE  Retaken(text, blocks, requests, at, b) = TakenOn(at, 2, Suggested(text, rows \o more))
  <1> DEFINE mine == requests[at.cursor].answer
             added == requests[at.cursor + 1].answer
             Took(i, kind, segments) ==
                i \in DOMAIN requests /\ requests[i] = Request(kind, b, segments, requests[i].answer)
  <1>1. at.stands
    OBVIOUS
  <1>2. mine = rows /\ added = more
    BY <1>1 DEF Request
  <1>3. Took(at.cursor, "original", blocks[b]) /\ Took(at.cursor + 1, "supplement", Missing(mine, blocks[b]))
    BY <1>1, <1>2
  <1> HIDE DEF mine, added, Took
  <1> DEFINE missing == Missing(mine, blocks[b])
             whole == Complete(mine, blocks[b])
             all == IF whole THEN mine ELSE mine \o added
  <1>4. ~whole /\ all = rows \o more /\ Complete(added, missing) /\ Partial(mine, blocks[b])
    <2>1. ~whole
      BY <1>2 DEF Partial
    <2> QED
      BY <1>2, <2>1
  <1>5. Retaken(text, blocks, requests, at, b) =
            IF ~at.stands \/ ~Took(at.cursor, "original", blocks[b]) THEN [at EXCEPT !.stands = FALSE]
            ELSE IF ~whole /\ ~(/\ Partial(mine, blocks[b])
                                /\ Took(at.cursor + 1, "supplement", missing)
                                /\ Complete(added, missing))
            THEN [at EXCEPT !.stands = FALSE]
            ELSE IF ~BlockStands(text, all, blocks[b]) THEN [at EXCEPT !.stands = FALSE]
            ELSE [stands |-> TRUE, cursor |-> at.cursor + (IF whole THEN 1 ELSE 2),
                  suggestions |-> at.suggestions \o Suggested(text, all)]
    BY Zenon DEF Retaken, mine, added, Took
  <1>6. Took(at.cursor + 1, "supplement", missing)
    BY <1>3
  <1> HIDE DEF missing, whole, all
  <1>7. Retaken(text, blocks, requests, at, b) =
            [stands |-> TRUE, cursor |-> at.cursor + (IF whole THEN 1 ELSE 2),
             suggestions |-> at.suggestions \o Suggested(text, all)]
    BY <1>1, <1>3, <1>4, <1>5, <1>6, Zenon
  <1> QED
    BY <1>4, <1>7 DEF TakenOn

(* What stood before stands in the same way when requests are added. *)
LEMMA RetakenStays ==
    ASSUME NEW text, NEW blocks, NEW requests, NEW x, IsSeq(requests), NEW at, NEW b,
           Retaken(text, blocks, requests, at, b).stands
    PROVE  Retaken(text, blocks, Append(requests, x), at, b) = Retaken(text, blocks, requests, at, b)
  <1> DEFINE others == Append(requests, x)
             i == at.cursor
             whole == Complete(requests[i].answer, blocks[b])
  <1>1. /\ at.stands /\ i \in DOMAIN requests
        /\ ~whole => i + 1 \in DOMAIN requests
    BY RetakenIs DEF Asks
  <1>2. \A j \in DOMAIN requests : j \in DOMAIN others /\ others[j] = requests[j]
    <2>1. DOMAIN requests = 1..Len(requests) /\ Len(requests) \in Nat
      BY SeqHas
    <2>2. Len(others) = Len(requests) + 1 /\ DOMAIN others = 1..Len(others)
      BY SeqGrows, SeqHas
    <2> QED
      BY <2>1, <2>2, SeqGrows
  <1> HIDE DEF others, i, whole
  <1> DEFINE Took(reqs, k, kind, segments) ==
                k \in DOMAIN reqs /\ reqs[k] = Request(kind, b, segments, reqs[k].answer)
             All(reqs) == IF Complete(reqs[i].answer, blocks[b]) THEN reqs[i].answer
                          ELSE reqs[i].answer \o reqs[i + 1].answer
             Good(reqs) == /\ Took(reqs, i, "original", blocks[b])
                           /\ ~Complete(reqs[i].answer, blocks[b]) =>
                                /\ Partial(reqs[i].answer, blocks[b])
                                /\ Took(reqs, i + 1, "supplement", Missing(reqs[i].answer, blocks[b]))
                                /\ Complete(reqs[i + 1].answer, Missing(reqs[i].answer, blocks[b]))
                           /\ BlockStands(text, All(reqs), blocks[b])
             Onward(reqs) == IF at.stands /\ Good(reqs)
                             THEN [stands |-> TRUE,
                                   cursor |-> i + (IF Complete(reqs[i].answer, blocks[b]) THEN 1 ELSE 2),
                                   suggestions |-> at.suggestions \o Suggested(text, All(reqs))]
                             ELSE [at EXCEPT !.stands = FALSE]
  <1>3. ASSUME NEW reqs PROVE Retaken(text, blocks, reqs, at, b) = Onward(reqs)
    BY Zenon DEF Retaken, i
  <1>4. others[i] = requests[i] /\ (~whole => others[i + 1] = requests[i + 1])
    BY <1>1, <1>2
  <1>5. All(others) = All(requests)
    BY <1>4 DEF whole
  <1>6. Took(others, i, "original", blocks[b]) <=> Took(requests, i, "original", blocks[b])
    BY <1>1, <1>2
  <1>7. ~whole => (Took(others, i + 1, "supplement", Missing(others[i].answer, blocks[b])) <=>
                   Took(requests, i + 1, "supplement", Missing(requests[i].answer, blocks[b])))
    BY <1>1, <1>2, <1>4
  <1> HIDE DEF All, Took
  <1>8. Good(others) <=> Good(requests)
    BY <1>4, <1>5, <1>6, <1>7 DEF whole
  <1> HIDE DEF Good
  <1>9. Onward(others) = Onward(requests)
    BY <1>4, <1>5, <1>8
  <1> HIDE DEF Onward
  <1> QED
    BY <1>3, <1>9 DEF others

LEMMA ProofStays ==
    ASSUME NEW text, NEW blocks, NEW requests, NEW x, IsSeq(requests), NEW B \in Nat, DOMAIN blocks = 1..B,
           NEW w, ProvenBy(w, text, blocks, requests), NEW v, ProvenBy(v, text, blocks, Append(requests, x)),
           NEW k \in 0..B, w[k].stands
    PROVE  v[k] = w[k]
  <1> DEFINE others == Append(requests, x)
  <1>1. /\ w[0] = Unproven /\ v[0] = Unproven
        /\ \A b \in 1..B : /\ w[b] = Retaken(text, blocks, requests, w[b - 1], b)
                           /\ v[b] = Retaken(text, blocks, others, v[b - 1], b)
    BY ProvenSteps
  <1> HIDE DEF others
  <1> DEFINE S == {m \in 0..B : w[m].stands => v[m] = w[m]}
  <1>2. 0 \in S
    BY <1>1
  <1>3. ASSUME NEW m \in 0..(B - 1), m \in S PROVE m + 1 \in S
    <2>1. m + 1 \in 1..B /\ m + 1 \in 0..B /\ (m + 1) - 1 = m
      OBVIOUS
    <2>2. ASSUME w[m + 1].stands PROVE v[m + 1] = w[m + 1]
      <3>1. w[m + 1] = Retaken(text, blocks, requests, w[m], m + 1) /\ v[m + 1] = Retaken(text, blocks, others, v[m], m + 1)
        BY <1>1, <2>1
      <3>2. Retaken(text, blocks, others, w[m], m + 1) = w[m + 1] /\ w[m].stands
        BY <2>2, <3>1, RetakenStays, RetakenIs DEF others
      <3>3. v[m] = w[m]
        BY <1>3, <3>2
      <3> QED
        BY <3>1, <3>2, <3>3
    <2> QED
      BY <2>1, <2>2
  <1> HIDE DEF S
  <1>4. 0..B \subseteq S
    BY <1>2, <1>3, UpTo, Zenon
  <1>5. k \in S
    BY <1>4
  <1> QED
    BY <1>5 DEF S

-----------------------------------------------------------------------------
(* The invariant of a run: what it has asked so far is the evidence of the *)
(* blocks that are done, and their suggestions are those of the first      *)
(* segments; a supplement is asked for what the last answer left out.      *)

RunFields == {"text", "blocks", "block", "rows", "missing", "requests", "suggestions", "state"}

Running == {"original", "supplement", "answered", "published"}

ProvenTo(text, blocks, requests, k, at) == \A w : ProvenBy(w, text, blocks, requests) => w[k] = at

SoFar(r, cut) ==
    /\ r.suggestions = AllTo(r.text, cut[r.block - 1])
    /\ \A s \in 1..cut[r.block - 1] : r.text[s] # << >>
    /\ ProvenTo(r.text, r.blocks, r.requests, r.block - 1,
                [stands |-> TRUE, cursor |-> Len(r.requests) + (IF r.state = "supplement" THEN 0 ELSE 1),
                 suggestions |-> r.suggestions])

Supplementing(r) ==
    /\ Len(r.requests) > 0
    /\ r.requests[Len(r.requests)] = Request("original", r.block, r.blocks[r.block], r.rows)
    /\ Partial(r.rows, r.blocks[r.block])
    /\ r.missing = Missing(r.rows, r.blocks[r.block])

RunStands(r) ==
    /\ DOMAIN r = RunFields
    /\ IsText(r.text) /\ IsSeq(r.requests)
    /\ \E cut : Cuts(cut, Len(r.text), r.blocks) /\ SoFar(r, cut)
    /\ r.block \in 1..(Len(r.blocks) + 1)
    /\ r.state \in {"original", "supplement"} <=> r.block <= Len(r.blocks)
    /\ r.state = "supplement" => Supplementing(r)

RunOK == run.state \in Running => RunStands(run)

LEMMA BegunStands ==
    ASSUME NEW text, IsText(text), NEW size \in Nat \ {0}
    PROVE  RunStands(Begun(text, size)) /\ Begun(text, size).state \in Running
  <1> DEFINE r == Begun(text, size)
             blocks == Blocks(text, size)
  <1>1. Len(text) \in Nat \ {0}
    BY SeqHas DEF IsText
  <1>2. PICK cut : Cuts(cut, Len(text), blocks)
    BY <1>1, BlocksAre
  <1> HIDE DEF blocks
  <1>3. /\ DOMAIN r = RunFields /\ r.text = text /\ r.blocks = blocks /\ r.block = 1 /\ r.state = "original"
        /\ r.requests = << >> /\ r.suggestions = << >>
    BY DEF Begun, RunFields, blocks
  <1> HIDE DEF r
  <1>4. Len(blocks) \in Nat \ {0} /\ DOMAIN blocks = 1..Len(blocks) /\ cut[0] = 0
    BY <1>2 DEF Cuts
  <1>5. IsSeq(r.requests) /\ Len(r.requests) = 0
    <2>1. << >> \in Seq({}) /\ Len(<< >>) = 0
      OBVIOUS
    <2> QED
      BY <1>3, <2>1 DEF IsSeq
  <1>6. SoFar(r, cut)
    <2>1. r.block - 1 = 0 /\ 1..0 = {}
      BY <1>3
    <2>2. AllTo(r.text, 0) = << >>
      BY <2>1 DEF AllTo
    <2>3. ASSUME NEW w, ProvenBy(w, r.text, r.blocks, r.requests) PROVE w[0] = Unproven
      BY <1>3, <1>4, <2>3, ProvenSteps
    <2>4. Unproven = [stands |-> TRUE, cursor |-> Len(r.requests) + (IF r.state = "supplement" THEN 0 ELSE 1),
                      suggestions |-> r.suggestions]
      BY <1>3, <1>5 DEF Unproven
    <2> QED
      BY <1>3, <1>4, <2>1, <2>2, <2>3, <2>4 DEF SoFar, ProvenTo
  <1> QED
    BY <1>2, <1>3, <1>4, <1>5, <1>6 DEF RunStands, Running, r

(* The evidence of a block that was answered as it should be. *)
LEMMA ProofGrows ==
    ASSUME NEW text, NEW blocks, NEW requests, NEW x, IsSeq(requests), NEW B \in Nat, DOMAIN blocks = 1..B,
           NEW k \in 0..B, NEW at, at.stands, ProvenTo(text, blocks, requests, k, at)
    PROVE  ProvenTo(text, blocks, Append(requests, x), k, at)
  <1>1. PICK w : ProvenBy(w, text, blocks, requests)
    BY ProofExists
  <1>2. w[k] = at
    BY <1>1 DEF ProvenTo
  <1>3. ASSUME NEW v, ProvenBy(v, text, blocks, Append(requests, x)) PROVE v[k] = at
    <2>1. w[k].stands
      BY <1>2
    <2>2. v[k] = w[k]
      BY <1>1, <1>3, <2>1, ProofStays
    <2> QED
      BY <1>2, <2>2
  <1> QED
    BY <1>3 DEF ProvenTo

LEMMA BlockEnds ==
    ASSUME NEW r, RunStands(r), r.state \in {"original", "supplement"}, NEW rows, NEW requests, IsSeq(requests),
           BlockStands(r.text, rows, r.blocks[r.block]),
           NEW at, ProvenTo(r.text, r.blocks, requests, r.block - 1, at),
           Retaken(r.text, r.blocks, requests, at, r.block) =
              [stands |-> TRUE, cursor |-> Len(requests) + 1,
               suggestions |-> r.suggestions \o Suggested(r.text, rows)],
           NEW next, DOMAIN next = RunFields, next.text = r.text, next.blocks = r.blocks,
           next.requests = requests, next.block = r.block + 1,
           next.suggestions = r.suggestions \o Suggested(r.text, rows),
           next.state = IF r.block = Len(r.blocks) THEN "answered" ELSE "original"
    PROVE  RunStands(next)
  <1> DEFINE b == r.block
             B == Len(r.blocks)
  <1>1. PICK cut : Cuts(cut, Len(r.text), r.blocks) /\ SoFar(r, cut)
    BY DEF RunStands
  <1>2. B \in Nat \ {0} /\ DOMAIN r.blocks = 1..B /\ b \in 1..B /\ IsText(r.text)
    BY <1>1 DEF Cuts, RunStands
  <1>3. Len(r.text) \in Nat /\ cut[b - 1] \in 0..Len(r.text) /\ cut[b] \in 0..Len(r.text)
    <2>1. Len(r.text) \in Nat
      BY <1>2, SeqHas DEF IsText
    <2> QED
      BY <1>1, <1>2, <2>1, CutsRise
  <1>4. /\ AllTo(r.text, cut[b - 1]) \o Suggested(r.text, rows) = AllTo(r.text, cut[b])
        /\ \A s \in (cut[b - 1] + 1)..cut[b] : r.text[s] # << >>
    <2> DEFINE text == r.text
               blocks == r.blocks
    <2>1. IsText(text) /\ Cuts(cut, Len(text), blocks) /\ b \in 1..Len(blocks) /\ BlockStands(text, rows, blocks[b])
      BY <1>1, <1>2
    <2> HIDE DEF text, blocks, b
    <2>2. /\ AllTo(text, cut[b - 1]) \o Suggested(text, rows) = AllTo(text, cut[b])
          /\ \A s \in (cut[b - 1] + 1)..cut[b] : text[s] # << >>
      BY <2>1, BlockAdds
    <2> QED
      BY <2>2 DEF text
  <1>5. next.block - 1 = b /\ next.block \in 1..(B + 1)
    BY <1>2
  <1>6. next.suggestions = AllTo(r.text, cut[b])
    BY <1>1, <1>4 DEF SoFar
  <1>7. \A s \in 1..cut[b] : r.text[s] # << >>
    <2>1. \A s \in 1..cut[b - 1] : r.text[s] # << >>
      BY <1>1 DEF SoFar
    <2>2. \A s \in 1..cut[b] : s \in 1..cut[b - 1] \/ s \in (cut[b - 1] + 1)..cut[b]
      BY <1>3
    <2> QED
      BY <1>4, <2>1, <2>2
  <1>8. ProvenTo(r.text, r.blocks, requests, b,
                 [stands |-> TRUE, cursor |-> Len(requests) + 1, suggestions |-> next.suggestions])
    <2>1. ASSUME NEW w, ProvenBy(w, r.text, r.blocks, requests)
          PROVE  w[b] = [stands |-> TRUE, cursor |-> Len(requests) + 1, suggestions |-> next.suggestions]
      <3> DEFINE text == r.text
                 blocks == r.blocks
      <3>3. ProvenBy(w, text, blocks, requests) /\ DOMAIN blocks = 1..B /\ B \in Nat /\ b \in 1..B
        BY <1>2, <2>1
      <3> HIDE DEF text, blocks, b, B
      <3>4. w[b] = Retaken(text, blocks, requests, w[b - 1], b)
        BY <3>3, ProvenSteps
      <3>1. w[b] = Retaken(r.text, r.blocks, requests, w[b - 1], b)
        BY <3>4 DEF text, blocks
      <3> USE DEF b
      <3>2. w[b - 1] = at
        BY <2>1 DEF ProvenTo
      <3> QED
        BY <3>1, <3>2
    <2> QED
      BY <2>1 DEF ProvenTo
  <1>9. next.state # "supplement" /\ (next.state \in {"original", "supplement"} <=> next.block <= B)
    BY <1>2
  <1>10. SoFar(next, cut)
    BY <1>5, <1>6, <1>7, <1>8, <1>9 DEF SoFar
  <1> QED
    BY <1>1, <1>2, <1>5, <1>9, <1>10 DEF RunStands

LEMMA FailedStands == Failed => RunOK'
  <1> SUFFICES ASSUME Failed PROVE run'.state = "failed"
    BY DEF RunOK, Running
  <1>1. run' = [NoRun EXCEPT !.state = "failed"]
    BY DEF Failed
  <1> QED
    BY <1>1 DEF NoRun

(* A block that does not stand ends the run, one that does moves it on. *)
LEMMA EndBlockStands ==
    ASSUME RunStands(run), run.state \in {"original", "supplement"}, NEW rows, NEW requests, IsSeq(requests),
           NEW at, ProvenTo(run.text, run.blocks, requests, run.block - 1, at),
           BlockStands(run.text, rows, run.blocks[run.block]) =>
              Retaken(run.text, run.blocks, requests, at, run.block) =
                 [stands |-> TRUE, cursor |-> Len(requests) + 1,
                  suggestions |-> run.suggestions \o Suggested(run.text, rows)],
           EndBlock(rows, requests)
    PROVE  RunOK'
  <1>1. CASE ~BlockStands(run.text, rows, run.blocks[run.block])
    <2>1. run' = [NoRun EXCEPT !.state = "failed"]
      BY <1>1, Zenon DEF EndBlock, Failed
    <2>2. run'.state = "failed"
      BY <2>1 DEF NoRun
    <2> QED
      BY <2>2 DEF RunOK, Running
  <1>2. CASE BlockStands(run.text, rows, run.blocks[run.block])
    <2>1. run' = [run EXCEPT !.requests = requests,
                             !.suggestions = @ \o Suggested(run.text, rows),
                             !.rows = << >>, !.missing = << >>,
                             !.block = @ + 1,
                             !.state = IF run.block = Len(run.blocks) THEN "answered" ELSE "original"]
      BY <1>2, Zenon DEF EndBlock
    <2>2. DOMAIN run = RunFields
      BY DEF RunStands
    <2>3. /\ DOMAIN run' = RunFields /\ run'.text = run.text /\ run'.blocks = run.blocks
          /\ run'.requests = requests /\ run'.block = run.block + 1
          /\ run'.suggestions = run.suggestions \o Suggested(run.text, rows)
          /\ run'.state = IF run.block = Len(run.blocks) THEN "answered" ELSE "original"
      BY <2>1, <2>2 DEF RunFields
    <2>4. RunStands(run')
      BY <1>2, <2>3, BlockEnds
    <2> QED
      BY <2>4 DEF RunOK, RunStands
  <1> QED
    BY <1>1, <1>2

LEMMA OriginalKeeps ==
    ASSUME RunOK, NEW answer, AnswerOriginal(answer)
    PROVE  RunOK'
  <1>1. run.state = "original" /\ RunStands(run)
    BY DEF AnswerOriginal, RunOK, Running
  <1> DEFINE b == run.block
             text == run.text
             blocks == run.blocks
             B == Len(blocks)
             x == Request("original", b, blocks[b], answer)
             requests == Asked(answer)
             at == [stands |-> TRUE, cursor |-> Len(run.requests) + 1, suggestions |-> run.suggestions]
  <1>2. PICK cut : Cuts(cut, Len(text), blocks) /\ SoFar(run, cut)
    BY <1>1 DEF RunStands
  <1>3. B \in Nat /\ DOMAIN blocks = 1..B /\ b \in 1..B /\ b - 1 \in 0..B
    <2>1. B \in Nat \ {0} /\ DOMAIN blocks = 1..B /\ run.block \in 1..(B + 1) /\ run.block <= B
      BY <1>1, <1>2 DEF Cuts, RunStands
    <2> QED
      BY <2>1
  <1>4. Expected = blocks[b]
    BY <1>1 DEF Expected
  <1>5. requests = Append(run.requests, x)
    BY <1>1, <1>4 DEF Asked
  <1>6. /\ IsSeq(run.requests) /\ IsSeq(requests) /\ Len(run.requests) \in Nat
        /\ Len(requests) = Len(run.requests) + 1 /\ DOMAIN requests = 1..Len(requests)
        /\ requests[Len(requests)] = x
    <2>1. IsSeq(run.requests)
      BY <1>1 DEF RunStands
    <2> HIDE DEF requests, x
    <2>2. IsSeq(requests) /\ Len(requests) = Len(run.requests) + 1 /\ requests[Len(run.requests) + 1] = x
      BY <1>5, <2>1, SeqGrows
    <2> QED
      BY <2>1, <2>2, SeqHas
  <1> HIDE DEF x, requests, B
  <1>7. ProvenTo(text, blocks, requests, b - 1, at)
    <2>1. ProvenTo(text, blocks, run.requests, b - 1, at) /\ at.stands
      BY <1>1, <1>2 DEF SoFar
    <2> HIDE DEF text, blocks, b, at
    <2>2. ProvenTo(text, blocks, Append(run.requests, x), b - 1, at)
      BY <1>3, <1>6, <2>1, ProofGrows
    <2> QED
      BY <1>5, <2>2
  <1>8. CASE Complete(answer, Expected)
    <2>1. EndBlock(answer, requests)
      BY <1>8, Zenon DEF AnswerOriginal, requests
    <2>2. ASSUME BlockStands(text, answer, blocks[b])
          PROVE  Retaken(text, blocks, requests, at, b) =
                    [stands |-> TRUE, cursor |-> Len(requests) + 1,
                     suggestions |-> run.suggestions \o Suggested(text, answer)]
      <3> DEFINE c == Len(run.requests) + 1
                 old == run.suggestions
      <3>1. c \in DOMAIN requests /\ requests[c] = Request("original", b, blocks[b], answer) /\ Len(requests) = c
        BY <1>6 DEF x
      <3>2. Complete(answer, blocks[b])
        BY <1>4, <1>8
      <3>3. at.stands /\ at.cursor = c /\ at.suggestions = old
        OBVIOUS
      <3> HIDE DEF c, old, text, blocks, b, at
      <3>4. at.cursor \in DOMAIN requests /\ requests[at.cursor] = Request("original", b, blocks[b], answer)
        BY <3>1, <3>3
      <3>5. at.stands
        BY <3>3
      <3>6. Retaken(text, blocks, requests, at, b) = TakenOn(at, 1, Suggested(text, answer))
        BY <2>2, <3>2, <3>4, <3>5, RetakenWhole
      <3> QED
        BY <3>1, <3>3, <3>6 DEF TakenOn, c, old
    <2> HIDE DEF at
    <2> QED
      BY <1>1, <1>6, <1>7, <2>1, <2>2, EndBlockStands
  <1>9. CASE ~Complete(answer, Expected) /\ Partial(answer, Expected)
    <2>1. run' = [run EXCEPT !.requests = requests, !.rows = answer,
                             !.missing = Missing(answer, Expected), !.state = "supplement"]
      BY <1>9, Zenon DEF AnswerOriginal, requests
    <2>2. DOMAIN run = RunFields
      BY <1>1 DEF RunStands
    <2>3. /\ DOMAIN run' = RunFields /\ run'.text = text /\ run'.blocks = blocks /\ run'.block = b
          /\ run'.requests = requests /\ run'.suggestions = run.suggestions /\ run'.state = "supplement"
          /\ run'.rows = answer /\ run'.missing = Missing(answer, blocks[b])
      BY <1>4, <2>1, <2>2 DEF RunFields
    <2>4. Supplementing(run')
      BY <1>4, <1>6, <1>9, <2>3 DEF Supplementing, x
    <2>5. SoFar(run', cut)
      <3>1. at = [stands |-> TRUE, cursor |-> Len(run'.requests) + (IF run'.state = "supplement" THEN 0 ELSE 1),
                  suggestions |-> run'.suggestions]
        <4>1. Len(run'.requests) + (IF run'.state = "supplement" THEN 0 ELSE 1) = Len(run.requests) + 1
          BY <1>6, <2>3
        <4> QED
          BY <2>3, <4>1
      <3> HIDE DEF at
      <3> QED
        BY <1>2, <1>7, <2>3, <3>1 DEF SoFar
    <2>6. IsText(text) /\ b \in 1..(Len(blocks) + 1) /\ b <= Len(blocks)
      BY <1>1, <1>3 DEF RunStands, B
    <2>7. RunStands(run')
      BY <1>2, <1>6, <2>3, <2>4, <2>5, <2>6 DEF RunStands
    <2> QED
      BY <2>7 DEF RunOK
  <1>10. CASE ~Complete(answer, Expected) /\ ~Partial(answer, Expected)
    <2>1. Failed
      BY <1>10, Zenon DEF AnswerOriginal
    <2> QED
      BY <2>1, FailedStands
  <1> QED
    BY <1>8, <1>9, <1>10

LEMMA SupplementKeeps ==
    ASSUME RunOK, NEW answer, AnswerSupplement(answer)
    PROVE  RunOK'
  <1>1. run.state = "supplement" /\ RunStands(run)
    BY DEF AnswerSupplement, RunOK, Running
  <1> DEFINE b == run.block
             text == run.text
             blocks == run.blocks
             B == Len(blocks)
             rows == run.rows
             missing == Missing(rows, blocks[b])
             x == Request("supplement", b, missing, answer)
             requests == Asked(answer)
             c == Len(run.requests)
             old == run.suggestions
             at == [stands |-> TRUE, cursor |-> c, suggestions |-> old]
  <1>2. PICK cut : Cuts(cut, Len(text), blocks) /\ SoFar(run, cut)
    BY <1>1 DEF RunStands
  <1>3. B \in Nat /\ DOMAIN blocks = 1..B /\ b \in 1..B /\ b - 1 \in 0..B
    <2>1. B \in Nat \ {0} /\ DOMAIN blocks = 1..B /\ run.block \in 1..(B + 1) /\ run.block <= B
      BY <1>1, <1>2 DEF Cuts, RunStands
    <2> QED
      BY <2>1
  <1>4. Expected = missing
    BY <1>1 DEF Expected, RunStands, Supplementing
  <1>5. requests = Append(run.requests, x)
    BY <1>1, <1>4 DEF Asked
  <1>6. /\ IsSeq(run.requests) /\ IsSeq(requests) /\ c \in Nat /\ c > 0
        /\ Len(requests) = c + 1 /\ DOMAIN requests = 1..(c + 1)
        /\ requests[c + 1] = x /\ requests[c] = run.requests[c]
    <2>1. IsSeq(run.requests) /\ Len(run.requests) > 0 /\ Len(run.requests) \in Nat
      BY <1>1, SeqHas DEF RunStands, Supplementing
    <2> HIDE DEF requests, x
    <2>2. IsSeq(requests) /\ Len(requests) = c + 1 /\ requests[c + 1] = x /\ \A i \in 1..c : requests[i] = run.requests[i]
      BY <1>5, <2>1, SeqGrows
    <2>3. c \in 1..c
      BY <2>1
    <2> HIDE DEF c
    <2> QED
      BY <2>1, <2>2, <2>3, SeqHas DEF c
  <1>7. run.requests[c] = Request("original", b, blocks[b], rows) /\ Partial(rows, blocks[b])
    BY <1>1 DEF RunStands, Supplementing
  <1> HIDE DEF x, requests, B
  <1>8. ProvenTo(text, blocks, requests, b - 1, at)
    <2>1. ProvenTo(text, blocks, run.requests, b - 1, at) /\ at.stands
      <3>1. c + 0 = c
        BY <1>6
      <3> QED
        BY <1>1, <1>2, <3>1 DEF SoFar
    <2> HIDE DEF text, blocks, b, at
    <2>2. ProvenTo(text, blocks, Append(run.requests, x), b - 1, at)
      BY <1>3, <1>6, <2>1, ProofGrows
    <2> QED
      BY <1>5, <2>2
  <1>9. CASE Complete(answer, Expected)
    <2>1. EndBlock(rows \o answer, requests)
      BY <1>9, Zenon DEF AnswerSupplement, requests
    <2>2. ASSUME BlockStands(text, rows \o answer, blocks[b])
          PROVE  Retaken(text, blocks, requests, at, b) =
                    [stands |-> TRUE, cursor |-> Len(requests) + 1,
                     suggestions |-> run.suggestions \o Suggested(text, rows \o answer)]
      <3>1. /\ c \in DOMAIN requests /\ requests[c] = Request("original", b, blocks[b], rows)
            /\ c + 1 \in DOMAIN requests /\ requests[c + 1] = Request("supplement", b, Missing(rows, blocks[b]), answer)
            /\ Len(requests) + 1 = c + 2
        BY <1>6, <1>7 DEF x
      <3>2. Complete(answer, Missing(rows, blocks[b])) /\ Partial(rows, blocks[b])
        BY <1>4, <1>7, <1>9
      <3>3. at.stands /\ at.cursor = c /\ at.suggestions = old
        OBVIOUS
      <3> HIDE DEF c, old, text, blocks, b, rows, at
      <3>4. /\ at.cursor \in DOMAIN requests /\ requests[at.cursor] = Request("original", b, blocks[b], rows)
            /\ at.cursor + 1 \in DOMAIN requests
            /\ requests[at.cursor + 1] = Request("supplement", b, Missing(rows, blocks[b]), answer)
        BY <3>1, <3>3
      <3>5. at.stands
        BY <3>3
      <3>6. Retaken(text, blocks, requests, at, b) = TakenOn(at, 2, Suggested(text, rows \o answer))
        BY <2>2, <3>2, <3>4, <3>5, RetakenCompleted
      <3> QED
        BY <3>1, <3>3, <3>6 DEF TakenOn, old
    <2> HIDE DEF at
    <2> QED
      BY <1>1, <1>6, <1>8, <2>1, <2>2, EndBlockStands
  <1>10. CASE ~Complete(answer, Expected)
    <2>1. Failed
      BY <1>10, Zenon DEF AnswerSupplement
    <2> QED
      BY <2>1, FailedStands
  <1> QED
    BY <1>9, <1>10

LEMMA PublishKeeps ==
    ASSUME RunOK, Publish
    PROVE  RunOK'
  <1>1. run.state = "answered" /\ RunStands(run) /\ run' = [run EXCEPT !.state = "published"]
    BY DEF Publish, RunOK, Running
  <1>2. /\ DOMAIN run' = RunFields /\ run'.text = run.text /\ run'.blocks = run.blocks /\ run'.block = run.block
        /\ run'.requests = run.requests /\ run'.suggestions = run.suggestions /\ run'.state = "published"
    BY <1>1 DEF RunStands, RunFields
  <1>3. PICK cut : Cuts(cut, Len(run.text), run.blocks) /\ SoFar(run, cut)
    BY <1>1 DEF RunStands
  <1>4. SoFar(run', cut)
    <2>1. run.state # "supplement" /\ run'.state # "supplement"
      BY <1>1, <1>2
    <2> QED
      BY <1>2, <1>3, <2>1 DEF SoFar
  <1>5. ~(run.block <= Len(run.blocks)) /\ run.state # "supplement"
    BY <1>1 DEF RunStands
  <1>6. RunStands(run')
    BY <1>1, <1>2, <1>3, <1>4, <1>5 DEF RunStands
  <1> QED
    BY <1>6 DEF RunOK

(* A step of a run. *)
LEMMA SuggestKeeps ==
    ASSUME RunOK, \A r \in Records : finals[r] # NoFinal => IsText(finals[r]), Suggest
    PROVE  RunOK'
  <1>1. ASSUME NEW r \in Records, NEW size \in BlockSizes, BeginRun(r, size) PROVE RunOK'
    <2>1. IsText(finals[r]) /\ size \in Nat \ {0} /\ run' = Begun(finals[r], size)
      BY <1>1, BlockSizesAssumption DEF BeginRun
    <2> QED
      BY <2>1, BegunStands DEF RunOK
  <1>2. ASSUME NEW answer, AnswerOriginal(answer) PROVE RunOK'
    BY <1>2, OriginalKeeps
  <1>3. ASSUME NEW answer, AnswerSupplement(answer) PROVE RunOK'
    BY <1>3, SupplementKeeps
  <1>4. CASE BreakOff
    BY <1>4, FailedStands DEF BreakOff
  <1>5. CASE Publish
    BY <1>5, PublishKeeps
  <1>6. ASSUME NEW r \in Records, NEW size \in BlockSizes, Reuse(finals[r], size) PROVE RunOK'
    <2>1. run.state = "published" /\ (run' = [run EXCEPT !.state = "reused"] \/ Failed)
      BY <1>6, Zenon DEF Reuse
    <2>2. CASE run' = [run EXCEPT !.state = "reused"]
      <3>1. DOMAIN run = RunFields
        BY <2>1 DEF RunOK, RunStands, Running
      <3>2. run'.state = "reused"
        BY <2>2, <3>1 DEF RunFields
      <3> QED
        BY <3>2 DEF RunOK, Running
    <2> QED
      BY <2>1, <2>2, FailedStands
  <1> QED
    BY <1>1, <1>2, <1>3, <1>4, <1>5, <1>6 DEF Suggest

(* What was published stands as a whole. *)
LEMMA PublishedStands == RunOK => SuggestionsStand
  <1> SUFFICES ASSUME RunOK, run.state = "published"
               PROVE  LET spans == SegmentSpans(run.text)
                          Accepted(requests) == EvidenceStands(run.text, run.blocks, requests, run.suggestions)
                      IN  /\ [i \in DOMAIN run.suggestions |-> run.suggestions[i].segment] = [i \in DOMAIN run.text |-> i]
                          /\ CoveredSegments(spans, AnchorsOf(run.suggestions)) = DOMAIN run.text
                          /\ \A i \in DOMAIN run.suggestions :
                               CoveredSegments(spans, {run.suggestions[i].anchor}) = {run.suggestions[i].segment}
                          /\ Accepted(run.requests)
                          /\ \A i \in DOMAIN run.requests :
                               /\ ~Accepted(RemoveAt(run.requests, i))
                               /\ ~Accepted(SubSeq(run.requests, 1, i) \o SubSeq(run.requests, i, Len(run.requests)))
    BY DEF SuggestionsStand
  <1> DEFINE text == run.text
             n == Len(text)
             blocks == run.blocks
             B == Len(blocks)
             requests == run.requests
             suggestions == run.suggestions
             spans == SegmentSpans(text)
  <1>1. RunStands(run)
    BY DEF RunOK, Running
  <1>2. PICK cut : Cuts(cut, n, blocks) /\ SoFar(run, cut)
    BY <1>1 DEF RunStands
  <1>3. /\ IsText(text) /\ IsSeq(requests) /\ n \in Nat /\ DOMAIN text = 1..n
        /\ B \in Nat /\ DOMAIN blocks = 1..B /\ run.block - 1 = B /\ cut[B] = n
    <2>1. IsText(text) /\ IsSeq(requests) /\ n \in Nat /\ DOMAIN text = 1..n
      BY <1>1, SeqHas DEF RunStands, IsText
    <2>2. B \in Nat /\ DOMAIN blocks = 1..B /\ cut[B] = n
      BY <1>2 DEF Cuts
    <2>3. run.block \in 1..(B + 1) /\ ~(run.block <= B)
      BY <1>1 DEF RunStands
    <2> QED
      BY <2>1, <2>2, <2>3
  <1>4. suggestions = AllTo(text, n) /\ \A s \in 1..n : text[s] # << >>
    BY <1>2, <1>3 DEF SoFar
  <1>5. ProvenTo(text, blocks, requests, B, [stands |-> TRUE, cursor |-> Len(requests) + 1, suggestions |-> suggestions])
    BY <1>2, <1>3 DEF SoFar
  <1> HIDE DEF text, n, blocks, B, requests, suggestions
  <1>6. DOMAIN suggestions = 1..n /\ \A i \in 1..n : suggestions[i].segment = i /\ suggestions[i].anchor = spans[i]
    BY <1>4 DEF AllTo
  <1>7. [i \in DOMAIN suggestions |-> suggestions[i].segment] = [i \in DOMAIN text |-> i]
    BY <1>3, <1>6
  <1>8. \A i \in 1..n : CoveredSegments(spans, {spans[i]}) = {i}
    BY <1>3, <1>4, AnchorCovers DEF n
  <1>9. CoveredSegments(spans, AnchorsOf(suggestions)) = 1..n
    <2>1. DOMAIN spans = 1..n
      BY <1>3, SpansAre DEF n
    <2>2. AnchorsOf(suggestions) = {spans[i] : i \in 1..n}
      BY <1>6 DEF AnchorsOf
    <2> HIDE DEF spans
    <2>3. ASSUME NEW s \in 1..n PROVE s \in CoveredSegments(spans, AnchorsOf(suggestions))
      <3>1. s \in CoveredSegments(spans, {spans[s]})
        BY <1>8
      <3> QED
        BY <2>1, <2>2, <3>1 DEF CoveredSegments
    <2> QED
      BY <2>1, <2>3 DEF CoveredSegments
  <1>10. \A i \in DOMAIN suggestions : CoveredSegments(spans, {suggestions[i].anchor}) = {suggestions[i].segment}
    BY <1>6, <1>8
  <1>11. EvidenceStands(text, blocks, requests, suggestions)
    <2>1. PICK w : ProvenBy(w, text, blocks, requests)
      BY <1>3, ProofExists
    <2>2. w[B] = [stands |-> TRUE, cursor |-> Len(requests) + 1, suggestions |-> suggestions]
      BY <1>5, <2>1 DEF ProvenTo
    <2>3. w[B].stands /\ w[B].cursor = Len(requests) + 1 /\ w[B].suggestions = suggestions
      BY <2>2
    <2> QED
      BY <1>3, <2>1, <2>3, EvidenceIs
  <1>12. \A i \in DOMAIN requests :
            /\ ~EvidenceStands(text, blocks, RemoveAt(requests, i), suggestions)
            /\ ~EvidenceStands(text, blocks, SubSeq(requests, 1, i) \o SubSeq(requests, i, Len(requests)), suggestions)
    BY <1>3, <1>11, NothingToSpare
  <1> QED
    BY <1>3, <1>7, <1>9, <1>10, <1>11, <1>12 DEF text, blocks, requests, suggestions

-----------------------------------------------------------------------------
(* The final text and the draft: the folds they are made by. *)

Rendering(text, reg, assigned) == [name |-> "render", text |-> text, reg |-> reg, assigned |-> assigned]

Blank == [out |-> << >>, cursor |-> 0, entries |-> {}]

RenderOf(text, reg, assigned, order) ==
    FoldLeft(LAMBDA at, m : Rendered(text, reg, assigned, at, m), Blank, order)

LEMMA RenderIs ==
    ASSUME NEW text, NEW reg, NEW assigned, NEW order, Len(order) \in Nat, DOMAIN order = 1..Len(order)
    PROVE  \E f : /\ f[0] = Blank
                  /\ \A k \in 1..Len(order) : f[k] = Rendered(text, reg, assigned, f[k - 1], order[k])
                  /\ RenderOf(text, reg, assigned, order) = f[Len(order)]
  <1> DEFINE places == 1..Len(order)
             fold == Rendering(text, reg, assigned)
             Wanted(g) == [s \in SUBSET places |->
                 IF s = {} THEN Blank ELSE Rendered(text, reg, assigned, g[s \ {Max(s)}], order[Max(s)])]
             iter == CHOOSE g : g = Wanted(g)
  <1>1. RenderOf(text, reg, assigned, order) = iter[places]
    BY Zenon DEF RenderOf, FoldLeft, MapThenFoldSet
  <1>2. \A at, m : Folded(fold, at, m) = Rendered(text, reg, assigned, at, m)
    BY DEF Folded, Rendering
  <1> HIDE DEF fold
  <1>3. PICK g : OverSets(g, fold, Blank, order) /\ IsTable(g, SUBSET places)
    BY OverSetsExists
  <1>4. g = Wanted(g)
    BY <1>2, <1>3, Zenon DEF OverSets, IsTable
  <1>5. iter = Wanted(iter)
    BY <1>4, Zenon
  <1> HIDE DEF iter
  <1>6. OverSets(iter, fold, Blank, order)
    BY <1>2, <1>5 DEF OverSets
  <1>7. PICK f : Walk(f, fold, Blank, order, 1..Len(order))
    BY WalkExists
  <1>8. iter[places] = f[Len(order)]
    BY <1>6, <1>7, OverSetsIs
  <1>9. f[0] = Blank
    BY <1>7, Zenon DEF Walk
  <1>10. \A k \in 1..Len(order) : f[k] = Rendered(text, reg, assigned, f[k - 1], order[k])
    BY <1>2, <1>7 DEF Walk
  <1> QED
    BY <1>1, <1>8, <1>9, <1>10, Zenon

Drafting(text, pol, groups) == [name |-> "draft", text |-> text, policy |-> pol, groups |-> groups]

DraftValue(text, pol, groups, m) == Replacement(text, pol[m.type], m, DraftLabel(groups, m))

DraftOf(text, pol, groups, segment, order) ==
    FoldLeft(LAMBDA seg, m : Replaced(seg, m, Replacement(text, pol[m.type], m, DraftLabel(groups, m))),
             segment, order)

DraftWalk(f, text, pol, groups, segment, order) ==
    /\ f[0] = segment
    /\ \A k \in 1..Len(order) : f[k] = Replaced(f[k - 1], order[k], DraftValue(text, pol, groups, order[k]))
    /\ DraftOf(text, pol, groups, segment, order) = f[Len(order)]

LEMMA DraftIs ==
    ASSUME NEW text, NEW pol, NEW groups, NEW segment, NEW order, Len(order) \in Nat, DOMAIN order = 1..Len(order)
    PROVE  \E f : DraftWalk(f, text, pol, groups, segment, order)
  <1> DEFINE places == 1..Len(order)
             fold == Drafting(text, pol, groups)
             Value(m) == Replacement(text, pol[m.type], m, DraftLabel(groups, m))
             Wanted(g) == [s \in SUBSET places |->
                 IF s = {} THEN segment ELSE Replaced(g[s \ {Max(s)}], order[Max(s)], Value(order[Max(s)]))]
             iter == CHOOSE g : g = Wanted(g)
  <1>1. DraftOf(text, pol, groups, segment, order) = iter[places]
    BY Zenon DEF DraftOf, FoldLeft, MapThenFoldSet
  <1>2. \A at, m : Folded(fold, at, m) = Replaced(at, m, Value(m))
    BY DEF Folded, Drafting
  <1>3. \A m : Value(m) = DraftValue(text, pol, groups, m)
    BY DEF DraftValue
  <1> HIDE DEF fold, Value
  <1>4. PICK g : OverSets(g, fold, segment, order) /\ IsTable(g, SUBSET places)
    BY OverSetsExists
  <1>5. g = Wanted(g)
    BY <1>2, <1>4, Zenon DEF OverSets, IsTable
  <1>6. iter = Wanted(iter)
    BY <1>5, Zenon
  <1> HIDE DEF iter
  <1>7. OverSets(iter, fold, segment, order)
    BY <1>2, <1>6 DEF OverSets
  <1>8. PICK f : Walk(f, fold, segment, order, 1..Len(order))
    BY WalkExists
  <1>9. iter[places] = f[Len(order)]
    BY <1>7, <1>8, OverSetsIs
  <1>10. f[0] = segment
    BY <1>8, Zenon DEF Walk
  <1>11. \A k \in 1..Len(order) : f[k] = Replaced(f[k - 1], order[k], DraftValue(text, pol, groups, order[k]))
    BY <1>2, <1>3, <1>8 DEF Walk
  <1> QED
    BY <1>1, <1>9, <1>10, <1>11, Zenon DEF DraftWalk

(* What is kept of a segment, place after place. *)
Keeping(w, segment, cells) ==
    /\ w[0] = << >>
    /\ \A i \in 1..Len(segment) : w[i] = IF i - 1 \in cells THEN w[i - 1] ELSE Append(w[i - 1], segment[i])

LEMMA OutsideIs ==
    ASSUME NEW segment, NEW cells, Len(segment) \in Nat, DOMAIN segment = 1..Len(segment)
    PROVE  \E w : Keeping(w, segment, cells) /\ OutsideOf(segment, cells) = w[Len(segment)]
  <1> DEFINE n == Len(segment)
             order == Ids(segment)
             places == 1..Len(order)
             start == << >>
             fold == [name |-> "outside", segment |-> segment, cells |-> cells]
             Kept1(at, i) == IF i - 1 \in cells THEN at ELSE Append(at, segment[i])
             Wanted(g) == [s \in SUBSET places |->
                 IF s = {} THEN start ELSE Kept1(g[s \ {Max(s)}], order[Max(s)])]
             iter == CHOOSE g : g = Wanted(g)
  <1>1. n \in Nat /\ Len(order) = n /\ DOMAIN order = places /\ \A i \in 1..n : order[i] = i
    BY IdsAre
  <1>2. OutsideOf(segment, cells) =
            FoldLeft(LAMBDA at, i : IF i - 1 \in cells THEN at ELSE Append(at, segment[i]), << >>, order)
    BY Zenon DEF OutsideOf, Ids
  <1> HIDE DEF order
  <1>3. OutsideOf(segment, cells) = iter[places]
    BY <1>1, <1>2, Zenon DEF FoldLeft, MapThenFoldSet
  <1>4. \A at, i : Folded(fold, at, i) = Kept1(at, i)
    BY DEF Folded
  <1> HIDE DEF fold, Kept1, n, start
  <1>5. PICK g : OverSets(g, fold, start, order) /\ IsTable(g, SUBSET places)
    BY <1>1, OverSetsExists
  <1>6. g = Wanted(g)
    BY <1>1, <1>4, <1>5, Zenon DEF OverSets, IsTable
  <1>7. iter = Wanted(iter)
    BY <1>6, Zenon
  <1> HIDE DEF iter
  <1>8. OverSets(iter, fold, start, order)
    BY <1>4, <1>7 DEF OverSets
  <1>9. PICK w : Walk(w, fold, start, order, 1..Len(order))
    BY <1>1, WalkExists
  <1>10. iter[places] = w[n]
    BY <1>1, <1>8, <1>9, OverSetsIs
  <1>11. w[0] = << >>
    BY <1>9, Zenon DEF Walk, start
  <1>12. \A i \in 1..n : w[i] = Kept1(w[i - 1], i)
    BY <1>1, <1>4, <1>9 DEF Walk
  <1> QED
    BY <1>3, <1>10, <1>11, <1>12 DEF Keeping, n, Kept1

LEMMA SliceIs ==
    ASSUME NEW s, IsSeq(s), NEW from \in Nat, NEW to \in Nat, from <= to, to <= Len(s)
    PROVE  /\ IsSeq(Slice(s, from, to)) /\ Len(Slice(s, from, to)) = to - from
           /\ \A i \in 1..(to - from) : Slice(s, from, to)[i] = s[from + i]
  <1>1. PICK T : s \in Seq(T)
    BY DEF IsSeq
  <1>2. /\ SubSeq(s, from + 1, to) \in Seq(T) /\ Len(SubSeq(s, from + 1, to)) = to - from
        /\ \A i \in 1..(to - from) : SubSeq(s, from + 1, to)[i] = s[from + i]
    BY <1>1
  <1> QED
    BY <1>2 DEF Slice, IsSeq

LEMMA SameSeq ==
    ASSUME NEW s, NEW t, IsSeq(s), IsSeq(t), Len(s) = Len(t), \A i \in 1..Len(s) : s[i] = t[i]
    PROVE  s = t
  <1>1. PICK S : s \in Seq(S)
    BY DEF IsSeq
  <1>2. PICK T : t \in Seq(T)
    BY DEF IsSeq
  <1> QED
    BY <1>1, <1>2

(* A text woven of a source and of what stands for its marks: out is what  *)
(* was written up to a mark, cur how far the source was read.              *)
Woven(N, seg, cur, start, value, out) ==
    /\ N \in Nat /\ IsSeq(seg) /\ cur[0] = 0 /\ out[0] = << >>
    /\ \A k \in 1..N :
          /\ cur[k] \in Nat /\ start[k] \in Nat
          /\ cur[k - 1] <= start[k] /\ start[k] < cur[k] /\ cur[k] <= Len(seg)
          /\ IsSeq(value[k])
          /\ out[k] = out[k - 1] \o Slice(seg, cur[k - 1], start[k]) \o value[k]

WovenText(N, seg, cur, out) == out[N] \o Slice(seg, cur[N], Len(seg))

(* Where the k-th of them begins in what is written. *)
From(cur, start, out, k) == Len(out[k - 1]) + (start[k] - cur[k - 1])

LEMMA EmptyIsSeq == IsSeq(<< >>) /\ Len(<< >>) = 0
  <1>1. << >> \in Seq({}) /\ Len(<< >>) = 0
    OBVIOUS
  <1> QED
    BY <1>1 DEF IsSeq

LEMMA WovenStep ==
    ASSUME NEW N, NEW seg, NEW cur, NEW start, NEW value, NEW out, Woven(N, seg, cur, start, value, out),
           NEW k \in 1..N, IsSeq(out[k - 1]), cur[k - 1] \in Nat
    PROVE  LET from == From(cur, start, out, k)
           IN  /\ IsSeq(out[k]) /\ from \in Nat /\ Len(out[k - 1]) \in Nat /\ Len(out[k]) \in Nat
               /\ Len(out[k - 1]) <= from
               /\ Len(out[k]) = from + Len(value[k])
               /\ \A i \in 1..Len(out[k - 1]) : out[k][i] = out[k - 1][i]
               /\ \A i \in 1..(start[k] - cur[k - 1]) : out[k][Len(out[k - 1]) + i] = seg[cur[k - 1] + i]
               /\ \A i \in 1..Len(value[k]) : out[k][from + i] = value[k][i]
  <1> DEFINE a == out[k - 1]
             p == Slice(seg, cur[k - 1], start[k])
             v == value[k]
             gap == start[k] - cur[k - 1]
             ap == a \o p
             all == ap \o v
  <1>1. /\ cur[k] \in Nat /\ start[k] \in Nat /\ cur[k - 1] <= start[k] /\ start[k] < cur[k]
        /\ cur[k] <= Len(seg) /\ IsSeq(v) /\ IsSeq(seg) /\ IsSeq(a)
    BY DEF Woven
  <1>2. out[k] = all
    BY DEF Woven
  <1>3. Len(a) \in Nat /\ Len(v) \in Nat /\ Len(seg) \in Nat /\ gap \in Nat
    <2>1. Len(a) \in Nat /\ Len(v) \in Nat /\ Len(seg) \in Nat
      BY <1>1, SeqHas
    <2> QED
      BY <1>1, <2>1
  <1>4. IsSeq(p) /\ Len(p) = gap /\ \A i \in 1..gap : p[i] = seg[cur[k - 1] + i]
    <2>1. start[k] <= Len(seg)
      BY <1>1, <1>3
    <2> QED
      BY <1>1, <2>1, SliceIs
  <1> HIDE DEF a, p, v, gap
  <1>5. /\ IsSeq(ap) /\ Len(ap) = Len(a) + gap
        /\ \A i \in 1..Len(a) : ap[i] = a[i]
        /\ \A i \in 1..gap : ap[Len(a) + i] = p[i]
    <2>1. IsSeq(a) /\ IsSeq(p)
      BY <1>1, <1>4
    <2>2. /\ IsSeq(a \o p) /\ Len(a \o p) = Len(a) + Len(p)
          /\ \A i \in 1..Len(a) : (a \o p)[i] = a[i]
          /\ \A i \in 1..Len(p) : (a \o p)[Len(a) + i] = p[i]
      BY <2>1, SeqsJoin
    <2> QED
      BY <1>4, <2>2
  <1> HIDE DEF ap
  <1>6. /\ IsSeq(all) /\ Len(all) = Len(ap) + Len(v)
        /\ \A i \in 1..Len(ap) : all[i] = ap[i]
        /\ \A i \in 1..Len(v) : all[Len(ap) + i] = v[i]
    <2>1. IsSeq(ap) /\ IsSeq(v)
      BY <1>1, <1>5
    <2> QED
      BY <2>1, SeqsJoin
  <1> HIDE DEF all
  <1>7. /\ \A i \in 1..Len(a) : i \in 1..Len(ap)
        /\ \A i \in 1..gap : Len(a) + i \in 1..Len(ap)
    BY <1>3, <1>5
  <1>8. /\ \A i \in 1..Len(a) : all[i] = a[i]
        /\ \A i \in 1..gap : all[Len(a) + i] = seg[cur[k - 1] + i]
    BY <1>4, <1>5, <1>6, <1>7
  <1>9. From(cur, start, out, k) = Len(a) + gap
    BY DEF From, a, gap
  <1>10. Len(a) + gap \in Nat /\ Len(all) \in Nat /\ Len(a) <= Len(a) + gap
    BY <1>3, <1>5, <1>6
  <1> QED
    BY <1>2, <1>3, <1>5, <1>6, <1>8, <1>9, <1>10 DEF a, v, gap

LEMMA WovenIs ==
    ASSUME NEW N, NEW seg, NEW cur, NEW start, NEW value, NEW out, Woven(N, seg, cur, start, value, out)
    PROVE  \A k \in 0..N : IsSeq(out[k]) /\ Len(out[k]) \in Nat /\ cur[k] \in Nat /\ cur[k] <= Len(seg)
  <1> DEFINE S == {k \in 0..N : IsSeq(out[k]) /\ cur[k] \in Nat /\ cur[k] <= Len(seg)}
  <1>1. N \in Nat /\ Len(seg) \in Nat
    BY SeqHas DEF Woven
  <1>2. 0 \in S
    BY <1>1, EmptyIsSeq DEF Woven
  <1>3. ASSUME NEW k \in 0..(N - 1), k \in S PROVE k + 1 \in S
    <2>1. k + 1 \in 1..N /\ (k + 1) - 1 = k /\ IsSeq(out[k]) /\ cur[k] \in Nat
      BY <1>1, <1>3
    <2>2. IsSeq(out[k + 1])
      BY <2>1, WovenStep
    <2>3. cur[k + 1] \in Nat /\ cur[k + 1] <= Len(seg)
      BY <2>1 DEF Woven
    <2> QED
      BY <2>1, <2>2, <2>3
  <1> HIDE DEF S
  <1>4. 0..N \subseteq S
    BY <1>1, <1>2, <1>3, UpTo, Zenon
  <1> QED
    BY <1>4, SeqHas DEF S

(* What was written stays, and the source is read on. *)
LEMMA WovenGrows ==
    ASSUME NEW N, NEW seg, NEW cur, NEW start, NEW value, NEW out, Woven(N, seg, cur, start, value, out),
           NEW j \in 0..N, NEW k \in 0..N, j <= k
    PROVE  /\ Len(out[j]) <= Len(out[k]) /\ cur[j] <= cur[k]
           /\ \A i \in 1..Len(out[j]) : out[k][i] = out[j][i]
  <1> DEFINE M == N - j
             S == {m \in 0..M : /\ Len(out[j]) <= Len(out[j + m]) /\ cur[j] <= cur[j + m]
                                /\ \A i \in 1..Len(out[j]) : out[j + m][i] = out[j][i]}
  <1>0. N \in Nat
    BY DEF Woven
  <1>1. M \in Nat
    BY <1>0
  <1>2. Len(out[j]) \in Nat /\ cur[j] \in Nat
    BY WovenIs
  <1>3. 0 \in S
    BY <1>1, <1>2
  <1>4. ASSUME NEW m \in 0..(M - 1), m \in S PROVE m + 1 \in S
    <2> DEFINE k1 == j + m
               k2 == j + (m + 1)
    <2>1. k1 \in 0..N /\ k2 \in 1..N /\ k2 - 1 = k1 /\ m + 1 \in 0..M
      <3> HIDE DEF S
      <3> QED
        BY <1>0
    <2>2. /\ Len(out[j]) <= Len(out[k1]) /\ cur[j] <= cur[k1]
          /\ \A i \in 1..Len(out[j]) : out[k1][i] = out[j][i]
      BY <1>4
    <2> HIDE DEF k1, k2, S, M
    <2>3. IsSeq(out[k1]) /\ Len(out[k1]) \in Nat /\ cur[k1] \in Nat
      BY <2>1, WovenIs
    <2>4. /\ IsSeq(out[k2 - 1]) /\ cur[k2 - 1] \in Nat
      BY <2>1, <2>3
    <2> DEFINE from == From(cur, start, out, k2)
    <2>5. /\ from \in Nat /\ Len(out[k2]) \in Nat /\ Len(out[k2 - 1]) <= from
          /\ Len(out[k2]) = from + Len(value[k2])
          /\ \A i \in 1..Len(out[k2 - 1]) : out[k2][i] = out[k2 - 1][i]
      BY <2>1, <2>4, WovenStep
    <2> HIDE DEF from
    <2>6. Len(value[k2]) \in Nat /\ cur[k2] \in Nat /\ cur[k2 - 1] <= cur[k2]
      <3>1. IsSeq(value[k2]) /\ cur[k2] \in Nat /\ start[k2] \in Nat /\ cur[k2 - 1] <= start[k2] /\ start[k2] < cur[k2]
        BY <2>1 DEF Woven
      <3> QED
        BY <3>1, <2>4, SeqHas
    <2>7. Len(out[j]) <= Len(out[k2]) /\ cur[j] <= cur[k2]
      <3>1. Len(out[k1]) <= from /\ cur[k1] <= cur[k2]
        BY <2>1, <2>5, <2>6
      <3>2. from <= Len(out[k2])
        <4> DEFINE v == value[k2]
        <4>1. from \in Nat /\ Len(v) \in Nat /\ Len(out[k2]) = from + Len(v)
          BY <2>5, <2>6
        <4> HIDE DEF v
        <4> QED
          BY <4>1
      <3> DEFINE a == Len(out[j])
                 b == Len(out[k1])
                 c == Len(out[k2])
      <3>3. a \in Nat /\ b \in Nat /\ c \in Nat /\ a <= b /\ b <= from /\ from <= c /\ from \in Nat
        BY <1>2, <2>2, <2>3, <2>5, <3>1, <3>2
      <3>4. cur[j] \in Nat /\ cur[k1] \in Nat /\ cur[k2] \in Nat /\ cur[j] <= cur[k1] /\ cur[k1] <= cur[k2]
        BY <1>2, <2>2, <2>3, <2>6, <3>1
      <3> HIDE DEF a, b, c
      <3>5. a <= c
        BY <3>3
      <3>6. cur[j] <= cur[k2]
        BY <3>4
      <3> QED
        BY <3>5, <3>6 DEF a, c
    <2>8. \A i \in 1..Len(out[j]) : out[k2][i] = out[j][i]
      <3>1. \A i \in 1..Len(out[j]) : i \in 1..Len(out[k1])
        BY <1>2, <2>2, <2>3
      <3> QED
        BY <2>1, <2>2, <2>5, <3>1
    <2> QED
      BY <2>1, <2>7, <2>8 DEF S, k2
  <1> HIDE DEF S
  <1>5. 0..M \subseteq S
    BY <1>1, <1>3, <1>4, UpTo, Zenon
  <1>6. k - j \in 0..M /\ j + (k - j) = k
    BY <1>0
  <1>7. k - j \in S
    BY <1>5, <1>6
  <1> QED
    BY <1>6, <1>7 DEF S

(* The woven text: what stands for the marks, what is between and after.   *)
LEMMA WovenTextIs ==
    ASSUME NEW N, NEW seg, NEW cur, NEW start, NEW value, NEW out, Woven(N, seg, cur, start, value, out)
    PROVE  LET final == WovenText(N, seg, cur, out)
           IN  /\ IsSeq(final) /\ Len(final) = Len(out[N]) + (Len(seg) - cur[N])
               /\ \A i \in 1..(Len(seg) - cur[N]) : final[Len(out[N]) + i] = seg[cur[N] + i]
               /\ \A k \in 1..N :
                    /\ \A i \in 1..(start[k] - cur[k - 1]) : final[Len(out[k - 1]) + i] = seg[cur[k - 1] + i]
                    /\ Slice(final, From(cur, start, out, k), Len(out[k])) = value[k]
  <1> DEFINE final == WovenText(N, seg, cur, out)
             a == out[N]
             p == Slice(seg, cur[N], Len(seg))
             gap == Len(seg) - cur[N]
  <1>1. N \in Nat /\ N \in 0..N /\ IsSeq(seg) /\ Len(seg) \in Nat
    BY SeqHas DEF Woven
  <1>2. IsSeq(a) /\ Len(a) \in Nat /\ cur[N] \in Nat /\ cur[N] <= Len(seg)
    BY <1>1, WovenIs
  <1>3. IsSeq(p) /\ Len(p) = gap /\ \A i \in 1..gap : p[i] = seg[cur[N] + i]
    <2> DEFINE c == cur[N]
               n == Len(seg)
    <2>1. c \in Nat /\ n \in Nat /\ c <= n /\ n <= Len(seg)
      BY <1>1, <1>2
    <2>2. /\ IsSeq(Slice(seg, c, n)) /\ Len(Slice(seg, c, n)) = n - c
          /\ \A i \in 1..(n - c) : Slice(seg, c, n)[i] = seg[c + i]
      <3> HIDE DEF c, n
      <3> QED
        BY <1>1, <2>1, SliceIs
    <2> QED
      BY <2>2
  <1>4. final = a \o p
    BY DEF WovenText
  <1> HIDE DEF final, a, p
  <1>5. /\ IsSeq(final) /\ Len(final) = Len(a) + gap
        /\ \A i \in 1..Len(a) : final[i] = a[i]
        /\ \A i \in 1..gap : final[Len(a) + i] = seg[cur[N] + i]
    <2>1. /\ IsSeq(a \o p) /\ Len(a \o p) = Len(a) + Len(p)
          /\ \A i \in 1..Len(a) : (a \o p)[i] = a[i]
          /\ \A i \in 1..Len(p) : (a \o p)[Len(a) + i] = p[i]
      <3>1. IsSeq(a) /\ IsSeq(p)
        BY <1>2, <1>3
      <3> QED
        BY <3>1, SeqsJoin
    <2> QED
      BY <1>3, <1>4, <2>1
  <1>6. ASSUME NEW k \in 1..N
        PROVE  /\ \A i \in 1..(start[k] - cur[k - 1]) : final[Len(out[k - 1]) + i] = seg[cur[k - 1] + i]
               /\ Slice(final, From(cur, start, out, k), Len(out[k])) = value[k]
    <2> DEFINE from == From(cur, start, out, k)
               v == value[k]
               b == out[k - 1]
               c == out[k]
               g == start[k] - cur[k - 1]
    <2>1. k - 1 \in 0..N /\ k \in 0..N /\ k <= N
      BY <1>1
    <2>2. IsSeq(b) /\ cur[k - 1] \in Nat
      BY <2>1, WovenIs
    <2>3. /\ IsSeq(c) /\ from \in Nat /\ Len(b) \in Nat /\ Len(c) \in Nat
          /\ Len(b) <= from /\ Len(c) = from + Len(v)
          /\ \A i \in 1..g : c[Len(b) + i] = seg[cur[k - 1] + i]
          /\ \A i \in 1..Len(v) : c[from + i] = v[i]
      BY <2>2, WovenStep
    <2>4. IsSeq(v) /\ Len(v) \in Nat /\ g \in Nat /\ from = Len(b) + g
      <3>1. IsSeq(v) /\ start[k] \in Nat /\ cur[k - 1] <= start[k]
        BY DEF Woven
      <3> QED
        BY <2>2, <3>1, SeqHas DEF From
    <2>5. Len(c) <= Len(a) /\ \A i \in 1..Len(c) : a[i] = c[i]
      BY <1>1, <2>1, WovenGrows DEF a
    <2> HIDE DEF from, v, b, c, g
    <2>6. \A i \in 1..Len(c) : final[i] = c[i]
      <3>1. \A i \in 1..Len(c) : i \in 1..Len(a)
        BY <1>2, <2>3, <2>5
      <3> QED
        BY <1>5, <2>5, <3>1
    <2>7. \A i \in 1..g : final[Len(b) + i] = seg[cur[k - 1] + i]
      <3>1. \A i \in 1..g : Len(b) + i \in 1..Len(c)
        BY <2>3, <2>4
      <3> QED
        BY <2>3, <2>6, <3>1
    <2>8. Slice(final, from, Len(c)) = v
      <3>1. from <= Len(c) /\ Len(c) <= Len(final) /\ Len(c) - from = Len(v)
        BY <1>2, <1>5, <2>3, <2>4, <2>5
      <3>2. /\ IsSeq(Slice(final, from, Len(c))) /\ Len(Slice(final, from, Len(c))) = Len(v)
            /\ \A i \in 1..Len(v) : Slice(final, from, Len(c))[i] = final[from + i]
        <4> DEFINE n == Len(c)
        <4>1. /\ n \in Nat /\ from \in Nat /\ from <= n /\ n <= Len(final) /\ n - from = Len(v) /\ IsSeq(final)
          BY <1>5, <2>3, <3>1
        <4>2. /\ IsSeq(Slice(final, from, n)) /\ Len(Slice(final, from, n)) = n - from
              /\ \A i \in 1..(n - from) : Slice(final, from, n)[i] = final[from + i]
          <5> HIDE DEF n
          <5> QED
            BY <4>1, SliceIs
        <4> QED
          BY <4>1, <4>2
      <3>3. \A i \in 1..Len(v) : final[from + i] = v[i]
        <4>1. \A i \in 1..Len(v) : from + i \in 1..Len(c)
          BY <2>3, <2>4
        <4> QED
          BY <2>3, <2>6, <4>1
      <3> QED
        BY <2>4, <3>2, <3>3, SameSeq
    <2> QED
      BY <2>7, <2>8 DEF from, v, b, c, g
  <1> QED
    BY <1>5, <1>6 DEF final, a

-----------------------------------------------------------------------------
(* The marks of a segment and what is woven of them. *)

IsMarked(text, marks) ==
    /\ IsSeq(text) /\ \A i \in 1..Len(text) : IsSeq(text[i])
    /\ AreMarks(marks) /\ (\A m \in marks : InRange(text, m)) /\ Apart(marks)

LEMMA CueOrder ==
    ASSUME NEW text, NEW marks, IsMarked(text, marks), NEW cue
    PROVE  LET order == ForCue(marks, cue)
           IN  /\ Len(order) \in Nat /\ DOMAIN order = 1..Len(order)
               /\ \A i \in 1..Len(order) : order[i] \in marks /\ order[i].cue = cue
               /\ \A i, j \in 1..Len(order) : i # j => order[i] # order[j]
               /\ \A m \in marks : m.cue = cue => \E i \in 1..Len(order) : order[i] = m
               /\ \A i \in 1..(Len(order) - 1) : order[i].end <= order[i + 1].start
  <1> DEFINE some == {m \in marks : m.cue = cue}
             order == InOrder(some)
             n == Len(order)
  <1>1. AreMarks(some) /\ (\A m \in some : m.start < m.end) /\ Apart(some)
    <2>1. AreMarks(some)
      BY FS_Subset DEF IsMarked, AreMarks
    <2>2. (\A m \in some : m.start < m.end) /\ Apart(some)
      BY DEF IsMarked, InRange, Apart
    <2> QED
      BY <2>1, <2>2
  <1> HIDE DEF some
  <1>2. /\ n \in Nat /\ order \in [1..n -> some]
        /\ \A i, j \in 1..n : i # j => order[i] # order[j]
        /\ \A m \in some : \E i \in 1..n : order[i] = m
    BY <1>1, OrderIs
  <1>3. RefuseOverlaps(some)
    BY <1>1, NeighboursSuffice
  <1> HIDE DEF n
  <1>4. \A i \in 1..(n - 1) : order[i].cue = order[i + 1].cue => order[i].end <= order[i + 1].start
    BY <1>3 DEF RefuseOverlaps, n
  <1> HIDE DEF order
  <1>5. \A i \in 1..n : order[i] \in marks /\ order[i].cue = cue
    BY <1>2 DEF some
  <1>6. \A i \in 1..(n - 1) : order[i].end <= order[i + 1].start
    <2>1. \A i \in 1..(n - 1) : i \in 1..n /\ i + 1 \in 1..n
      BY <1>2
    <2> QED
      BY <1>4, <1>5, <2>1
  <1>7. \A m \in marks : m.cue = cue => \E i \in 1..n : order[i] = m
    BY <1>2 DEF some
  <1>8. DOMAIN order = 1..n
    BY <1>2
  <1>9. ForCue(marks, cue) = order
    BY DEF ForCue, order, some
  <1> QED
    BY <1>2, <1>5, <1>6, <1>7, <1>8, <1>9 DEF n

LEMMA OneIsSeq == \A x : IsSeq(<<x>>) /\ Len(<<x>>) = 1
  <1> TAKE x
  <1>1. <<x>> \in Seq({x}) /\ Len(<<x>>) = 1
    OBVIOUS
  <1> QED
    BY <1>1 DEF IsSeq

LEMMA ReplacementIsSeq ==
    ASSUME NEW text, NEW action \in Actions, NEW m, NEW label, IsMark(m), IsSeq(text[m.cue]),
           m.start < m.end, m.end <= Len(text[m.cue])
    PROVE  IsSeq(Replacement(text, action, m, label))
  <1>1. CASE action = "keep"
    <2> DEFINE seg == text[m.cue]
               from == m.start
               to == m.end
    <2>1. IsSeq(seg) /\ from \in Nat /\ to \in Nat /\ from <= to /\ to <= Len(seg)
      BY DEF IsMark
    <2>2. Replacement(text, action, m, label) = Slice(seg, from, to)
      BY <1>1 DEF Replacement
    <2> HIDE DEF seg, from, to
    <2>3. IsSeq(Slice(seg, from, to))
      BY <2>1, SliceIs
    <2> QED
      BY <2>2, <2>3
  <1>2. CASE action = "remove"
    BY <1>2, EmptyIsSeq DEF Replacement
  <1>3. CASE action = "coarsen"
    BY <1>3, OneIsSeq DEF Replacement
  <1>4. CASE action = "pseudonym"
    BY <1>4, OneIsSeq DEF Replacement
  <1> QED
    BY <1>1, <1>2, <1>3, <1>4 DEF Actions

(* What stands for a mark in the final text, and its entry in the report.  *)
Standing(text, reg, assigned, m) ==
    Replacement(text, assigned[m].action, m, Label(m.type, reg.entities[assigned[m].entity].number))

EntryOf(assigned, m, from, to) == [mark |-> m, from |-> from, to |-> to, action |-> assigned[m].action]

IsAssigned(text, assigned) ==
    IsMarked(text, DOMAIN assigned) /\ \A m \in DOMAIN assigned : assigned[m].action \in Actions

(* The final text of a segment is woven, with an entry for each mark. *)
WovenCue(text, reg, assigned, cue, cur, start, value, out) ==
    LET order == ForCue(DOMAIN assigned, cue)
        N == Len(order)
        end == RenderOf(text, reg, assigned, order)
    IN  /\ Woven(N, text[cue], cur, start, value, out)
        /\ \A k \in 1..N : /\ cur[k] = order[k].end /\ start[k] = order[k].start
                           /\ value[k] = Standing(text, reg, assigned, order[k])
        /\ end.out = out[N] /\ end.cursor = cur[N]
        /\ end.entries = {EntryOf(assigned, order[k], From(cur, start, out, k), Len(out[k])) : k \in 1..N}

LEMMA CueIsWoven ==
    ASSUME NEW text, NEW reg, NEW assigned, IsAssigned(text, assigned), NEW cue \in DOMAIN text
    PROVE  \E cur, start, value, out : WovenCue(text, reg, assigned, cue, cur, start, value, out)
  <1> DEFINE marks == DOMAIN assigned
             order == ForCue(marks, cue)
             N == Len(order)
             seg == text[cue]
             end == RenderOf(text, reg, assigned, order)
  <1>1. /\ N \in Nat /\ DOMAIN order = 1..N
        /\ \A i \in 1..N : order[i] \in marks /\ order[i].cue = cue
        /\ \A i \in 1..(N - 1) : order[i].end <= order[i + 1].start
    BY CueOrder DEF IsAssigned
  <1>2. IsSeq(seg)
    BY SeqHas DEF IsAssigned, IsMarked
  <1> HIDE DEF order
  <1>3. PICK f : /\ f[0] = Blank
                 /\ \A k \in 1..N : f[k] = Rendered(text, reg, assigned, f[k - 1], order[k])
                 /\ end = f[N]
    BY <1>1, RenderIs
  <1>4. ASSUME NEW k \in 1..N
        PROVE  LET m == order[k] IN
               /\ m.start \in Nat /\ m.end \in Nat /\ m.start < m.end /\ m.end <= Len(seg)
               /\ IsSeq(Standing(text, reg, assigned, m))
    <2> DEFINE m == order[k]
    <2>1. m \in marks /\ m.cue = cue
      BY <1>1
    <2> HIDE DEF m
    <2>2. IsMark(m) /\ InRange(text, m) /\ assigned[m].action \in Actions
      BY <2>1 DEF IsAssigned, IsMarked, AreMarks
    <2>3. m.start \in Nat /\ m.end \in Nat /\ m.start < m.end /\ m.end <= Len(text[m.cue]) /\ IsSeq(text[m.cue])
      BY <1>2, <2>1, <2>2 DEF IsMark, InRange
    <2>4. IsSeq(Standing(text, reg, assigned, m))
      BY <2>2, <2>3, ReplacementIsSeq DEF Standing
    <2> QED
      BY <2>1, <2>3, <2>4 DEF m
  <1> DEFINE cur == [k \in 0..N |-> f[k].cursor]
             start == [k \in 1..N |-> order[k].start]
             value == [k \in 1..N |-> Standing(text, reg, assigned, order[k])]
             out == [k \in 0..N |-> f[k].out]
  <1>5. cur[0] = 0 /\ out[0] = << >> /\ f[0].entries = {}
    BY <1>1, <1>3 DEF Blank
  <1>6. ASSUME NEW k \in 1..N
        PROVE  /\ start[k] = order[k].start /\ value[k] = Standing(text, reg, assigned, order[k])
               /\ cur[k] = order[k].end
               /\ out[k] = out[k - 1] \o Slice(seg, cur[k - 1], start[k]) \o value[k]
               /\ f[k].entries = f[k - 1].entries \cup
                    {EntryOf(assigned, order[k], Len(out[k - 1]) + Len(Slice(seg, cur[k - 1], start[k])),
                             Len(out[k - 1]) + Len(Slice(seg, cur[k - 1], start[k])) + Len(value[k]))}
    <2>1. k \in 0..N /\ k - 1 \in 0..N
      BY <1>1
    <2>2. /\ out[k] = f[k].out /\ out[k - 1] = f[k - 1].out /\ cur[k] = f[k].cursor /\ cur[k - 1] = f[k - 1].cursor
          /\ start[k] = order[k].start /\ value[k] = Standing(text, reg, assigned, order[k])
      BY <2>1
    <2>3. f[k] = Rendered(text, reg, assigned, f[k - 1], order[k]) /\ order[k].cue = cue
      BY <1>1, <1>3
    <2> DEFINE at == f[k - 1]
               m == order[k]
               next == Rendered(text, reg, assigned, at, m)
    <2> HIDE DEF cur, start, value, out
    <2>4. LET prefix == Slice(text[m.cue], at.cursor, m.start)
              v == Standing(text, reg, assigned, m)
              from == Len(at.out) + Len(prefix)
          IN  /\ next.out = at.out \o prefix \o v /\ next.cursor = m.end
              /\ next.entries = at.entries \cup {EntryOf(assigned, m, from, from + Len(v))}
      <3> HIDE DEF at, m
      <3> QED
        BY DEF Rendered, Standing, EntryOf
    <2> QED
      BY <2>2, <2>3, <2>4
  <1> HIDE DEF cur, start, value, out, seg, end
  <1>7. ASSUME NEW k \in 1..N
        PROVE  /\ cur[k] \in Nat /\ start[k] \in Nat
               /\ cur[k - 1] <= start[k] /\ start[k] < cur[k] /\ cur[k] <= Len(seg)
               /\ IsSeq(value[k])
    <2>1. start[k] = order[k].start /\ cur[k] = order[k].end /\ value[k] = Standing(text, reg, assigned, order[k])
      BY <1>6
    <2>2. /\ start[k] \in Nat /\ cur[k] \in Nat /\ start[k] < cur[k] /\ cur[k] <= Len(seg) /\ IsSeq(value[k])
      BY <1>4, <2>1
    <2>3. CASE k = 1
      <3>1. cur[k - 1] = 0
        BY <1>5, <2>3
      <3> QED
        BY <2>2, <3>1
    <2>4. CASE k # 1
      <3> DEFINE j == k - 1
      <3>1. j \in 1..N /\ j \in 1..(N - 1) /\ j + 1 = k
        BY <1>1, <2>4
      <3> HIDE DEF j
      <3>2. cur[j] = order[j].end /\ order[j].end <= order[j + 1].start
        BY <1>1, <1>6, <3>1
      <3>3. cur[j] <= start[k]
        BY <2>1, <3>1, <3>2
      <3> QED
        BY <2>2, <3>3 DEF j
    <2> QED
      BY <2>3, <2>4
  <1>8. Woven(N, seg, cur, start, value, out)
    <2>1. \A k \in 1..N : out[k] = out[k - 1] \o Slice(seg, cur[k - 1], start[k]) \o value[k]
      BY <1>6
    <2> QED
      BY <1>1, <1>2, <1>5, <1>7, <2>1 DEF Woven
  <1>9. end.out = out[N] /\ end.cursor = cur[N] /\ end = f[N]
    <2>1. N \in 0..N
      BY <1>1
    <2> QED
      BY <1>3, <2>1 DEF out, cur, end
  <1> DEFINE E(k) == EntryOf(assigned, order[k], From(cur, start, out, k), Len(out[k]))
  <1>10. ASSUME NEW k \in 1..N PROVE f[k].entries = f[k - 1].entries \cup {E(k)}
    <2>1. k - 1 \in 0..N /\ (k - 1) + 1 = k
      BY <1>1
    <2>2. IsSeq(out[k - 1]) /\ cur[k - 1] \in Nat
      BY <1>8, <2>1, WovenIs
    <2>3. Len(out[k]) = From(cur, start, out, k) + Len(value[k])
      BY <1>8, <2>2, WovenStep
    <2>4. Len(Slice(seg, cur[k - 1], start[k])) = start[k] - cur[k - 1]
      <3> DEFINE a == cur[k - 1]
                 b == start[k]
      <3>1. a \in Nat /\ b \in Nat /\ a <= b /\ b <= Len(seg)
        <4>1. b < cur[k] /\ cur[k] <= Len(seg) /\ Len(seg) \in Nat /\ b \in Nat /\ cur[k] \in Nat /\ a <= b
          BY <1>2, <1>7, SeqHas
        <4> QED
          BY <2>2, <4>1
      <3> HIDE DEF a, b
      <3>2. Len(Slice(seg, a, b)) = b - a
        BY <1>2, <3>1, SliceIs
      <3> QED
        BY <3>2 DEF a, b
    <2>5. Len(out[k - 1]) + Len(Slice(seg, cur[k - 1], start[k])) = From(cur, start, out, k)
      BY <2>4 DEF From
    <2>6. f[k].entries = f[k - 1].entries \cup
                    {EntryOf(assigned, order[k], Len(out[k - 1]) + Len(Slice(seg, cur[k - 1], start[k])),
                             Len(out[k - 1]) + Len(Slice(seg, cur[k - 1], start[k])) + Len(value[k]))}
      BY <1>6
    <2> QED
      BY <2>3, <2>5, <2>6
  <1> DEFINE S == {k \in 0..N : f[k].entries = {E(j) : j \in 1..k}}
  <1>11. 0 \in S
    <2>1. 1..0 = {} /\ 0 \in 0..N
      BY <1>1
    <2> QED
      BY <1>5, <2>1
  <1>12. ASSUME NEW k \in 0..(N - 1), k \in S PROVE k + 1 \in S
    <2>1. k + 1 \in 1..N /\ (k + 1) - 1 = k /\ k + 1 \in 0..N /\ 1..(k + 1) = (1..k) \cup {k + 1}
      BY <1>1
    <2>2. f[k + 1].entries = f[k].entries \cup {E(k + 1)}
      BY <1>10, <2>1
    <2>3. f[k].entries = {E(j) : j \in 1..k}
      BY <1>12
    <2> HIDE DEF E
    <2> QED
      BY <2>1, <2>2, <2>3
  <1> HIDE DEF S
  <1>13. N \in S
    <2>1. 0..N \subseteq S
      BY <1>1, <1>11, <1>12, UpTo, Zenon
    <2> QED
      BY <1>1, <2>1
  <1>14. end.entries = {E(k) : k \in 1..N}
    BY <1>9, <1>13 DEF S
  <1>15. \A k \in 1..N : cur[k] = order[k].end /\ start[k] = order[k].start /\ value[k] = Standing(text, reg, assigned, order[k])
    BY <1>6
  <1> HIDE DEF N
  <1>16. WovenCue(text, reg, assigned, cue, cur, start, value, out)
    BY <1>8, <1>9, <1>14, <1>15 DEF WovenCue, order, N, seg, end
  <1> QED
    BY <1>16

-----------------------------------------------------------------------------
(* The final text. *)

EndOf(text, reg, assigned, cue) == RenderOf(text, reg, assigned, ForCue(DOMAIN assigned, cue))

Written(text, reg, assigned, cue) ==
    EndOf(text, reg, assigned, cue).out \o Slice(text[cue], EndOf(text, reg, assigned, cue).cursor, Len(text[cue]))

LEMMA FinalIs ==
    ASSUME NEW text, NEW reg, NEW assigned
    PROVE  LET final == Final(text, reg, assigned)
           IN  /\ DOMAIN final.text = DOMAIN text /\ IsTable(final.text, DOMAIN text)
               /\ \A cue \in DOMAIN text : final.text[cue] = Written(text, reg, assigned, cue)
               /\ final.entries = UNION {EndOf(text, reg, assigned, cue).entries : cue \in DOMAIN text}
  <1> DEFINE End(cue) == EndOf(text, reg, assigned, cue)
             done == [cue \in DOMAIN text |-> End(cue)]
  <1>1. Final(text, reg, assigned) =
            [text |-> [cue \in DOMAIN text |-> done[cue].out \o Slice(text[cue], done[cue].cursor, Len(text[cue]))],
             entries |-> UNION {done[cue].entries : cue \in DOMAIN text}]
    BY Zenon DEF Final, EndOf, RenderOf, Blank
  <1>2. \A cue \in DOMAIN text : done[cue] = End(cue)
    OBVIOUS
  <1> HIDE DEF done, End
  <1> DEFINE texts == [cue \in DOMAIN text |-> done[cue].out \o Slice(text[cue], done[cue].cursor, Len(text[cue]))]
             entries == UNION {done[cue].entries : cue \in DOMAIN text}
  <1>3. /\ DOMAIN texts = DOMAIN text /\ IsTable(texts, DOMAIN text)
        /\ \A cue \in DOMAIN text : texts[cue] = Written(text, reg, assigned, cue)
    BY <1>2 DEF End, Written, IsTable
  <1>4. entries = UNION {End(cue).entries : cue \in DOMAIN text}
    BY <1>2
  <1>5. Final(text, reg, assigned) = [text |-> texts, entries |-> entries]
    BY <1>1
  <1> HIDE DEF texts, entries
  <1> QED
    BY <1>3, <1>4, <1>5 DEF End

FinalWoven(text, reg, assigned, cue, cur, start, value, out) ==
    /\ WovenCue(text, reg, assigned, cue, cur, start, value, out)
    /\ Final(text, reg, assigned).text[cue] = WovenText(Len(ForCue(DOMAIN assigned, cue)), text[cue], cur, out)

LEMMA FinalCue ==
    ASSUME NEW text, NEW reg, NEW assigned, IsAssigned(text, assigned), NEW cue \in DOMAIN text
    PROVE  \E cur, start, value, out : FinalWoven(text, reg, assigned, cue, cur, start, value, out)
  <1> DEFINE order == ForCue(DOMAIN assigned, cue)
             end == RenderOf(text, reg, assigned, order)
  <1>1. PICK cur, start, value, out : WovenCue(text, reg, assigned, cue, cur, start, value, out)
    BY CueIsWoven
  <1>2. end.out = out[Len(order)] /\ end.cursor = cur[Len(order)]
    BY <1>1 DEF WovenCue
  <1>3. Final(text, reg, assigned).text[cue] = end.out \o Slice(text[cue], end.cursor, Len(text[cue]))
    <2>1. Final(text, reg, assigned).text[cue] = Written(text, reg, assigned, cue)
      BY FinalIs
    <2>2. EndOf(text, reg, assigned, cue) = end
      BY DEF EndOf
    <2> HIDE DEF end
    <2> QED
      BY <2>1, <2>2, Zenon DEF Written
  <1>4. Final(text, reg, assigned).text[cue] = WovenText(Len(order), text[cue], cur, out)
    BY <1>2, <1>3 DEF WovenText
  <1> QED
    BY <1>1, <1>4 DEF FinalWoven

LEMMA FinalIsText ==
    ASSUME NEW text, NEW reg, NEW assigned, IsAssigned(text, assigned), Final(text, reg, assigned).text # << >>
    PROVE  IsText(Final(text, reg, assigned).text)
  <1> DEFINE final == Final(text, reg, assigned).text
             n == Len(text)
  <1>1. n \in Nat /\ DOMAIN text = 1..n
    BY SeqHas DEF IsAssigned, IsMarked
  <1>2. DOMAIN final = 1..n /\ IsTable(final, 1..n)
    BY <1>1, FinalIs
  <1>3. ASSUME NEW cue \in 1..n PROVE IsSeq(final[cue])
    <2>1. PICK cur, start, value, out : FinalWoven(text, reg, assigned, cue, cur, start, value, out)
      BY <1>1, FinalCue
    <2> DEFINE N == Len(ForCue(DOMAIN assigned, cue))
               seg == text[cue]
    <2>2. Woven(N, seg, cur, start, value, out)
      BY <2>1 DEF FinalWoven, WovenCue
    <2> HIDE DEF N, seg
    <2>3. IsSeq(WovenText(N, seg, cur, out))
      BY <2>2, WovenTextIs
    <2> QED
      BY <2>1, <2>3 DEF FinalWoven, N, seg
  <1> HIDE DEF final, n
  <1>4. IsSeq(final) /\ Len(final) = n
    BY <1>1, <1>2, TableIsSeq
  <1>5. n > 0
    <2> SUFFICES ASSUME n = 0 PROVE FALSE
      BY <1>1
    <2>1. DOMAIN final = {} /\ final = [i \in {} |-> final[i]]
      BY <1>2 DEF IsTable
    <2>2. final = << >>
      BY <2>1
    <2> QED
      BY <2>2 DEF final
  <1> QED
    BY <1>3, <1>4, <1>5 DEF IsText, final

LEMMA SourceIsText == \A r \in Records : IsSeq(Texts[r]) /\ \A i \in 1..Len(Texts[r]) : IsSeq(Texts[r][i])
  <1> TAKE r \in Records
  <1>1. Texts[r] \in Seq(Seq(Chars))
    BY TextsAssumption
  <1>2. \A i \in 1..Len(Texts[r]) : Texts[r][i] \in Seq(Chars)
    BY <1>1
  <1> QED
    BY <1>1, <1>2 DEF IsSeq

(* What is worked on until it is final: marks of a record under a policy.  *)
OnDesk == desk # NoDesk => desk.rec \in Records /\ desk.policy \in Policies /\ AreMarks(desk.capsule.spans)

FinalsOK == DOMAIN finals = Records /\ \A r \in Records : finals[r] # NoFinal => IsText(finals[r])

SuggestionsInv == OnDesk /\ FinalsOK /\ RunOK

(* A resolution the register takes assigns the marks of its text. *)
LEMMA ResolvedIsAssigned ==
    ASSUME CasesInv, OnDesk, desk.phase = "resolved"
    PROVE  /\ ValidResolution(Source, policy, desk.capsule, desk.assigned, register)
           /\ IsAssigned(Source, desk.assigned) /\ DOMAIN desk.assigned = desk.capsule.spans
           /\ desk.rec \in Records
  <1> DEFINE c == desk.capsule
             assigned == desk.assigned
  <1>1. desk.rec \in Records /\ desk.policy \in Policies /\ AreMarks(c.spans)
    BY NoDeskPhase DEF OnDesk
  <1>2. IsFiniteSet(c.groups) /\ Valid(Source, policy, c) /\ OpenGroups(c) = {}
    BY NoDeskPhase DEF CasesInv, DeskOK, ResolveOK, CapsuleOK
  <1>3. PICK whom \in WhomOf(c) : assigned = Answered(c, whom)
    BY DEF CasesInv, AnswerOK
  <1>4. PICK k \in Nat : DOMAIN register.entities = 1..k
    BY DEF CasesInv, RegisterOK
  <1>5. ValidResolution(Source, policy, c, assigned, register)
    BY <1>2, <1>3, <1>4, AnswerIsSound
  <1> HIDE DEF c, assigned
  <1>6. DOMAIN assigned = c.spans /\ \A m \in c.spans : assigned[m].action = policy[m.type]
    BY <1>5 DEF ValidResolution
  <1>7. (\A m \in c.spans : InRange(Source, m)) /\ Apart(c.spans)
    BY <1>1, <1>2, BoundIs DEF Valid
  <1>8. IsMarked(Source, c.spans)
    BY <1>1, <1>7, SourceIsText DEF IsMarked, Source
  <1>9. \A m \in c.spans : m.type \in DOMAIN policy
    <2> TAKE m \in c.spans
    <2>1. PICK g \in c.groups : m \in g.mentions
      BY <1>2 DEF Valid
    <2> QED
      BY <1>2, <2>1 DEF Valid
  <1>10. \A m \in c.spans : policy[m.type] \in Actions
    BY <1>1, <1>9, PoliciesAssumption DEF policy
  <1> QED
    BY <1>1, <1>5, <1>6, <1>8, <1>10 DEF IsAssigned, c, assigned

LEMMA InitSuggestions == Init => SuggestionsInv
  <1> SUFFICES ASSUME Init PROVE SuggestionsInv
    OBVIOUS
  <1>1. OnDesk
    BY DEF Init, OnDesk
  <1>2. FinalsOK
    BY DEF Init, FinalsOK
  <1>3. RunOK
    <2>1. run = NoRun /\ NoRun.state = "none"
      BY DEF Init, NoRun
    <2> QED
      BY <2>1 DEF RunOK, Running
  <1> QED
    BY <1>1, <1>2, <1>3 DEF SuggestionsInv

LEMMA DeskKeepsSuggestions ==
    ASSUME CasesInv, EditsInv, EditsInv', SuggestionsInv, [Next]_vars, ~Finalise, ~Suggest
    PROVE  OnDesk' /\ FinalsOK'
  <1>1. finals' = finals
    BY DEF Next, vars, OpenMarking, Add, Exclude, Merge, Split, Judge, Take, PublishMarks, PublishCases,
           AcceptResolution, ResolveAnew
  <1>2. FinalsOK'
    BY <1>1 DEF SuggestionsInv, FinalsOK
  <1>3. CASE OpenMarking
    <2>1. PICK p \in Policies :
            desk' = [rec |-> Head(plan).rec, policy |-> p, phase |-> "mark", capsule |-> Capsule({}, << >>, {}, {}),
                     left |-> Head(plan), assigned |-> << >>]
      BY <1>3 DEF OpenMarking
    <2>2. desk'.phase = "mark" /\ desk'.policy \in Policies
      BY <2>1
    <2>3. desk'.rec \in Records /\ IsFiniteSet(desk'.capsule.spans) /\ \A m \in desk'.capsule.spans : IsMark(m)
      BY <2>2 DEF EditsInv, EditOK, Editing, WorkStands
    <2> QED
      BY <1>2, <2>2, <2>3 DEF OnDesk, AreMarks
  <1>4. CASE Add \/ Exclude \/ Merge \/ Split \/ Judge
    <2>1. Editing /\ DOMAIN desk = DeskFields
      BY <1>4, EditingDesk DEF Add, Exclude, Merge, Split, Judge, CasesInv
    <2>2. WorkedOn
      BY <1>4, EditWorks DEF CasesInv
    <2>3. Editing'
      BY <2>1, <2>2 DEF WorkedOn, Editing
    <2>4. desk'.rec \in Records /\ AreMarks(desk'.capsule.spans)
      BY <2>3 DEF EditsInv, EditOK, WorkStands, AreMarks
    <2>5. desk'.policy = desk.policy
      BY <1>4, <2>1 DEF Add, Exclude, Merge, Split, Judge, Take, DeskFields
    <2>6. desk.policy \in Policies
      BY <2>1, NoDeskPhase DEF Editing, SuggestionsInv, OnDesk
    <2> QED
      BY <1>2, <2>4, <2>5, <2>6 DEF OnDesk
  <1>5. CASE PublishMarks \/ PublishCases \/ AcceptResolution \/ ResolveAnew
    <2>1. DOMAIN desk = DeskFields /\ desk # NoDesk
      BY <1>5, NoDeskPhase DEF CasesInv, DeskOK, PublishMarks, PublishCases, AcceptResolution, ResolveAnew
    <2>2. desk'.capsule = desk.capsule
      BY <1>5, PhaseKeeps
    <2>3. desk'.rec = desk.rec /\ desk'.policy = desk.policy
      BY <1>5, <2>1 DEF PublishMarks, PublishCases, AcceptResolution, ResolveAnew, DeskFields
    <2> QED
      BY <1>2, <2>1, <2>2, <2>3 DEF SuggestionsInv, OnDesk
  <1>6. CASE UNCHANGED vars
    BY <1>2, <1>6 DEF SuggestionsInv, OnDesk, vars
  <1> QED
    BY <1>3, <1>4, <1>5, <1>6 DEF Next

LEMMA FinaliseKeepsSuggestions ==
    ASSUME CasesInv, SuggestionsInv, Finalise
    PROVE  OnDesk' /\ FinalsOK'
  <1>1. desk.phase = "resolved" /\ desk' = NoDesk
    BY DEF Finalise
  <1>2. IsAssigned(Source, desk.assigned) /\ desk.rec \in Records
    BY <1>1, ResolvedIsAssigned DEF SuggestionsInv
  <1> DEFINE r == desk.rec
             final == Final(Source, register', desk.assigned).text
  <1>3. finals' = [finals EXCEPT ![r] = final]
    BY DEF Finalise
  <1>4. final # << >> => IsText(final)
    BY <1>2, FinalIsText
  <1> HIDE DEF final, r
  <1>5. FinalsOK'
    BY <1>3, <1>4 DEF SuggestionsInv, FinalsOK, NoFinal
  <1> QED
    BY <1>1, <1>5 DEF OnDesk

LEMMA NextSuggestions ==
    ASSUME CasesInv, EditsInv, EditsInv', SuggestionsInv, [Next]_vars
    PROVE  SuggestionsInv'
  <1>1. CASE Suggest
    <2>1. OnDesk' /\ FinalsOK'
      BY <1>1 DEF Suggest, SuggestionsInv, OnDesk, FinalsOK
    <2>2. RunOK'
      BY <1>1, SuggestKeeps DEF SuggestionsInv, FinalsOK
    <2> QED
      BY <2>1, <2>2 DEF SuggestionsInv
  <1>2. CASE ~Suggest
    <2>1. run' = run
      BY <1>2 DEF Next, vars, OpenMarking, Add, Exclude, Merge, Split, Judge, Take, PublishMarks, PublishCases,
                  AcceptResolution, Finalise, ResolveAnew
    <2>2. RunOK'
      BY <2>1 DEF SuggestionsInv, RunOK
    <2>3. OnDesk' /\ FinalsOK'
      BY <1>2, DeskKeepsSuggestions, FinaliseKeepsSuggestions
    <2> QED
      BY <2>2, <2>3 DEF SuggestionsInv
  <1> QED
    BY <1>1, <1>2

LEMMA SuggestionsInvariant == Spec => []SuggestionsInv
  <1>1. Spec => []EditsInv
    BY InitEdits, NextEdits, CasesInvariant, PTL DEF Spec
  <1>2. CasesInv /\ EditsInv /\ EditsInv' /\ SuggestionsInv /\ [Next]_vars => SuggestionsInv'
    BY NextSuggestions
  <1> QED
    BY <1>1, <1>2, InitSuggestions, CasesInvariant, PTL DEF Spec

(* l1_suggest.py: whatever the model answers, for texts and blocks of any  *)
(* length, what is published has every segment once and in order, anchored *)
(* on itself and on nothing else, and its evidence stands as it was asked, *)
(* but not with one request less or one asked twice.                       *)
THEOREM SuggestionsAlwaysStand == Spec => []SuggestionsStand
  <1>1. SuggestionsInv => SuggestionsStand
    BY PublishedStands DEF SuggestionsInv
  <1> QED
    BY <1>1, SuggestionsInvariant, PTL

-----------------------------------------------------------------------------
(* What is outside of the places lo[k]..hi[k]-1, one behind the other.     *)

Apportioned(N, lo, hi, n) ==
    /\ N \in Nat /\ n \in Nat /\ hi[0] = 0 /\ hi[N] <= n
    /\ \A k \in 1..N : lo[k] \in Nat /\ hi[k] \in Nat /\ hi[k - 1] <= lo[k] /\ lo[k] <= hi[k]

Covered(N, lo, hi) == UNION {lo[k]..(hi[k] - 1) : k \in 1..N}

LEMMA HighRises ==
    ASSUME NEW N, NEW lo, NEW hi, NEW n, Apportioned(N, lo, hi, n)
    PROVE  /\ \A k \in 0..N : hi[k] \in Nat /\ hi[k] <= n
           /\ \A j, k \in 0..N : j <= k => hi[j] <= hi[k]
  <1>1. N \in Nat /\ n \in Nat /\ hi[N] <= n
    BY DEF Apportioned
  <1>2. \A k \in 0..N : hi[k] \in Nat
    <2> TAKE k \in 0..N
    <2>1. CASE k = 0
      BY <2>1 DEF Apportioned
    <2>2. CASE k # 0
      <3>1. k \in 1..N
        BY <1>1, <2>2
      <3> QED
        BY <3>1 DEF Apportioned
    <2> QED
      BY <2>1, <2>2
  <1>3. ASSUME NEW j \in 0..N, NEW k \in 0..N, j <= k PROVE hi[j] <= hi[k]
    <2> DEFINE M == N - j
               S == {m \in 0..M : hi[j] <= hi[j + m]}
    <2>1. M \in Nat /\ 0 \in S
      BY <1>1, <1>2
    <2>2. ASSUME NEW m \in 0..(M - 1), m \in S PROVE m + 1 \in S
      <3>1. j + (m + 1) \in 1..N /\ (j + (m + 1)) - 1 = j + m /\ m + 1 \in 0..M /\ j + m \in 0..N
        <4> HIDE DEF S
        <4> QED
          BY <1>1
      <3> DEFINE i == j + (m + 1)
      <3> HIDE DEF i, M
      <3>2. hi[i - 1] <= lo[i] /\ lo[i] <= hi[i] /\ lo[i] \in Nat
        BY <3>1 DEF Apportioned, i
      <3>3. hi[j] \in Nat /\ hi[j + m] \in Nat /\ hi[i] \in Nat /\ i - 1 = j + m
        BY <1>2, <3>1 DEF i
      <3>4. hi[j] <= hi[j + m]
        BY <2>2
      <3> DEFINE a == hi[j]
                 b == hi[j + m]
                 c == hi[i]
                 d == lo[i]
      <3>5. a \in Nat /\ b \in Nat /\ c \in Nat /\ d \in Nat /\ a <= b /\ b <= d /\ d <= c
        BY <3>2, <3>3, <3>4
      <3> HIDE DEF a, b, c, d
      <3>6. a <= c
        BY <3>5
      <3> QED
        BY <3>1, <3>6 DEF a, c, i
    <2> HIDE DEF S
    <2>3. 0..M \subseteq S
      BY <2>1, <2>2, UpTo, Zenon
    <2>4. k - j \in 0..M /\ j + (k - j) = k
      BY <1>1, <1>3
    <2>5. k - j \in S
      BY <2>3, <2>4
    <2> QED
      BY <2>4, <2>5 DEF S
  <1>4. \A k \in 0..N : hi[k] <= n
    <2> TAKE k \in 0..N
    <2>1. k <= N /\ N \in 0..N
      BY <1>1
    <2>2. hi[k] <= hi[N] /\ hi[k] \in Nat /\ hi[N] \in Nat
      BY <1>2, <1>3, <2>1
    <2> QED
      BY <1>1, <2>2
  <1> QED
    BY <1>2, <1>3, <1>4

LEMMA GapIsFree ==
    ASSUME NEW N, NEW lo, NEW hi, NEW n, Apportioned(N, lo, hi, n), NEW k \in 1..N, NEW p \in Nat,
           hi[k - 1] <= p, p < lo[k]
    PROVE  p \notin Covered(N, lo, hi)
  <1>1. N \in Nat /\ k - 1 \in 0..N /\ k \in 0..N
    BY DEF Apportioned
  <1>2. SUFFICES ASSUME NEW j \in 1..N, p \in lo[j]..(hi[j] - 1) PROVE FALSE
    BY DEF Covered
  <1>3. j \in 0..N /\ j - 1 \in 0..N /\ hi[j] \in Nat /\ lo[j] \in Nat /\ hi[j - 1] <= lo[j]
    BY <1>1 DEF Apportioned
  <1>4. hi[k] \in Nat /\ lo[k] \in Nat /\ lo[k] <= hi[k]
    BY DEF Apportioned
  <1>5. hi[k - 1] \in Nat /\ hi[j - 1] \in Nat
    BY <1>1, <1>3, HighRises
  <1>6. CASE j <= k - 1
    <2>1. hi[j] <= hi[k - 1]
      BY <1>1, <1>3, <1>6, HighRises
    <2> QED
      BY <1>2, <1>3, <1>5, <2>1
  <1>7. CASE j = k
    BY <1>2, <1>4, <1>7
  <1>8. CASE k <= j - 1
    <2>1. hi[k] <= hi[j - 1]
      BY <1>1, <1>3, <1>8, HighRises
    <2> QED
      BY <1>2, <1>3, <1>4, <1>5, <2>1
  <1> QED
    BY <1>6, <1>7, <1>8

LEMMA TailIsFree ==
    ASSUME NEW N, NEW lo, NEW hi, NEW n, Apportioned(N, lo, hi, n), NEW p \in Nat, hi[N] <= p
    PROVE  p \notin Covered(N, lo, hi)
  <1>1. SUFFICES ASSUME NEW j \in 1..N, p \in lo[j]..(hi[j] - 1) PROVE FALSE
    BY DEF Covered
  <1>2. j \in 0..N /\ N \in 0..N /\ j <= N /\ hi[j] \in Nat /\ lo[j] \in Nat
    BY DEF Apportioned
  <1>3. hi[j] <= hi[N] /\ hi[N] \in Nat
    BY <1>2, HighRises
  <1> QED
    BY <1>1, <1>2, <1>3

Stretch(s, a, cells, t, b, others, g) ==
    /\ a \in Nat /\ b \in Nat /\ g \in Nat
    /\ Len(s) \in Nat /\ Len(t) \in Nat /\ a + g <= Len(s) /\ b + g <= Len(t)
    /\ \A i \in 1..g : s[a + i] = t[b + i]
    /\ \A i \in 0..(g - 1) : a + i \notin cells /\ b + i \notin others

(* Two texts that agree on a stretch keep the same of it, and nothing of   *)
(* what is covered is kept.                                                *)
LEMMA StretchIsKept ==
    ASSUME NEW w, NEW s, NEW cells, Keeping(w, s, cells), NEW v, NEW t, NEW others, Keeping(v, t, others),
           NEW a, NEW b, NEW g, Stretch(s, a, cells, t, b, others, g), w[a] = v[b]
    PROVE  w[a + g] = v[b + g]
  <1>0. /\ a \in Nat /\ b \in Nat /\ g \in Nat
        /\ Len(s) \in Nat /\ Len(t) \in Nat /\ a + g <= Len(s) /\ b + g <= Len(t)
        /\ \A i \in 1..g : s[a + i] = t[b + i]
        /\ \A i \in 0..(g - 1) : a + i \notin cells /\ b + i \notin others
    BY DEF Stretch
  <1> DEFINE S == {i \in 0..g : w[a + i] = v[b + i]}
  <1>1. 0 \in S
    BY <1>0
  <1>2. ASSUME NEW i \in 0..(g - 1), i \in S PROVE i + 1 \in S
    <2>1. /\ i + 1 \in 1..g /\ i + 1 \in 0..g
          /\ a + (i + 1) \in 1..Len(s) /\ (a + (i + 1)) - 1 = a + i
          /\ b + (i + 1) \in 1..Len(t) /\ (b + (i + 1)) - 1 = b + i
      <3> HIDE DEF S
      <3> QED
        BY <1>0
    <2> DEFINE p == a + (i + 1)
               q == b + (i + 1)
    <2>2. p - 1 \notin cells /\ q - 1 \notin others /\ s[p] = t[q]
      BY <1>0, <2>1
    <2>3. w[p - 1] = v[q - 1]
      BY <1>2, <2>1
    <2>4. p \in 1..Len(s) /\ q \in 1..Len(t)
      BY <2>1
    <2> HIDE DEF p, q
    <2>5. w[p] = Append(w[p - 1], s[p]) /\ v[q] = Append(v[q - 1], t[q])
      BY <2>2, <2>4 DEF Keeping
    <2>6. w[p] = v[q]
      BY <2>2, <2>3, <2>5
    <2> QED
      BY <2>1, <2>6 DEF p, q
  <1> HIDE DEF S
  <1>3. g \in S
    BY <1>0, <1>1, <1>2, UpTo, g \in 0..g
  <1> QED
    BY <1>3 DEF S

LEMMA StretchIsLeft ==
    ASSUME NEW w, NEW s, NEW cells, Keeping(w, s, cells), NEW a \in Nat, NEW b \in Nat, a <= b,
           Len(s) \in Nat, b <= Len(s), a..(b - 1) \subseteq cells
    PROVE  w[b] = w[a]
  <1> DEFINE g == b - a
             S == {i \in 0..g : w[a + i] = w[a]}
  <1>0. g \in Nat /\ a + g = b
    OBVIOUS
  <1>1. 0 \in S
    BY <1>0
  <1>2. ASSUME NEW i \in 0..(g - 1), i \in S PROVE i + 1 \in S
    <2>1. i + 1 \in 0..g /\ a + (i + 1) \in 1..Len(s) /\ (a + (i + 1)) - 1 = a + i /\ a + i \in a..(b - 1)
      <3> HIDE DEF S
      <3> QED
        BY <1>0
    <2> DEFINE p == a + (i + 1)
    <2>2. p - 1 \in cells /\ p \in 1..Len(s) /\ w[p - 1] = w[a]
      BY <1>2, <2>1
    <2> HIDE DEF p
    <2>3. w[p] = w[a]
      BY <2>2 DEF Keeping
    <2> QED
      BY <2>1, <2>3 DEF p
  <1> HIDE DEF S, g
  <1>3. g \in S
    BY <1>0, <1>1, <1>2, UpTo, g \in 0..g
  <1> QED
    BY <1>0, <1>3 DEF S

(* What stays in between and after is the same. *)
Alike(N, s, lo, hi, t, start, cur) ==
    /\ \A k \in 1..N : /\ lo[k] - hi[k - 1] = start[k] - cur[k - 1]
                       /\ \A i \in 1..(start[k] - cur[k - 1]) : s[hi[k - 1] + i] = t[cur[k - 1] + i]
    /\ Len(s) - hi[N] = Len(t) - cur[N]
    /\ \A i \in 1..(Len(t) - cur[N]) : s[hi[N] + i] = t[cur[N] + i]

LEMMA OutsideIsAlike ==
    ASSUME NEW N, NEW s, NEW lo, NEW hi, NEW t, NEW start, NEW cur, IsSeq(s), IsSeq(t),
           Apportioned(N, lo, hi, Len(s)), Apportioned(N, start, cur, Len(t)), Alike(N, s, lo, hi, t, start, cur)
    PROVE  OutsideOf(s, Covered(N, lo, hi)) = OutsideOf(t, Covered(N, start, cur))
  <1> DEFINE cells == Covered(N, lo, hi)
             others == Covered(N, start, cur)
  <1>1. Len(s) \in Nat /\ DOMAIN s = 1..Len(s) /\ Len(t) \in Nat /\ DOMAIN t = 1..Len(t) /\ N \in Nat
    BY SeqHas DEF Apportioned
  <1> HIDE DEF cells, others
  <1>2. PICK w : Keeping(w, s, cells) /\ OutsideOf(s, cells) = w[Len(s)]
    BY <1>1, OutsideIs
  <1>3. PICK v : Keeping(v, t, others) /\ OutsideOf(t, others) = v[Len(t)]
    BY <1>1, OutsideIs
  <1> DEFINE S == {k \in 0..N : w[hi[k]] = v[cur[k]]}
  <1>4. 0 \in S
    <2>1. hi[0] = 0 /\ cur[0] = 0 /\ w[0] = << >> /\ v[0] = << >>
      BY <1>2, <1>3 DEF Apportioned, Keeping
    <2> QED
      BY <1>1, <2>1
  <1>5. ASSUME NEW j \in 0..(N - 1), j \in S PROVE j + 1 \in S
    <2> DEFINE k == j + 1
    <2>1. k \in 1..N /\ k \in 0..N /\ k - 1 = j
      <3> HIDE DEF S
      <3> QED
        BY <1>1
    <2> HIDE DEF k
    <2> DEFINE a == hi[k - 1]
               b == cur[k - 1]
               g == start[k] - b
    <2>2. w[a] = v[b]
      BY <1>5, <2>1
    <2> HIDE DEF S
    <2>3. /\ a \in Nat /\ b \in Nat /\ lo[k] \in Nat /\ hi[k] \in Nat /\ start[k] \in Nat /\ cur[k] \in Nat
          /\ a <= lo[k] /\ lo[k] <= hi[k] /\ hi[k] <= Len(s)
          /\ b <= start[k] /\ start[k] <= cur[k] /\ cur[k] <= Len(t)
      <3>1. a \in Nat /\ b \in Nat /\ hi[k] <= Len(s) /\ cur[k] <= Len(t)
        <4>1. k - 1 \in 0..N
          BY <1>1, <2>1
        <4> QED
          BY <2>1, <4>1, HighRises
      <3> QED
        BY <2>1, <3>1 DEF Apportioned
    <2>4. lo[k] - a = g /\ \A i \in 1..g : s[a + i] = t[b + i]
      BY <2>1 DEF Alike
    <2>5. ASSUME NEW i \in 0..(g - 1) PROVE a + i \notin cells /\ b + i \notin others
      <3> DEFINE p == a + i
                 q == b + i
      <3>1. p \in Nat /\ q \in Nat /\ a <= p /\ p < lo[k] /\ b <= q /\ q < start[k]
        <4> DEFINE x == lo[k]
                   y == start[k]
        <4>1. x \in Nat /\ y \in Nat /\ a \in Nat /\ b \in Nat /\ x - a = y - b /\ i \in 0..((y - b) - 1)
          BY <2>3, <2>4, <2>5
        <4> HIDE DEF x, y, a, b
        <4>2. a + i \in Nat /\ b + i \in Nat /\ a <= a + i /\ a + i < x /\ b <= b + i /\ b + i < y
          BY <4>1
        <4> QED
          BY <4>2 DEF x, y
      <3> HIDE DEF p, q
      <3>2. p \notin cells
        BY <2>1, <3>1, GapIsFree DEF cells, a
      <3>3. q \notin others
        BY <2>1, <3>1, GapIsFree DEF others, b
      <3> QED
        BY <3>2, <3>3 DEF p, q
    <2>6. g \in Nat /\ a + g = lo[k] /\ b + g = start[k] /\ a + g <= Len(s) /\ b + g <= Len(t)
      <3> DEFINE x == lo[k]
                 y == start[k]
      <3>1. x \in Nat /\ y \in Nat /\ a \in Nat /\ b \in Nat /\ x - a = y - b /\ b <= y /\ x <= Len(s) /\ y <= Len(t)
        BY <1>1, <2>3, <2>4
      <3> HIDE DEF x, y, a, b
      <3>2. y - b \in Nat /\ a + (y - b) = x /\ b + (y - b) = y
        BY <3>1
      <3> QED
        BY <3>1, <3>2 DEF x, y
    <2> HIDE DEF a, b, g
    <2>7. w[a + g] = v[b + g]
      <3>1. Stretch(s, a, cells, t, b, others, g)
        BY <1>1, <2>3, <2>4, <2>5, <2>6 DEF Stretch
      <3> QED
        BY <1>2, <1>3, <2>2, <3>1, StretchIsKept
    <2>8. w[hi[k]] = w[lo[k]]
      <3>1. lo[k]..(hi[k] - 1) \subseteq cells
        BY <2>1 DEF cells, Covered
      <3> QED
        <4> DEFINE x == lo[k]
                   y == hi[k]
        <4>1. Keeping(w, s, cells) /\ x \in Nat /\ y \in Nat /\ x <= y /\ Len(s) \in Nat /\ y <= Len(s) /\ x..(y - 1) \subseteq cells
          BY <1>1, <1>2, <2>3, <3>1
        <4> HIDE DEF x, y
        <4>2. w[y] = w[x]
          BY <4>1, StretchIsLeft
        <4> QED
          BY <4>2 DEF x, y
    <2>9. v[cur[k]] = v[start[k]]
      <3>1. start[k]..(cur[k] - 1) \subseteq others
        BY <2>1 DEF others, Covered
      <3> QED
        <4> DEFINE x == start[k]
                   y == cur[k]
        <4>1. Keeping(v, t, others) /\ x \in Nat /\ y \in Nat /\ x <= y /\ Len(t) \in Nat /\ y <= Len(t) /\ x..(y - 1) \subseteq others
          BY <1>1, <1>3, <2>3, <3>1
        <4> HIDE DEF x, y
        <4>2. v[y] = v[x]
          BY <4>1, StretchIsLeft
        <4> QED
          BY <4>2 DEF x, y
    <2>10. w[hi[k]] = v[cur[k]]
      BY <2>6, <2>7, <2>8, <2>9
    <2> QED
      BY <2>1, <2>10 DEF S, k
  <1> HIDE DEF S
  <1>6. N \in S
    BY <1>1, <1>4, <1>5, UpTo, N \in 0..N
  <1> DEFINE a == hi[N]
             b == cur[N]
             g == Len(t) - b
  <1>7. /\ w[a] = v[b] /\ a \in Nat /\ b \in Nat /\ a <= Len(s) /\ b <= Len(t)
    <2>1. N \in 0..N
      BY <1>1
    <2> QED
      BY <1>6, <2>1, HighRises DEF S
  <1>8. Len(s) - a = g /\ \A i \in 1..g : s[a + i] = t[b + i]
    BY DEF Alike
  <1>9. g \in Nat /\ a + g = Len(s) /\ b + g = Len(t)
    <2> HIDE DEF a, b
    <2> QED
      BY <1>1, <1>7, <1>8
  <1>10. ASSUME NEW i \in 0..(g - 1) PROVE a + i \notin cells /\ b + i \notin others
    <2> DEFINE p == a + i
               q == b + i
    <2>1. p \in Nat /\ q \in Nat /\ a <= p /\ b <= q
      <3> HIDE DEF a, b
      <3> QED
        BY <1>7, <1>9
    <2> HIDE DEF p, q
    <2>2. p \notin cells
      BY <2>1, TailIsFree DEF cells, a
    <2>3. q \notin others
      BY <2>1, TailIsFree DEF others, b
    <2> QED
      BY <2>2, <2>3 DEF p, q
  <1> HIDE DEF a, b, g
  <1>11. w[a + g] = v[b + g]
    <2>1. a + g <= Len(s) /\ b + g <= Len(t)
      BY <1>1, <1>9
    <2> QED
      <3>1. Stretch(s, a, cells, t, b, others, g)
        BY <1>1, <1>7, <1>8, <1>9, <1>10, <2>1 DEF Stretch
      <3> QED
        BY <1>2, <1>3, <1>7, <3>1, StretchIsKept
  <1> QED
    BY <1>2, <1>3, <1>9, <1>11 DEF cells, others

-----------------------------------------------------------------------------
(* Sequences cut and put together again. *)

JoinAlike(a, b, c) == (a \o b) \o c = a \o (b \o c)

LEMMA JoinsAlike ==
    ASSUME NEW a, NEW b, NEW c, IsSeq(a), IsSeq(b), IsSeq(c)
    PROVE  JoinAlike(a, b, c)
  <1>1. PICK A : a \in Seq(A)
    BY DEF IsSeq
  <1>2. PICK B : b \in Seq(B)
    BY DEF IsSeq
  <1>3. PICK C : c \in Seq(C)
    BY DEF IsSeq
  <1> DEFINE U == A \cup B \cup C
  <1>4. a \in Seq(U) /\ b \in Seq(U) /\ c \in Seq(U)
    BY <1>1, <1>2, <1>3
  <1> HIDE DEF U
  <1> QED
    BY <1>4 DEF JoinAlike

LEMMA NothingBefore == ASSUME NEW s, IsSeq(s) PROVE << >> \o s = s
  <1>1. PICK S : s \in Seq(S)
    BY DEF IsSeq
  <1> QED
    BY <1>1

LEMMA SliceAgain ==
    ASSUME NEW s, IsSeq(s), NEW a \in Nat, NEW b \in Nat, NEW c \in Nat, a <= b, b <= c, c <= Len(s)
    PROVE  Slice(s, a, c) = Slice(s, a, b) \o Slice(s, b, c)
  <1> DEFINE x == Slice(s, a, b)
             y == Slice(s, b, c)
             z == Slice(s, a, c)
  <1>0. Len(s) \in Nat /\ a <= c /\ b <= Len(s) /\ b - a \in Nat /\ c - b \in Nat
    BY SeqHas
  <1>1. IsSeq(x) /\ Len(x) = b - a /\ \A i \in 1..(b - a) : x[i] = s[a + i]
    BY <1>0, SliceIs
  <1>2. IsSeq(y) /\ Len(y) = c - b /\ \A i \in 1..(c - b) : y[i] = s[b + i]
    BY <1>0, SliceIs
  <1>3. IsSeq(z) /\ Len(z) = c - a /\ \A i \in 1..(c - a) : z[i] = s[a + i]
    BY <1>0, SliceIs
  <1> HIDE DEF x, y, z
  <1>4. /\ IsSeq(x \o y) /\ Len(x \o y) = Len(x) + Len(y)
        /\ \A i \in 1..Len(x) : (x \o y)[i] = x[i]
        /\ \A i \in 1..Len(y) : (x \o y)[Len(x) + i] = y[i]
    BY <1>1, <1>2, SeqsJoin
  <1> DEFINE xy == x \o y
  <1> HIDE DEF xy
  <1>5. /\ IsSeq(xy) /\ Len(xy) = Len(x) + Len(y)
        /\ \A i \in 1..Len(x) : xy[i] = x[i]
        /\ \A i \in 1..Len(y) : xy[Len(x) + i] = y[i]
    BY <1>4 DEF xy
  <1>6. Len(z) = Len(xy)
    BY <1>0, <1>1, <1>2, <1>3, <1>5
  <1>7. ASSUME NEW i \in 1..Len(z) PROVE z[i] = xy[i]
    <2>1. z[i] = s[a + i]
      BY <1>3
    <2>2. CASE i <= b - a
      <3>1. i \in 1..(b - a) /\ i \in 1..Len(x)
        BY <1>0, <1>1, <2>2
      <3> QED
        BY <1>1, <1>5, <2>1, <3>1
    <2>3. CASE ~(i <= b - a)
      <3> DEFINE j == i - (b - a)
      <3>1. j \in 1..(c - b) /\ j \in 1..Len(y) /\ Len(x) + j = i /\ b + j = a + i
        BY <1>0, <1>1, <1>2, <1>3, <2>3
      <3> HIDE DEF j
      <3>2. xy[Len(x) + j] = y[j] /\ y[j] = s[b + j]
        BY <1>2, <1>5, <3>1
      <3> QED
        BY <2>1, <3>1, <3>2
    <2> QED
      BY <2>2, <2>3
  <1>8. z = xy
    BY <1>3, <1>5, <1>6, <1>7, SameSeq
  <1> QED
    BY <1>8 DEF x, y, z, xy

LEMMA SliceWhole ==
    ASSUME NEW s, IsSeq(s)
    PROVE  Slice(s, 0, Len(s)) = s
  <1> DEFINE n == Len(s)
             z == Slice(s, 0, n)
  <1>1. n \in Nat
    BY SeqHas
  <1>2. IsSeq(z) /\ Len(z) = n - 0 /\ \A i \in 1..(n - 0) : z[i] = s[0 + i]
    <2>1. 0 \in Nat /\ 0 <= n /\ n <= Len(s)
      BY <1>1
    <2> HIDE DEF n
    <2> QED
      BY <1>1, <2>1, SliceIs
  <1> HIDE DEF z
  <1>3. Len(z) = Len(s) /\ \A i \in 1..Len(z) : z[i] = s[i]
    BY <1>1, <1>2
  <1> QED
    BY <1>2, <1>3, SameSeq DEF z

LEMMA SliceOfJoined ==
    ASSUME NEW x, NEW t, IsSeq(x), IsSeq(t)
    PROVE  /\ Slice(x \o t, Len(x), Len(x \o t)) = t
           /\ \A c \in 0..Len(x) : Slice(x \o t, 0, c) = Slice(x, 0, c)
  <1> DEFINE g == x \o t
             a == Len(x)
             n == Len(g)
  <1>1. /\ IsSeq(g) /\ Len(g) = a + Len(t)
        /\ \A i \in 1..a : g[i] = x[i]
        /\ \A i \in 1..Len(t) : g[a + i] = t[i]
    BY SeqsJoin
  <1>2. a \in Nat /\ Len(t) \in Nat
    BY SeqHas
  <1> HIDE DEF g
  <1>3. n \in Nat /\ a <= n /\ n - a = Len(t) /\ n <= Len(g)
    BY <1>1, <1>2
  <1> HIDE DEF n, a
  <1>4. Slice(g, a, n) = t
    <2> DEFINE z == Slice(g, a, n)
    <2>1. IsSeq(z) /\ Len(z) = n - a /\ \A i \in 1..(n - a) : z[i] = g[a + i]
      BY <1>1, <1>2, <1>3, SliceIs
    <2> HIDE DEF z
    <2>2. Len(z) = Len(t) /\ \A i \in 1..Len(z) : z[i] = t[i]
      BY <1>1, <1>3, <2>1
    <2> QED
      BY <2>1, <2>2, SameSeq DEF z
  <1>5. ASSUME NEW c \in 0..a PROVE Slice(g, 0, c) = Slice(x, 0, c)
    <2> DEFINE z == Slice(g, 0, c)
               y == Slice(x, 0, c)
    <2>1. c \in Nat /\ 0 \in Nat /\ 0 <= c /\ c <= Len(g) /\ c <= Len(x)
      BY <1>1, <1>2 DEF a
    <2>2. IsSeq(z) /\ Len(z) = c - 0 /\ \A i \in 1..(c - 0) : z[i] = g[0 + i]
      BY <1>1, <2>1, SliceIs
    <2>3. IsSeq(y) /\ Len(y) = c - 0 /\ \A i \in 1..(c - 0) : y[i] = x[0 + i]
      BY <2>1, SliceIs
    <2> HIDE DEF z, y
    <2>4. Len(z) = Len(y) /\ \A i \in 1..Len(z) : z[i] = y[i]
      BY <1>1, <1>2, <2>1, <2>2, <2>3
    <2> QED
      BY <2>2, <2>3, <2>4, SameSeq DEF z, y
  <1> QED
    BY <1>4, <1>5 DEF g, a, n

LEMMA SliceOfSlice ==
    ASSUME NEW s, IsSeq(s), NEW a \in Nat, NEW b \in Nat, a <= b, b <= Len(s)
    PROVE  Slice(Slice(s, 0, b), 0, a) = Slice(s, 0, a)
  <1> DEFINE x == Slice(s, 0, a)
             y == Slice(s, a, b)
  <1>1. 0 \in Nat /\ 0 <= a /\ a <= Len(s) /\ Len(s) \in Nat
    BY SeqHas
  <1>2. Slice(s, 0, b) = x \o y
    BY <1>1, SliceAgain
  <1>3. IsSeq(x) /\ Len(x) = a - 0
    BY <1>1, SliceIs
  <1>4. IsSeq(y)
    BY <1>1, SliceIs
  <1> HIDE DEF x, y
  <1>5. a \in 0..Len(x) /\ Len(x) = a
    BY <1>3
  <1>6. Slice(x \o y, 0, a) = Slice(x, 0, a)
    BY <1>3, <1>4, <1>5, SliceOfJoined
  <1>7. Slice(x, 0, Len(x)) = x
    BY <1>3, SliceWhole
  <1> QED
    BY <1>2, <1>5, <1>6, <1>7 DEF x

-----------------------------------------------------------------------------
(* A segment without the numbers of its names. *)
Blanked(s) == [i \in DOMAIN s |-> IF Len(s[i]) = 3 THEN Label(s[i][2], 0) ELSE s[i]]

LEMMA BlankedIs ==
    ASSUME NEW s, IsSeq(s)
    PROVE  IsSeq(Blanked(s)) /\ Len(Blanked(s)) = Len(s)
  <1> DEFINE t == Blanked(s)
  <1>1. Len(s) \in Nat /\ DOMAIN s = 1..Len(s)
    BY SeqHas
  <1>2. DOMAIN t = 1..Len(s) /\ IsTable(t, 1..Len(s))
    BY <1>1 DEF Blanked, IsTable
  <1> HIDE DEF t
  <1>3. IsSeq(t) /\ Len(t) = Len(s)
    BY <1>1, <1>2, TableIsSeq
  <1> QED
    BY <1>3 DEF t

LEMMA BlankedJoins ==
    ASSUME NEW s, NEW t, IsSeq(s), IsSeq(t)
    PROVE  Blanked(s \o t) = Blanked(s) \o Blanked(t)
  <1> DEFINE Of(x) == IF Len(x) = 3 THEN Label(x[2], 0) ELSE x
             st == s \o t
             x == Blanked(s)
             y == Blanked(t)
             xy == x \o y
             z == Blanked(st)
             n == Len(s)
             m == Len(t)
  <1>1. n \in Nat /\ DOMAIN s = 1..n /\ m \in Nat /\ DOMAIN t = 1..m
    BY SeqHas
  <1>2. /\ IsSeq(st) /\ Len(st) = n + m
        /\ \A i \in 1..n : st[i] = s[i]
        /\ \A i \in 1..m : st[n + i] = t[i]
    BY SeqsJoin
  <1> HIDE DEF st
  <1>3. DOMAIN st = 1..(n + m)
    BY <1>2, SeqHas
  <1>4. \A i \in 1..n : x[i] = Of(s[i])
    BY <1>1 DEF Blanked
  <1>5. \A i \in 1..m : y[i] = Of(t[i])
    BY <1>1 DEF Blanked
  <1>6. \A i \in 1..(n + m) : z[i] = Of(st[i])
    BY <1>3 DEF Blanked
  <1>7. IsSeq(x) /\ Len(x) = n /\ IsSeq(y) /\ Len(y) = m /\ IsSeq(z) /\ Len(z) = n + m
    BY <1>2, BlankedIs
  <1> HIDE DEF Of, x, y, z
  <1>8. /\ IsSeq(xy) /\ Len(xy) = Len(x) + Len(y)
        /\ \A i \in 1..Len(x) : xy[i] = x[i]
        /\ \A i \in 1..Len(y) : xy[Len(x) + i] = y[i]
    BY <1>7, SeqsJoin
  <1> HIDE DEF xy, n, m
  <1>9. ASSUME NEW i \in 1..(n + m) PROVE z[i] = xy[i]
    <2>1. z[i] = Of(st[i])
      BY <1>6
    <2>2. CASE i <= n
      <3>1. i \in 1..n
        BY <1>1, <2>2
      <3> QED
        BY <1>2, <1>4, <1>7, <1>8, <2>1, <3>1
    <2>3. CASE ~(i <= n)
      <3> DEFINE j == i - n
      <3>1. j \in 1..m /\ n + j = i
        BY <1>1, <2>3
      <3> HIDE DEF j
      <3>2. st[n + j] = t[j] /\ xy[n + j] = y[j] /\ y[j] = Of(t[j])
        BY <1>2, <1>5, <1>7, <1>8, <3>1
      <3> QED
        BY <2>1, <3>1, <3>2
    <2> QED
      BY <2>2, <2>3
  <1>10. z = xy
    BY <1>7, <1>8, <1>9, SameSeq
  <1> QED
    BY <1>10 DEF z, xy, x, y, st

(* One mark of the draft, from right to left: what is before it is the     *)
(* source's, what is behind it was written already.                        *)
DraftedOn(seg, a, b, c, d, T, g) ==
    LET gap == Slice(seg, a, b)
    IN  /\ IsSeq(gap)
        /\ Slice(g, 0, b) \o d \o Slice(g, c, Len(g)) = Slice(seg, 0, a) \o (gap \o (d \o T))

LEMMA ReplacedStep ==
    ASSUME NEW seg, NEW T, NEW d, IsSeq(seg), IsSeq(T), IsSeq(d),
           NEW a \in Nat, NEW b \in Nat, NEW c \in Nat, a <= b, b <= c, c <= Len(seg),
           NEW g, g = Slice(seg, 0, c) \o T
    PROVE  DraftedOn(seg, a, b, c, d, T, g)
  <1> DEFINE head == Slice(seg, 0, c)
             gap == Slice(seg, a, b)
             x == Slice(seg, 0, a)
             xb == Slice(seg, 0, b)
  <1>1. Len(seg) \in Nat /\ 0 \in Nat /\ 0 <= a /\ 0 <= b /\ 0 <= c /\ a <= Len(seg) /\ b <= Len(seg) /\ c - 0 = c
    BY SeqHas
  <1>2. IsSeq(head) /\ Len(head) = c - 0
    BY <1>1, SliceIs
  <1>3. IsSeq(gap)
    BY <1>1, SliceIs
  <1>4. IsSeq(x)
    BY <1>1, SliceIs
  <1>5. xb = x \o gap
    BY <1>1, SliceAgain
  <1>6. Slice(head, 0, b) = xb
    BY <1>1, SliceOfSlice
  <1> HIDE DEF head
  <1>7. Len(head) = c /\ b \in 0..Len(head)
    BY <1>1, <1>2
  <1>8. Slice(head \o T, Len(head), Len(head \o T)) = T /\ Slice(head \o T, 0, b) = Slice(head, 0, b)
    BY <1>2, <1>7, SliceOfJoined
  <1>9. g = head \o T
    BY DEF head
  <1>10. Slice(g, 0, b) = xb /\ Slice(g, c, Len(g)) = T
    BY <1>6, <1>7, <1>8, <1>9
  <1> HIDE DEF gap, x, xb
  <1>11. (x \o gap) \o d \o T = x \o (gap \o (d \o T))
    <2>1. ((x \o gap) \o d) \o T = (x \o gap) \o (d \o T)
      <3>1. IsSeq(x \o gap)
        BY <1>3, <1>4, SeqsJoin
      <3> DEFINE xg == x \o gap
      <3> HIDE DEF xg
      <3>2. IsSeq(xg)
        BY <3>1 DEF xg
      <3>3. JoinAlike(xg, d, T)
        BY <3>2, JoinsAlike
      <3> QED
        BY <3>3 DEF JoinAlike, xg
    <2>2. (x \o gap) \o (d \o T) = x \o (gap \o (d \o T))
      <3> DEFINE dT == d \o T
      <3>1. IsSeq(dT)
        BY SeqsJoin
      <3> HIDE DEF dT
      <3>2. JoinAlike(x, gap, dT)
        BY <1>3, <1>4, <3>1, JoinsAlike
      <3> QED
        BY <3>2 DEF JoinAlike, dT
    <2> QED
      BY <2>1, <2>2
  <1> QED
    BY <1>3, <1>5, <1>10, <1>11 DEF DraftedOn, gap, x

(* Writing on in front: what differs by numbers only makes no difference.  *)
LEMMA WrittenAlike ==
    ASSUME NEW out, NEW gap, NEW d, NEW v, NEW T, IsSeq(out), IsSeq(gap), IsSeq(d), IsSeq(v), IsSeq(T),
           Blanked(d) = Blanked(v)
    PROVE  /\ IsSeq(gap \o (d \o T))
           /\ Blanked(out \o (gap \o (d \o T))) = Blanked((out \o gap \o v) \o T)
  <1> DEFINE dT == d \o T
             vT == v \o T
             gd == gap \o dT
             gv == gap \o vT
  <1>1. IsSeq(dT) /\ IsSeq(vT)
    BY SeqsJoin
  <1>2. Blanked(dT) = Blanked(vT)
    <2>1. Blanked(dT) = Blanked(d) \o Blanked(T)
      BY BlankedJoins
    <2>2. Blanked(vT) = Blanked(v) \o Blanked(T)
      BY BlankedJoins
    <2> QED
      BY <2>1, <2>2
  <1>3. (out \o gap \o v) \o T = out \o (gap \o (v \o T))
    <2> DEFINE og == out \o gap
    <2>1. IsSeq(og)
      BY SeqsJoin
    <2>2. og \o (v \o T) = out \o (gap \o (v \o T))
      <3> HIDE DEF vT
      <3>1. JoinAlike(out, gap, vT)
        BY <1>1, JoinsAlike
      <3> QED
        BY <3>1 DEF JoinAlike, vT
    <2> HIDE DEF og
    <2>3. JoinAlike(og, v, T)
      BY <2>1, JoinsAlike
    <2> QED
      BY <2>2, <2>3 DEF JoinAlike, og
  <1> HIDE DEF dT, vT
  <1>4. IsSeq(gd) /\ IsSeq(gv)
    BY <1>1, SeqsJoin
  <1>5. Blanked(gd) = Blanked(gap) \o Blanked(dT) /\ Blanked(gv) = Blanked(gap) \o Blanked(vT)
    BY <1>1, BlankedJoins
  <1> HIDE DEF gd, gv
  <1>6. Blanked(out \o gd) = Blanked(out) \o Blanked(gd) /\ Blanked(out \o gv) = Blanked(out) \o Blanked(gv)
    BY <1>4, BlankedJoins
  <1>7. Blanked(out \o gd) = Blanked(out \o gv)
    BY <1>2, <1>5, <1>6
  <1> QED
    BY <1>3, <1>4, <1>7 DEF gd, gv, dT, vT

(* Right to left gives what left to right gives, but for the numbers.      *)
Drafted(N, seg, cur, start, value, drafted, g) ==
    /\ \A k \in 1..N : IsSeq(drafted[k]) /\ Blanked(drafted[k]) = Blanked(value[k])
    /\ g[0] = seg
    /\ \A j \in 1..N : g[j] = Slice(g[j - 1], 0, start[N + 1 - j]) \o drafted[N + 1 - j]
                              \o Slice(g[j - 1], cur[N + 1 - j], Len(g[j - 1]))

LEMMA DraftIsAlike ==
    ASSUME NEW N, NEW seg, NEW cur, NEW start, NEW value, NEW out, Woven(N, seg, cur, start, value, out),
           NEW drafted, NEW g, Drafted(N, seg, cur, start, value, drafted, g)
    PROVE  Blanked(g[N]) = Blanked(WovenText(N, seg, cur, out))
  <1> DEFINE final == WovenText(N, seg, cur, out)
             Ends(k, x) == \E T : IsSeq(T) /\ x = Slice(seg, 0, cur[k]) \o T /\ Blanked(out[k] \o T) = Blanked(final)
             S == {j \in 0..N : Ends(N - j, g[j])}
  <1>1. N \in Nat /\ N \in 0..N /\ IsSeq(seg) /\ Len(seg) \in Nat /\ cur[0] = 0 /\ out[0] = << >>
    BY SeqHas DEF Woven
  <1>2. \A k \in 0..N : IsSeq(out[k]) /\ cur[k] \in Nat /\ cur[k] <= Len(seg)
    BY WovenIs
  <1>3. 0 \in S
    <2> DEFINE c == cur[N]
               n == Len(seg)
               T == Slice(seg, c, n)
    <2>1. c \in Nat /\ n \in Nat /\ c <= n /\ n <= Len(seg) /\ 0 \in Nat /\ 0 <= c
      BY <1>1, <1>2
    <2>2. final = out[N] \o T
      BY DEF WovenText
    <2>3. IsSeq(T) /\ Slice(seg, 0, n) = Slice(seg, 0, c) \o T
      <3> HIDE DEF c, n
      <3> QED
        <4>1. IsSeq(Slice(seg, c, n))
          BY <1>1, <2>1, SliceIs
        <4>2. Slice(seg, 0, n) = Slice(seg, 0, c) \o Slice(seg, c, n)
          BY <1>1, <2>1, SliceAgain
        <4> QED
          BY <4>1, <4>2
    <2>4. Slice(seg, 0, n) = seg
      BY <1>1, SliceWhole
    <2>5. seg = Slice(seg, 0, cur[N]) \o T
      BY <2>3, <2>4
    <2> HIDE DEF final, T, c, n
    <2>6. Ends(N, seg)
      BY <2>2, <2>3, <2>5
    <2>7. N - 0 = N /\ 0 \in 0..N
      BY <1>1
    <2>8. g[0] = seg
      BY DEF Drafted
    <2> QED
      BY <2>6, <2>7, <2>8
  <1> HIDE DEF final
  <1>4. ASSUME NEW i \in 0..(N - 1), i \in S PROVE i + 1 \in S
    <2> DEFINE j == i + 1
               k == N - i
    <2>1. j \in 1..N /\ j \in 0..N /\ j - 1 = i /\ k \in 1..N /\ k \in 0..N /\ k - 1 \in 0..N /\ N + 1 - j = k /\ N - j = k - 1
      <3> HIDE DEF S
      <3> QED
        BY <1>1
    <2>2. Ends(k, g[i])
      BY <1>4
    <2> HIDE DEF S, Ends, k, j
    <2>3. PICK T : IsSeq(T) /\ g[i] = Slice(seg, 0, cur[k]) \o T /\ Blanked(out[k] \o T) = Blanked(final)
      BY <2>2 DEF Ends
    <2> DEFINE a == cur[k - 1]
               b == start[k]
               c == cur[k]
               d == drafted[k]
               v == value[k]
               o == out[k - 1]
               x == g[i]
               gap == Slice(seg, a, b)
    <2>4. /\ a \in Nat /\ b \in Nat /\ c \in Nat /\ a <= b /\ b <= c /\ c <= Len(seg)
          /\ IsSeq(v) /\ IsSeq(o) /\ out[k] = o \o gap \o v
      <3>1. /\ b \in Nat /\ c \in Nat /\ a <= b /\ b < c /\ c <= Len(seg)
            /\ IsSeq(v) /\ out[k] = o \o gap \o v
        BY <2>1 DEF Woven
      <3>2. a \in Nat /\ IsSeq(o)
        BY <1>2, <2>1
      <3> QED
        BY <3>1, <3>2
    <2>5. IsSeq(d) /\ Blanked(d) = Blanked(v)
      BY <2>1 DEF Drafted
    <2>6. g[j] = Slice(x, 0, b) \o d \o Slice(x, c, Len(x))
      BY <2>1 DEF Drafted
    <2>7. x = Slice(seg, 0, c) \o T
      BY <2>3
    <2> HIDE DEF a, b, c, d, v, o, x
    <2>8. /\ IsSeq(gap)
          /\ Slice(x, 0, b) \o d \o Slice(x, c, Len(x)) = Slice(seg, 0, a) \o (gap \o (d \o T))
      <3>1. /\ IsSeq(seg) /\ IsSeq(T) /\ IsSeq(d) /\ a \in Nat /\ b \in Nat /\ c \in Nat
            /\ a <= b /\ b <= c /\ c <= Len(seg)
        BY <1>1, <2>3, <2>4, <2>5
      <3>2. DraftedOn(seg, a, b, c, d, T, x)
        BY <2>7, <3>1, ReplacedStep
      <3> QED
        BY <3>2 DEF DraftedOn
    <2> HIDE DEF gap
    <2>9. IsSeq(gap \o (d \o T)) /\ Blanked(o \o (gap \o (d \o T))) = Blanked((o \o gap \o v) \o T)
      BY <2>3, <2>4, <2>5, <2>8, WrittenAlike
    <2> DEFINE U == gap \o (d \o T)
    <2>10. IsSeq(U) /\ g[j] = Slice(seg, 0, a) \o U /\ Blanked(o \o U) = Blanked(final)
      BY <2>3, <2>4, <2>6, <2>8, <2>9
    <2> HIDE DEF U
    <2>11. Ends(k - 1, g[j])
      BY <2>10 DEF Ends, a, o
    <2> QED
      BY <2>1, <2>11 DEF S, j
  <1>5. N \in S
    <2> HIDE DEF S
    <2> QED
      BY <1>1, <1>3, <1>4, UpTo
  <1>6. Ends(0, g[N])
    <2>1. N - N = 0
      BY <1>1
    <2> QED
      BY <1>5, <2>1
  <1>7. PICK T : IsSeq(T) /\ g[N] = Slice(seg, 0, cur[0]) \o T /\ Blanked(out[0] \o T) = Blanked(final)
    BY <1>6
  <1>8. Slice(seg, 0, 0) = << >>
    <2> DEFINE z == Slice(seg, 0, 0)
    <2>1. 0 \in Nat /\ 0 <= 0 /\ 0 <= Len(seg)
      BY <1>1
    <2>2. IsSeq(z) /\ Len(z) = 0 - 0
      BY <1>1, <2>1, SliceIs
    <2> HIDE DEF z
    <2>3. Len(z) = Len(<< >>) /\ \A i \in 1..Len(z) : z[i] = << >>[i]
      BY <2>2, EmptyIsSeq
    <2> QED
      BY <2>2, <2>3, EmptyIsSeq, SameSeq DEF z
  <1>9. << >> \o T = T
    BY <1>7, NothingBefore
  <1> QED
    BY <1>1, <1>7, <1>8, <1>9 DEF final

-----------------------------------------------------------------------------
(* The report of one segment. *)

EntriesOf(text, reg, assigned, cue) == EndOf(text, reg, assigned, cue).entries

ReplacedCells(entries) == UNION {e.from..(e.to - 1) : e \in entries}

MarkedCells(entries) == UNION {e.mark.start..(e.mark.end - 1) : e \in entries}

LEMMA CueReport ==
    ASSUME NEW text, NEW reg, NEW assigned, IsAssigned(text, assigned), NEW cue \in DOMAIN text
    PROVE  LET entries == EntriesOf(text, reg, assigned, cue)
               written == Final(text, reg, assigned).text[cue]
           IN  /\ \A e \in entries : /\ e.mark \in DOMAIN assigned /\ e.mark.cue = cue
                                     /\ Slice(written, e.from, e.to) = Standing(text, reg, assigned, e.mark)
               /\ \A m \in DOMAIN assigned : m.cue = cue => \E e \in entries : e.mark = m
               /\ \A d, e \in entries : d.mark = e.mark => d = e
               /\ OutsideOf(written, ReplacedCells(entries)) = OutsideOf(text[cue], MarkedCells(entries))
  <1> DEFINE order == ForCue(DOMAIN assigned, cue)
             N == Len(order)
             seg == text[cue]
             written == Final(text, reg, assigned).text[cue]
             entries == EntriesOf(text, reg, assigned, cue)
  <1>0. PICK cur, start, value, out : FinalWoven(text, reg, assigned, cue, cur, start, value, out)
    BY FinalCue
  <1>1. /\ WovenCue(text, reg, assigned, cue, cur, start, value, out)
        /\ written = WovenText(N, seg, cur, out)
    BY <1>0 DEF FinalWoven
  <1> DEFINE E(k) == EntryOf(assigned, order[k], From(cur, start, out, k), Len(out[k]))
  <1>2. /\ Woven(N, seg, cur, start, value, out)
        /\ \A k \in 1..N : cur[k] = order[k].end /\ start[k] = order[k].start /\ value[k] = Standing(text, reg, assigned, order[k])
        /\ entries = {E(k) : k \in 1..N}
    BY <1>1 DEF WovenCue, EntriesOf, EndOf
  <1>3. /\ N \in Nat /\ \A i \in 1..N : order[i] \in DOMAIN assigned /\ order[i].cue = cue
        /\ \A i, j \in 1..N : i # j => order[i] # order[j]
        /\ \A m \in DOMAIN assigned : m.cue = cue => \E i \in 1..N : order[i] = m
    BY CueOrder DEF IsAssigned
  <1>4. \A k \in 1..N : E(k).mark = order[k] /\ E(k).from = From(cur, start, out, k) /\ E(k).to = Len(out[k])
    BY DEF EntryOf
  <1> HIDE DEF order, N, seg, written, entries, E
  <1>5. /\ IsSeq(written) /\ Len(written) = Len(out[N]) + (Len(seg) - cur[N])
        /\ \A i \in 1..(Len(seg) - cur[N]) : written[Len(out[N]) + i] = seg[cur[N] + i]
        /\ \A k \in 1..N :
             /\ \A i \in 1..(start[k] - cur[k - 1]) : written[Len(out[k - 1]) + i] = seg[cur[k - 1] + i]
             /\ Slice(written, From(cur, start, out, k), Len(out[k])) = value[k]
    BY <1>1, <1>2, WovenTextIs
  <1>6. ASSUME NEW e \in entries
        PROVE  /\ e.mark \in DOMAIN assigned /\ e.mark.cue = cue
               /\ Slice(written, e.from, e.to) = Standing(text, reg, assigned, e.mark)
    <2>1. PICK k \in 1..N : e = E(k)
      BY <1>2
    <2>2. e.mark = order[k] /\ e.from = From(cur, start, out, k) /\ e.to = Len(out[k])
      BY <1>4, <2>1
    <2>3. Slice(written, From(cur, start, out, k), Len(out[k])) = Standing(text, reg, assigned, order[k])
      BY <1>2, <1>5
    <2> QED
      BY <1>3, <2>2, <2>3
  <1>7. ASSUME NEW m \in DOMAIN assigned, m.cue = cue PROVE \E e \in entries : e.mark = m
    <2>1. PICK k \in 1..N : order[k] = m
      BY <1>3, <1>7
    <2> QED
      BY <1>2, <1>4, <2>1
  <1>8. ASSUME NEW d \in entries, NEW e \in entries, d.mark = e.mark PROVE d = e
    <2>1. PICK j \in 1..N : d = E(j)
      BY <1>2
    <2>2. PICK k \in 1..N : e = E(k)
      BY <1>2
    <2>3. order[j] = order[k]
      BY <1>4, <1>8, <2>1, <2>2
    <2> QED
      BY <1>3, <2>1, <2>2, <2>3
  <1> DEFINE lo == [k \in 1..N |-> From(cur, start, out, k)]
             hi == [k \in 0..N |-> Len(out[k])]
  <1>9. ReplacedCells(entries) = Covered(N, lo, hi)
    <2>1. \A k \in 1..N : lo[k] = E(k).from /\ hi[k] = E(k).to
      BY <1>3, <1>4
    <2> HIDE DEF lo, hi
    <2> QED
      BY <1>2, <2>1 DEF ReplacedCells, Covered
  <1>10. MarkedCells(entries) = Covered(N, start, cur)
    <2>1. \A k \in 1..N : start[k] = E(k).mark.start /\ cur[k] = E(k).mark.end
      BY <1>2, <1>4
    <2> QED
      BY <1>2, <2>1 DEF MarkedCells, Covered
  <1>11. /\ hi[0] = 0 /\ hi[N] = Len(out[N])
         /\ \A k \in 1..N : lo[k] = From(cur, start, out, k) /\ hi[k] = Len(out[k]) /\ hi[k - 1] = Len(out[k - 1])
    <2>1. out[0] = << >>
      BY <1>2 DEF Woven
    <2>2. \A k \in 1..N : k \in 0..N /\ k - 1 \in 0..N
      BY <1>3
    <2>3. 0 \in 0..N /\ N \in 0..N
      BY <1>3
    <2> QED
      BY <2>1, <2>2, <2>3, EmptyIsSeq
  <1> HIDE DEF lo, hi
  <1>12. IsSeq(seg) /\ Len(seg) \in Nat /\ IsSeq(out[N]) /\ Len(out[N]) \in Nat /\ cur[N] \in Nat /\ cur[N] <= Len(seg)
    <2>1. IsSeq(seg)
      BY <1>2 DEF Woven
    <2>2. N \in 0..N
      BY <1>3
    <2> QED
      BY <1>2, <2>1, <2>2, WovenIs, SeqHas
  <1>13. Apportioned(N, start, cur, Len(seg))
    <2>1. cur[0] = 0 /\ \A k \in 1..N : start[k] \in Nat /\ cur[k] \in Nat /\ cur[k - 1] <= start[k] /\ start[k] < cur[k]
      BY <1>2 DEF Woven
    <2>2. \A k \in 1..N : start[k] <= cur[k]
      BY <2>1
    <2> QED
      BY <1>3, <1>12, <2>1, <2>2 DEF Apportioned
  <1>14. Apportioned(N, lo, hi, Len(written))
    <2>1. ASSUME NEW k \in 1..N
          PROVE  lo[k] \in Nat /\ hi[k] \in Nat /\ hi[k - 1] <= lo[k] /\ lo[k] <= hi[k]
      <3>1. k - 1 \in 0..N
        BY <1>3
      <3>2. IsSeq(out[k - 1]) /\ cur[k - 1] \in Nat
        BY <1>2, <3>1, WovenIs
      <3> DEFINE from == From(cur, start, out, k)
                 n == Len(value[k])
      <3>3. /\ from \in Nat /\ Len(out[k]) \in Nat /\ Len(out[k - 1]) <= from /\ Len(out[k]) = from + n
        BY <1>2, <3>2, WovenStep
      <3>4. n \in Nat
        <4>1. IsSeq(value[k])
          BY <1>2 DEF Woven
        <4> QED
          BY <4>1, SeqHas
      <3> HIDE DEF from, n
      <3>5. from <= Len(out[k])
        BY <3>3, <3>4
      <3> QED
        BY <1>11, <3>3, <3>5 DEF from
    <2>2. Len(written) \in Nat /\ hi[N] <= Len(written)
      <3> DEFINE a == Len(out[N])
                 b == Len(seg)
                 c == cur[N]
      <3>1. a \in Nat /\ b \in Nat /\ c \in Nat /\ c <= b /\ Len(written) = a + (b - c) /\ hi[N] = a
        BY <1>5, <1>11, <1>12
      <3> HIDE DEF a, b, c
      <3> QED
        BY <3>1
    <2> QED
      BY <1>3, <1>11, <2>1, <2>2 DEF Apportioned
  <1>15. Alike(N, written, lo, hi, seg, start, cur)
    <2>1. ASSUME NEW k \in 1..N
          PROVE  /\ lo[k] - hi[k - 1] = start[k] - cur[k - 1]
                 /\ \A i \in 1..(start[k] - cur[k - 1]) : written[hi[k - 1] + i] = seg[cur[k - 1] + i]
      <3>1. k - 1 \in 0..N
        BY <1>3
      <3>2. Len(out[k - 1]) \in Nat /\ cur[k - 1] \in Nat /\ start[k] \in Nat
        <4>1. start[k] \in Nat
          BY <1>2 DEF Woven
        <4>2. IsSeq(out[k - 1]) /\ cur[k - 1] \in Nat
          BY <1>2, <3>1, WovenIs
        <4> QED
          BY <4>1, <4>2, SeqHas
      <3>3. lo[k] = Len(out[k - 1]) + (start[k] - cur[k - 1]) /\ hi[k - 1] = Len(out[k - 1])
        BY <1>11 DEF From
      <3>4. lo[k] - hi[k - 1] = start[k] - cur[k - 1]
        <4> DEFINE a == Len(out[k - 1])
                   b == start[k]
                   c == cur[k - 1]
        <4>1. a \in Nat /\ b \in Nat /\ c \in Nat /\ lo[k] = a + (b - c) /\ hi[k - 1] = a
          BY <3>2, <3>3
        <4> HIDE DEF a, b, c
        <4>2. lo[k] - hi[k - 1] = b - c
          BY <4>1
        <4> QED
          BY <4>2 DEF b, c
      <3> QED
        BY <1>5, <1>11, <3>4
    <2>2. Len(written) - hi[N] = Len(seg) - cur[N]
      <3> DEFINE a == Len(out[N])
                 b == Len(seg)
                 c == cur[N]
      <3>1. a \in Nat /\ b \in Nat /\ c \in Nat /\ Len(written) = a + (b - c) /\ hi[N] = a
        BY <1>5, <1>11, <1>12
      <3> HIDE DEF a, b, c
      <3>2. Len(written) - hi[N] = b - c
        BY <3>1
      <3> QED
        BY <3>2 DEF b, c
    <2>3. \A i \in 1..(Len(seg) - cur[N]) : written[hi[N] + i] = seg[cur[N] + i]
      BY <1>5, <1>11
    <2> QED
      BY <2>1, <2>2, <2>3 DEF Alike
  <1>16. OutsideOf(written, Covered(N, lo, hi)) = OutsideOf(seg, Covered(N, start, cur))
    BY <1>5, <1>12, <1>13, <1>14, <1>15, OutsideIsAlike
  <1>17. OutsideOf(written, ReplacedCells(entries)) = OutsideOf(seg, MarkedCells(entries))
    BY <1>9, <1>10, <1>16
  <1> QED
    BY <1>6, <1>7, <1>8, <1>17 DEF written, entries, seg

-----------------------------------------------------------------------------
(* The draft and the final text. *)

LEMMA LabelIsBlanked ==
    ASSUME NEW type, NEW m, NEW n
    PROVE  Blanked(<<Label(type, m)>>) = Blanked(<<Label(type, n)>>)
  <1>1. \A k : Blanked(<<Label(type, k)>>) = <<Label(type, 0)>>
    <2> TAKE k
    <2> DEFINE x == Label(type, k)
    <2>1. Len(x) = 3 /\ x[2] = type
      BY DEF Label
    <2> HIDE DEF x
    <2>2. DOMAIN <<x>> = {1} /\ <<x>>[1] = x
      OBVIOUS
    <2>3. Blanked(<<x>>) = [i \in {1} |-> Label(type, 0)]
      BY <2>1, <2>2 DEF Blanked
    <2>4. [i \in {1} |-> Label(type, 0)] = <<Label(type, 0)>>
      OBVIOUS
    <2> QED
      BY <2>3, <2>4 DEF x
  <1> QED
    BY <1>1

NumberIsBlanked(text, action, m, a, b) ==
    Blanked(Replacement(text, action, m, Label(m.type, a))) = Blanked(Replacement(text, action, m, Label(m.type, b)))

LEMMA ReplacementIsBlanked ==
    ASSUME NEW text, NEW action \in Actions, NEW m, NEW a, NEW b
    PROVE  NumberIsBlanked(text, action, m, a, b)
  <1>1. CASE action = "keep"
    BY <1>1 DEF Replacement, NumberIsBlanked
  <1>2. CASE action = "remove"
    BY <1>2 DEF Replacement, NumberIsBlanked
  <1>3. CASE action = "coarsen"
    BY <1>3 DEF Replacement, NumberIsBlanked
  <1>4. CASE action = "pseudonym"
    <2>1. \A k : Replacement(text, action, m, Label(m.type, k)) = <<Label(m.type, k)>>
      BY <1>4 DEF Replacement
    <2> QED
      BY <2>1, LabelIsBlanked DEF NumberIsBlanked
  <1> QED
    BY <1>1, <1>2, <1>3, <1>4 DEF Actions

LEMMA ReverseIs ==
    ASSUME NEW order, Len(order) \in Nat
    PROVE  /\ Len(Reverse(order)) = Len(order) /\ DOMAIN Reverse(order) = 1..Len(order)
           /\ \A j \in 1..Len(order) : Reverse(order)[j] = order[(Len(order) - j) + 1]
  <1> DEFINE r == Reverse(order)
             n == Len(order)
  <1>1. r = [i \in 1..n |-> order[(n - i) + 1]]
    BY DEF Reverse
  <1>2. DOMAIN r = 1..n /\ IsTable(r, 1..n) /\ \A j \in 1..n : r[j] = order[(n - j) + 1]
    BY <1>1 DEF IsTable
  <1> HIDE DEF r, n
  <1>3. n \in Nat
    BY DEF n
  <1>4. Len(r) = n
    BY <1>2, <1>3, TableIsSeq
  <1> QED
    BY <1>2, <1>4 DEF r, n

LEMMA CueDraft ==
    ASSUME NEW text, NEW reg, NEW assigned, IsAssigned(text, assigned), NEW cue \in DOMAIN text,
           NEW pol, \A m \in DOMAIN assigned : assigned[m].action = pol[m.type], NEW groups
    PROVE  Blanked(DraftOf(text, pol, groups, text[cue], Reverse(ForCue(DOMAIN assigned, cue)))) =
           Blanked(Final(text, reg, assigned).text[cue])
  <1> DEFINE marks == DOMAIN assigned
             order == ForCue(marks, cue)
             back == Reverse(order)
             N == Len(order)
             seg == text[cue]
             written == Final(text, reg, assigned).text[cue]
  <1>0. PICK cur, start, value, out : FinalWoven(text, reg, assigned, cue, cur, start, value, out)
    BY FinalCue
  <1>1. /\ WovenCue(text, reg, assigned, cue, cur, start, value, out)
        /\ written = WovenText(N, seg, cur, out)
    BY <1>0 DEF FinalWoven
  <1>2. /\ Woven(N, seg, cur, start, value, out)
        /\ \A k \in 1..N : cur[k] = order[k].end /\ start[k] = order[k].start /\ value[k] = Standing(text, reg, assigned, order[k])
    BY <1>1 DEF WovenCue
  <1>3. N \in Nat /\ \A i \in 1..N : order[i] \in marks /\ order[i].cue = cue
    BY CueOrder DEF IsAssigned
  <1>4. IsSeq(seg)
    BY <1>2 DEF Woven
  <1> HIDE DEF order, seg, written
  <1>5. /\ Len(back) = N /\ DOMAIN back = 1..N
        /\ \A j \in 1..N : back[j] = order[(N - j) + 1]
    BY <1>3, ReverseIs
  <1> HIDE DEF back
  <1>6. PICK g : DraftWalk(g, text, pol, groups, seg, back)
    <2>1. Len(back) \in Nat /\ DOMAIN back = 1..Len(back)
      BY <1>3, <1>5
    <2> QED
      BY <2>1, DraftIs
  <1> DEFINE drafted == [k \in 1..N |-> DraftValue(text, pol, groups, order[k])]
  <1>7. ASSUME NEW k \in 1..N PROVE IsSeq(drafted[k]) /\ Blanked(drafted[k]) = Blanked(value[k])
    <2> DEFINE m == order[k]
    <2>1. m \in marks /\ m.cue = cue
      BY <1>3
    <2>2. drafted[k] = DraftValue(text, pol, groups, m) /\ value[k] = Standing(text, reg, assigned, m)
      BY <1>2
    <2> HIDE DEF m, drafted
    <2>3. IsMark(m) /\ InRange(text, m) /\ assigned[m].action \in Actions /\ pol[m.type] = assigned[m].action
      BY <2>1 DEF IsAssigned, IsMarked, AreMarks
    <2>4. m.start < m.end /\ m.end <= Len(text[m.cue]) /\ IsSeq(text[m.cue])
      BY <1>4, <2>1, <2>3 DEF InRange, seg
    <2> DEFINE action == pol[m.type]
               b == reg.entities[assigned[m].entity].number
    <2>5. PICK a : DraftLabel(groups, m) = Label(m.type, a)
      BY DEF DraftLabel
    <2>6. drafted[k] = Replacement(text, action, m, Label(m.type, a))
      BY <2>2, <2>5 DEF DraftValue
    <2>7. value[k] = Replacement(text, action, m, Label(m.type, b))
      BY <2>2, <2>3 DEF Standing
    <2>8. action \in Actions
      BY <2>3
    <2> HIDE DEF action, b
    <2>9. IsSeq(Replacement(text, action, m, Label(m.type, a)))
      BY <2>3, <2>4, <2>8, ReplacementIsSeq
    <2>10. NumberIsBlanked(text, action, m, a, b)
      BY <2>8, ReplacementIsBlanked
    <2> QED
      BY <2>6, <2>7, <2>9, <2>10 DEF NumberIsBlanked
  <1>8. ASSUME NEW j \in 1..N
        PROVE  g[j] = Slice(g[j - 1], 0, start[N + 1 - j]) \o drafted[N + 1 - j] \o Slice(g[j - 1], cur[N + 1 - j], Len(g[j - 1]))
    <2> DEFINE k == N + 1 - j
    <2>1. k \in 1..N /\ (N - j) + 1 = k /\ N + 1 - j = k
      <3> HIDE DEF N
      <3> QED
        BY <1>3
    <2> HIDE DEF k
    <2>2. back[j] = order[k]
      BY <1>5, <2>1
    <2>3. drafted[k] = DraftValue(text, pol, groups, order[k])
      BY <2>1
    <2>4. g[j] = Replaced(g[j - 1], order[k], drafted[k])
      BY <1>5, <1>6, <2>2, <2>3 DEF DraftWalk
    <2>5. start[k] = order[k].start /\ cur[k] = order[k].end
      BY <1>2, <2>1
    <2> HIDE DEF drafted
    <2>6. g[j] = Slice(g[j - 1], 0, start[k]) \o drafted[k] \o Slice(g[j - 1], cur[k], Len(g[j - 1]))
      BY <2>4, <2>5 DEF Replaced
    <2> QED
      BY <2>1, <2>6
  <1> HIDE DEF drafted, N
  <1>9. Blanked(g[N]) = Blanked(WovenText(N, seg, cur, out))
    <2>1. g[0] = seg
      BY <1>6 DEF DraftWalk
    <2>2. Drafted(N, seg, cur, start, value, drafted, g)
      BY <1>7, <1>8, <2>1 DEF Drafted
    <2> QED
      BY <1>2, <2>2, DraftIsAlike
  <1>10. DraftOf(text, pol, groups, seg, back) = g[N]
    BY <1>5, <1>6 DEF DraftWalk
  <1> QED
    BY <1>1, <1>9, <1>10 DEF written, seg, back, order

LEMMA UnnumberedIs ==
    \A text : /\ DOMAIN Unnumbered(text) = DOMAIN text /\ IsTable(Unnumbered(text), DOMAIN text)
              /\ \A cue \in DOMAIN text : Unnumbered(text)[cue] = Blanked(text[cue])
  BY DEF Unnumbered, Blanked, IsTable

LEMMA DraftsAre ==
    ASSUME NEW text, NEW pol, NEW c, NEW groups
    PROVE  /\ DOMAIN Draft(text, pol, c, groups) = DOMAIN text
           /\ \A cue \in DOMAIN text :
                Draft(text, pol, c, groups)[cue] = DraftOf(text, pol, groups, text[cue], Reverse(ForCue(c.spans, cue)))
  <1> DEFINE D(cue) == DraftOf(text, pol, groups, text[cue], Reverse(ForCue(c.spans, cue)))
  <1>1. Draft(text, pol, c, groups) = [cue \in DOMAIN text |-> D(cue)]
    BY Zenon DEF Draft, DraftOf
  <1> HIDE DEF D
  <1>2. /\ DOMAIN Draft(text, pol, c, groups) = DOMAIN text
        /\ \A cue \in DOMAIN text : Draft(text, pol, c, groups)[cue] = D(cue)
    BY <1>1
  <1> QED
    BY <1>2 DEF D

LEMMA DraftStands ==
    ASSUME NEW text, NEW reg, NEW assigned, IsAssigned(text, assigned), NEW c, c.spans = DOMAIN assigned,
           NEW pol, \A m \in DOMAIN assigned : assigned[m].action = pol[m.type], NEW groups
    PROVE  Unnumbered(Draft(text, pol, c, groups)) = Unnumbered(Final(text, reg, assigned).text)
  <1> DEFINE draft == Draft(text, pol, c, groups)
             final == Final(text, reg, assigned).text
             u == Unnumbered(draft)
             v == Unnumbered(final)
  <1>1. DOMAIN draft = DOMAIN text
    BY DraftsAre
  <1>2. DOMAIN final = DOMAIN text
    BY FinalIs
  <1>3. ASSUME NEW cue \in DOMAIN text PROVE Blanked(draft[cue]) = Blanked(final[cue])
    <2> DEFINE drafted == DraftOf(text, pol, groups, text[cue], Reverse(ForCue(DOMAIN assigned, cue)))
    <2>1. draft[cue] = drafted
      <3>1. draft[cue] = DraftOf(text, pol, groups, text[cue], Reverse(ForCue(c.spans, cue)))
        BY DraftsAre
      <3> QED
        BY <3>1
    <2>2. Blanked(drafted) = Blanked(final[cue])
      BY CueDraft
    <2> QED
      BY <2>1, <2>2
  <1> HIDE DEF draft, final
  <1>4. /\ DOMAIN u = DOMAIN text /\ IsTable(u, DOMAIN text) /\ DOMAIN v = DOMAIN text /\ IsTable(v, DOMAIN text)
        /\ \A cue \in DOMAIN text : u[cue] = Blanked(draft[cue]) /\ v[cue] = Blanked(final[cue])
    BY <1>1, <1>2, UnnumberedIs
  <1> HIDE DEF u, v
  <1>5. u = v
    BY <1>3, <1>4 DEF IsTable
  <1> QED
    BY <1>5 DEF u, v, draft, final

-----------------------------------------------------------------------------
(* The report of the text. *)

LEMMA FinalReport ==
    ASSUME NEW text, NEW reg, NEW assigned, IsAssigned(text, assigned)
    PROVE  LET final == Final(text, reg, assigned)
           IN  /\ {e.mark : e \in final.entries} = DOMAIN assigned
               /\ \A d, e \in final.entries : d.mark = e.mark => d = e
               /\ \A e \in final.entries :
                    Slice(final.text[e.mark.cue], e.from, e.to) = Standing(text, reg, assigned, e.mark)
               /\ \A cue \in DOMAIN text :
                    LET ReplacedIn == {e \in final.entries : e.mark.cue = cue}
                    IN  OutsideOf(final.text[cue], ReplacedCells(ReplacedIn)) =
                        OutsideOf(text[cue], MarkedCells(ReplacedIn))
  <1> DEFINE Of(cue) == EntriesOf(text, reg, assigned, cue)
             written == Final(text, reg, assigned).text
             entries == Final(text, reg, assigned).entries
  <1>1. entries = UNION {Of(cue) : cue \in DOMAIN text}
    BY FinalIs DEF EntriesOf
  <1>2. ASSUME NEW cue \in DOMAIN text
        PROVE  /\ \A e \in Of(cue) : /\ e.mark \in DOMAIN assigned /\ e.mark.cue = cue
                                     /\ Slice(written[cue], e.from, e.to) = Standing(text, reg, assigned, e.mark)
               /\ \A m \in DOMAIN assigned : m.cue = cue => \E e \in Of(cue) : e.mark = m
               /\ \A d, e \in Of(cue) : d.mark = e.mark => d = e
               /\ OutsideOf(written[cue], ReplacedCells(Of(cue))) = OutsideOf(text[cue], MarkedCells(Of(cue)))
    BY CueReport
  <1>3. \A m \in DOMAIN assigned : m.cue \in DOMAIN text
    BY DEF IsAssigned, IsMarked, InRange
  <1> HIDE DEF Of, written, entries
  <1>4. ASSUME NEW e \in entries PROVE e.mark.cue \in DOMAIN text /\ e \in Of(e.mark.cue)
    <2>1. PICK cue \in DOMAIN text : e \in Of(cue)
      BY <1>1
    <2> QED
      BY <1>2, <2>1
  <1>5. {e.mark : e \in entries} = DOMAIN assigned
    <2>1. \A e \in entries : e.mark \in DOMAIN assigned
      BY <1>2, <1>4
    <2>2. ASSUME NEW m \in DOMAIN assigned PROVE \E e \in entries : e.mark = m
      <3>1. PICK e \in Of(m.cue) : e.mark = m
        BY <1>2, <1>3
      <3>2. e \in entries
        BY <1>1, <1>3, <3>1
      <3> QED
        BY <3>1, <3>2
    <2> QED
      BY <2>1, <2>2
  <1>6. ASSUME NEW d \in entries, NEW e \in entries, d.mark = e.mark PROVE d = e
    <2>1. e \in Of(e.mark.cue) /\ d \in Of(e.mark.cue) /\ e.mark.cue \in DOMAIN text
      BY <1>4, <1>6
    <2> QED
      BY <1>2, <1>6, <2>1
  <1>7. \A e \in entries : Slice(written[e.mark.cue], e.from, e.to) = Standing(text, reg, assigned, e.mark)
    BY <1>2, <1>4
  <1>8. ASSUME NEW cue \in DOMAIN text
        PROVE  LET ReplacedIn == {e \in entries : e.mark.cue = cue}
               IN  OutsideOf(written[cue], ReplacedCells(ReplacedIn)) = OutsideOf(text[cue], MarkedCells(ReplacedIn))
    <2> DEFINE replaced == {e \in entries : e.mark.cue = cue}
    <2>1. \A e \in Of(cue) : e \in entries /\ e.mark.cue = cue
      BY <1>1, <1>2
    <2>2. \A e \in replaced : e \in Of(cue)
      BY <1>4
    <2>3. replaced = Of(cue)
      BY <2>1, <2>2
    <2> HIDE DEF replaced
    <2>4. OutsideOf(written[cue], ReplacedCells(replaced)) = OutsideOf(text[cue], MarkedCells(replaced))
      BY <1>2, <2>3
    <2> QED
      BY <2>4 DEF replaced
  <1> QED
    BY <1>5, <1>6, <1>7, <1>8 DEF written, entries

LEMMA AsManyEntries ==
    ASSUME NEW entries, NEW marks, IsFiniteSet(marks), {e.mark : e \in entries} = marks,
           \A d, e \in entries : d.mark = e.mark => d = e
    PROVE  Cardinality(entries) = Cardinality(marks)
  <1> DEFINE f == [m \in marks |-> CHOOSE e \in entries : e.mark = m]
  <1>1. \A m \in marks : f[m] \in entries /\ f[m].mark = m
    <2> TAKE m \in marks
    <2>1. \E e \in entries : e.mark = m
      OBVIOUS
    <2> QED
      BY <2>1
  <1>2. DOMAIN f = marks /\ f = [m \in marks |-> f[m]]
    OBVIOUS
  <1> HIDE DEF f
  <1>3. f \in [marks -> entries]
    BY <1>1, <1>2
  <1>4. ASSUME NEW e \in entries PROVE e.mark \in marks /\ f[e.mark] = e
    BY <1>1
  <1>5. \A m, n \in marks : f[m] = f[n] => m = n
    BY <1>1
  <1>6. \A e \in entries : \E m \in marks : f[m] = e
    BY <1>4
  <1>7. f \in Bijection(marks, entries)
    BY <1>3, <1>5, <1>6 DEF Bijection, Injection, Surjection, IsInjective
  <1> QED
    BY <1>7, FS_Bijection DEF ExistsBijection

LEMMA ReportHolds ==
    ASSUME CasesInv, OnDesk
    PROVE  ReportIsTrue
  <1> SUFFICES ASSUME desk.phase = "resolved"
               PROVE  LET after == Allocated(Source, register, desk.assigned)
                          final == Final(Source, after, desk.assigned)
                          marks == desk.capsule.spans
                          NumberOf(m) == after.entities[desk.assigned[m].entity].number
                          ReplacedIn(cue) == {e \in final.entries : e.mark.cue = cue}
                      IN  /\ {e.mark : e \in final.entries} = marks
                          /\ Cardinality(final.entries) = Cardinality(marks)
                          /\ \A e \in final.entries :
                               Slice(final.text[e.mark.cue], e.from, e.to) =
                                  Replacement(Source, policy[e.mark.type], e.mark, Label(e.mark.type, NumberOf(e.mark)))
                          /\ \A cue \in DOMAIN Source :
                               OutsideOf(final.text[cue], ReplacedCells(ReplacedIn(cue))) =
                               OutsideOf(Source[cue], MarkedCells(ReplacedIn(cue)))
                          /\ Unnumbered(Draft(Source, policy, desk.capsule, SetToSeq(desk.capsule.groups))) =
                             Unnumbered(final.text)
    BY DEF ReportIsTrue, ReplacedCells, MarkedCells
  <1> DEFINE text == Source
             assigned == desk.assigned
             marks == desk.capsule.spans
             groups == SetToSeq(desk.capsule.groups)
             after == Allocated(text, register, assigned)
             final == Final(text, after, assigned)
  <1>1. /\ ValidResolution(text, policy, desk.capsule, assigned, register)
        /\ IsAssigned(text, assigned) /\ DOMAIN assigned = marks
    BY ResolvedIsAssigned
  <1>2. \A m \in marks : assigned[m].action = policy[m.type]
    BY <1>1 DEF ValidResolution
  <1>3. IsFiniteSet(marks)
    BY NoDeskPhase DEF OnDesk, AreMarks
  <1> HIDE DEF text, assigned, marks, groups, after
  <1>4. /\ {e.mark : e \in final.entries} = marks
        /\ \A d, e \in final.entries : d.mark = e.mark => d = e
        /\ \A e \in final.entries :
             Slice(final.text[e.mark.cue], e.from, e.to) = Standing(text, after, assigned, e.mark)
        /\ \A cue \in DOMAIN text :
             LET ReplacedIn == {e \in final.entries : e.mark.cue = cue}
             IN  OutsideOf(final.text[cue], ReplacedCells(ReplacedIn)) =
                 OutsideOf(text[cue], MarkedCells(ReplacedIn))
    BY <1>1, FinalReport
  <1>5. Unnumbered(Draft(text, policy, desk.capsule, groups)) = Unnumbered(final.text)
    <2>1. desk.capsule.spans = DOMAIN assigned
      BY <1>1 DEF marks
    <2>2. \A m \in DOMAIN assigned : assigned[m].action = policy[m.type]
      BY <1>1, <1>2
    <2> QED
      BY <1>1, <2>1, <2>2, DraftStands
  <1> HIDE DEF final
  <1>6. Cardinality(final.entries) = Cardinality(marks)
    BY <1>3, <1>4, AsManyEntries
  <1>7. ASSUME NEW e \in final.entries
        PROVE  Slice(final.text[e.mark.cue], e.from, e.to) =
                  Replacement(text, policy[e.mark.type], e.mark,
                              Label(e.mark.type, after.entities[assigned[e.mark].entity].number))
    <2>1. e.mark \in marks
      BY <1>4
    <2> QED
      BY <1>2, <1>4, <2>1 DEF Standing
  <1> QED
    BY <1>4, <1>5, <1>6, <1>7 DEF text, assigned, marks, groups, after, final

(* stable_pseudonymisation.py render, for texts, policies and marks of any *)
(* number: the report names every mark once, at the positions of the final *)
(* text where its replacement stands; outside of them the text is that of  *)
(* the source; and the draft, written from right to left, has the same     *)
(* text but for the numbers.                                               *)
THEOREM ReportIsAlwaysTrue == Spec => []ReportIsTrue
  <1>1. SuggestionsInv /\ CasesInv => ReportIsTrue
    BY ReportHolds DEF SuggestionsInv
  <1> QED
    BY <1>1, SuggestionsInvariant, CasesInvariant, PTL
=============================================================================
