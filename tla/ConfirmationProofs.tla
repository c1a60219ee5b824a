------------------------- MODULE ConfirmationProofs -------------------------
(***************************************************************************)
(* Proofs about the confirmation of a transcript, for every number of      *)
(* processes, coders, labels, revisions and full texts, every budget and   *)
(* every point at which a writer fails or dies.                            *)
(***************************************************************************)
EXTENDS Confirmation, WellFoundedInduction, TLAPS

-----------------------------------------------------------------------------
(* The latest and the earliest of a set of positions.                      *)

LEMMA LeastExists ==
    ASSUME NEW S \in SUBSET Nat, S # {}
    PROVE  \E m \in S : \A x \in S : m <= x
  <1>1. PICK m \in S : \A x \in S : <<x, m>> \notin OpToRel(<, Nat)
    BY WFMin, NatLessThanWellFounded, Zenon
  <1>2. \A x \in S : ~(x < m)
    BY <1>1, Zenon DEF OpToRel
  <1> QED
    BY <1>2

LEMMA MinIsLeast ==
    ASSUME NEW S \in SUBSET Nat, S # {}
    PROVE  Min(S) \in S /\ \A x \in S : Min(S) <= x
  BY LeastExists DEF Min

LEMMA GreatestExists ==
    ASSUME NEW n \in Nat, NEW S \in SUBSET (1..n), S # {}
    PROVE  \E m \in S : \A x \in S : m >= x
  <1> DEFINE U == {u \in Nat : \A x \in S : x <= u}
  <1>1. n \in U
    OBVIOUS
  <1>2. PICK m \in U : \A u \in U : m <= u
    BY <1>1, LeastExists
  <1>3. m \in S
    <2>1. SUFFICES ASSUME m \notin S PROVE FALSE
      OBVIOUS
    <2>2. m \in Nat /\ \A x \in S : x \in 1..n /\ x <= m /\ x # m
      BY <1>2, <2>1
    <2>3. m - 1 \in U
      <3>1. m # 0
        <4>1. PICK x \in S : TRUE
          OBVIOUS
        <4> QED
          BY <2>2, <4>1
      <3>2. \A x \in S : x <= m - 1
        BY <2>2
      <3> QED
        BY <2>2, <3>1, <3>2
    <2> QED
      BY <1>2, <2>3
  <1> QED
    BY <1>2, <1>3

LEMMA LatestIsGreatest ==
    ASSUME NEW n \in Nat, NEW S \in SUBSET (1..n)
    PROVE  /\ Latest(S) \in Nat
           /\ \A x \in S : x <= Latest(S)
           /\ Latest(S) \in S \cup {0}
           /\ Latest(S) = 0 <=> S = {}
  <1>1. CASE S = {}
    BY <1>1, Zenon DEF Latest
  <1>2. CASE S # {}
    <2>1. Latest(S) = Max(S) /\ Max(S) \in S /\ \A x \in S : Max(S) >= x
      BY <1>2, GreatestExists DEF Latest, Max
    <2>2. Latest(S) \in 1..n
      BY <2>1
    <2> QED
      BY <1>2, <2>1, <2>2
  <1> QED
    BY <1>1, <1>2

-----------------------------------------------------------------------------
(* Types.  The budget and the reports are left out: no property proved     *)
(* here reads them.                                                        *)

Values == Coders \cup Labels \cup Revisions \cup Fulltexts \cup {None}
Kinds == {"intent", "registered", "retired", "prepared", "receipt", "revision", "fulltext",
          "attested", "marker", "anchor"} \cup Verdicts
Commands == {"none", "register", "retire", "prepare", "ingest", "fulltext", "confirm"}
Intents == [cmd : Commands, val : Values, who : Values, ref : Nat]
Event == [kind : Kinds, val : Values, who : Values, ref : Nat, by : Intents \cup {None}]
Store == Values \cup Intents \cup {MarkerObject(v) : v \in Values}
Previews == [actor : Nat, humans : {None} \cup SUBSET Nat, revision : Nat,
             confirmation : Nat \X Nat]
OpType == [cmd : Commands, intent : Intents, objs : SUBSET Store, effects : Seq(Event),
           current : BOOLEAN, renew : BOOLEAN, seen : Previews \cup {None},
           next : Nat, last : Nat, wrote : BOOLEAN]
Controls == {"idle", "planned"} \cup Working

(* What an operation writes and stores is a function of its intent. *)
PlannedEffects(i) ==
    CASE i.cmd = "none" -> << >>
      [] i.cmd = "register" -> <<Effect("registered", i.val, i.who, i.ref)>>
      [] i.cmd = "retire" -> <<Effect("retired", None, i.who, i.ref)>>
      [] i.cmd = "prepare" -> <<Effect("prepared", i.val, i.who, 0)>>
      [] i.cmd = "ingest" -> <<Effect("receipt", i.val, None, 0), Effect("revision", i.val, None, 0)>>
      [] i.cmd = "fulltext" -> <<Effect("fulltext", i.who, None, 0), Effect("attested", i.val, i.who, 0)>>
      [] i.cmd = "confirm" -> <<Effect("marker", i.val, None, 0), Effect("accept", i.val, i.who, i.ref)>>

PlannedObjects(i) ==
    CASE i.cmd \in {"prepare", "ingest"} -> {i.val}
      [] i.cmd = "fulltext" -> {i.who}
      [] i.cmd = "confirm" -> {MarkerObject(i.val)}
      [] OTHER -> {}

WellPlanned(o) ==
    /\ o.cmd = o.intent.cmd
    /\ o.effects = PlannedEffects(o.intent)
    /\ o.objs = PlannedObjects(o.intent)
    /\ o.current <=> o.cmd \in {"prepare", "ingest"}
    /\ o.renew => o.cmd = "ingest"

TypeInv ==
    /\ journal \in Seq(Event)
    /\ wlock \in Processes \cup {None}
    /\ pc \in [Processes -> Controls]
    /\ op \in [Processes -> OpType]
    /\ activations \in Nat
    /\ \A p \in Processes : WellPlanned(op[p])

LEMMA EffectType ==
    ASSUME NEW k \in Kinds, NEW v \in Values, NEW w \in Values, NEW n \in Nat
    PROVE  Effect(k, v, w, n) \in Event
  BY DEF Effect, Event

LEMMA PlannedTypes ==
    ASSUME NEW i \in Intents
    PROVE  /\ PlannedEffects(i) \in Seq(Event)
           /\ PlannedObjects(i) \in SUBSET Store
  <1>1. /\ i.cmd \in Commands /\ i.val \in Values /\ i.who \in Values /\ i.ref \in Nat
        /\ None \in Values /\ 0 \in Nat
    BY DEF Intents, Values
  <1>2. \A k \in Kinds : Effect(k, i.val, i.who, 0) \in Event /\ Effect(k, i.val, None, 0) \in Event
            /\ Effect(k, i.who, None, 0) \in Event /\ Effect(k, None, i.who, i.ref) \in Event
            /\ Effect(k, i.val, i.who, i.ref) \in Event
    BY <1>1, EffectType
  <1>3. PlannedEffects(i) \in Seq(Event)
    BY <1>1, <1>2 DEF PlannedEffects, Commands, Kinds, Verdicts
  <1>4. PlannedObjects(i) \in SUBSET Store
    BY <1>1 DEF PlannedObjects, Store
  <1> QED
    BY <1>3, <1>4

(* Values and positions that are looked up in the journal. *)
LEMMA LookupTypes ==
    ASSUME journal \in Seq(Event), NEW K
    PROVE  /\ Len(journal) \in Nat
           /\ \A i \in Positions : journal[i] \in Event
           /\ Of(K) \in SUBSET Positions
           /\ Of(K) \in SUBSET Nat
           /\ LatestOf(K) \in Nat
           /\ LatestOf(K) \in Of(K) \cup {0}
           /\ \A i \in Of(K) : i <= LatestOf(K)
           /\ LatestOf(K) = 0 <=> Of(K) = {}
           /\ ValueAt(LatestOf(K)) \in Values
  <1>1. Len(journal) \in Nat /\ \A i \in Positions : journal[i] \in Event
    BY DEF Positions
  <1>2. Of(K) \in SUBSET Positions /\ Of(K) \in SUBSET Nat
    BY <1>1 DEF Of, Positions
  <1>3. /\ LatestOf(K) \in Nat
        /\ LatestOf(K) \in Of(K) \cup {0}
        /\ \A i \in Of(K) : i <= LatestOf(K)
        /\ LatestOf(K) = 0 <=> Of(K) = {}
    BY <1>1, <1>2, LatestIsGreatest DEF LatestOf, Positions
  <1>4. ValueAt(LatestOf(K)) \in Values
    <2>1. CASE LatestOf(K) = 0
      BY <2>1 DEF ValueAt, Values
    <2>2. CASE LatestOf(K) # 0
      <3>1. journal[LatestOf(K)] \in Event
        BY <1>1, <1>2, <1>3, <2>2
      <3> QED
        BY <2>2, <3>1 DEF ValueAt, Event
    <2> QED
      BY <2>1, <2>2
  <1> QED
    BY <1>1, <1>2, <1>3, <1>4

-----------------------------------------------------------------------------
(* The steps of the specification, sorted by what they do to the journal,  *)
(* the lock and the plans.                                                 *)

(* What is to be confirmed is the revision event the preview has named. *)
SeesItsRevision(o) ==
    /\ o.seen.revision \in Of({"revision"})
    /\ journal[o.seen.revision].val = o.intent.val

Plans(p) ==
    \E item \in Items, o \in OpType :
        /\ Plan(p, item, o)
        /\ WellPlanned(o)
        /\ o.cmd # "none" /\ o.next = 1
        /\ o.cmd = "retire" => Active(o.intent.who)
        /\ o.cmd = "fulltext" => \E i \in Of({"revision"}) : journal[i].val = o.intent.val
        /\ o.cmd = "confirm" => SeesItsRevision(o)
        /\ activations' = IF o.cmd = "confirm" THEN activations + 1 ELSE activations
        /\ o.cmd = "confirm" => o.intent.ref = activations'

Checks(p) ==
    /\ pc[p] = "planned" /\ op[p].cmd # "none"
    /\ \E l \in {"idle", "enter"} : pc' = [pc EXCEPT ![p] = l]
    /\ \/ UNCHANGED op
       \/ op[p].cmd = "ingest" /\ \E b \in BOOLEAN : op' = [op EXCEPT ![p].renew = b]
    /\ UNCHANGED <<journal, objects, wlock, activations>>

Enters(p) ==
    /\ \E r : Enter(p, r) /\ (op[p].cmd = "confirm" => r = Refusal(op[p]))
    /\ op[p].cmd # "none"
    /\ UNCHANGED activations

Leaves(p) ==
    /\ \E then \in {"idle", "anchor"} : \E r : Leave(p, then, r)
    /\ UNCHANGED activations

Acts(p) ==
    /\ wlock = None
    /\ \E h \in Coders, verdict \in {"withdraw", "undo"}, n \in Nat :
          /\ journal' = Append(journal, Effect(verdict, Marker, h, n))
          /\ verdict = "undo" => n = Withdrawal
    /\ UNCHANGED <<objects, wlock, pc, op, activations>>

Stops(p) ==
    /\ \E l \in {"idle", "planned"} : pc' = [pc EXCEPT ![p] = l]
    /\ op' \in {op, [op EXCEPT ![p] = NoOperation]}
    /\ \/ wlock' = IF wlock = p THEN None ELSE wlock
       \/ pc[p] = "planned" /\ UNCHANGED wlock
    /\ UNCHANGED <<journal, objects, activations>>

Moves(p) ==
    \/ Plans(p) \/ Checks(p) \/ Enters(p) \/ Leaves(p) \/ Anchor(p) \/ Acts(p) \/ Stops(p)
    \/ Execute(p) /\ UNCHANGED activations

Planned(i) ==
    Operation(i.cmd, i.val, i.who, i.ref, PlannedObjects(i), PlannedEffects(i))

LEMMA PlannedType ==
    ASSUME NEW i \in Intents
    PROVE  /\ Planned(i) \in OpType
           /\ Planned(i).cmd = i.cmd /\ Planned(i).next = 1 /\ Planned(i).intent = i
           /\ i.cmd \notin {"prepare", "ingest"} => WellPlanned(Planned(i))
           /\ i.cmd \in {"prepare", "ingest"} => WellPlanned([Planned(i) EXCEPT !.current = TRUE])
  <1>1. /\ i = [cmd |-> i.cmd, val |-> i.val, who |-> i.who, ref |-> i.ref]
        /\ i.cmd \in Commands
    BY DEF Intents
  <1>2. Planned(i) = [cmd |-> i.cmd, intent |-> i, objs |-> PlannedObjects(i),
                      effects |-> PlannedEffects(i), current |-> FALSE, renew |-> FALSE,
                      seen |-> None, next |-> 1, last |-> 0, wrote |-> FALSE]
    BY <1>1 DEF Planned, Operation
  <1>3. Planned(i) \in OpType
    BY <1>1, <1>2, PlannedTypes DEF OpType
  <1>4. i.cmd \notin {"prepare", "ingest"} => WellPlanned(Planned(i))
    BY <1>2 DEF WellPlanned
  <1>5. i.cmd \in {"prepare", "ingest"} => WellPlanned([Planned(i) EXCEPT !.current = TRUE])
    BY <1>2 DEF WellPlanned
  <1> QED
    BY <1>2, <1>3, <1>4, <1>5

LEMMA PreviewType ==
    ASSUME journal \in Seq(Event), NEW h \in Coders, NEW a \in BOOLEAN, Active(h)
    PROVE  Seen(h, a) \in Previews
  <1>1. Of({"registered"}) \in SUBSET Nat /\ HumanEvents \in SUBSET Nat
    BY LookupTypes DEF HumanEvents
  <1>2. Registrations(h) \in SUBSET Nat /\ Registrations(h) # {}
    BY <1>1 DEF Registrations, Active, Known
  <1>3. StateOf(h) \in Nat
    BY <1>2, MinIsLeast DEF StateOf
  <1>4. LatestOf({"revision"}) \in Nat /\ LatestOf({"marker"}) \in Nat /\ LatestOf(Verdicts) \in Nat
    BY LookupTypes
  <1> QED
    BY <1>1, <1>3, <1>4 DEF Seen, Previews

LEMMA PlanMoves ==
    ASSUME TypeInv, NEW p \in Processes,
           \/ (PlanRegister(p) \/ PlanRetire(p)) /\ UNCHANGED activations
           \/ PlanPrepare(p) \/ PlanIngest(p) \/ PlanFulltext(p) \/ PlanConfirm(p)
    PROVE  Plans(p)
  <1>1. /\ {"registry", "prepare", "ingest", "fulltext", "confirm"} \subseteq Items
        /\ Commands \ {"none"} = {"register", "retire", "prepare", "ingest", "fulltext", "confirm"}
        /\ 0 \in Nat
    BY DEF Items, Commands
  <1>2. /\ None \in Values
        /\ \A v \in Coders \cup Labels \cup Revisions \cup Fulltexts : v \in Values
        /\ journal \in Seq(Event) /\ activations \in Nat /\ activations + 1 \in Nat
    BY DEF Values, TypeInv
  <1>3. CASE PlanRegister(p) /\ UNCHANGED activations
    <2>1. PICK c \in Coders, l \in Labels, r \in References :
              Plan(p, "registry", Operation("register", l, c, r, {}, <<Effect("registered", l, c, r)>>))
      BY <1>3 DEF PlanRegister
    <2> DEFINE i == [cmd |-> "register", val |-> l, who |-> c, ref |-> r]
    <2>2. i \in Intents /\ i.cmd = "register"
      BY <1>1, <1>2, RegistryAssumption DEF Intents
    <2>3. Planned(i) = Operation("register", l, c, r, {}, <<Effect("registered", l, c, r)>>)
      BY DEF Planned, PlannedObjects, PlannedEffects
    <2>4. Plan(p, "registry", Planned(i))
      BY <2>1, <2>3
    <2> HIDE DEF i
    <2> QED
      BY <1>1, <1>3, <2>2, <2>4, PlannedType DEF Plans
  <1>4. CASE PlanRetire(p) /\ UNCHANGED activations
    <2>1. PICK c \in Coders, r \in References :
              /\ Active(c)
              /\ Plan(p, "registry", Operation("retire", None, c, r, {}, <<Effect("retired", None, c, r)>>))
      BY <1>4 DEF PlanRetire
    <2> DEFINE i == [cmd |-> "retire", val |-> None, who |-> c, ref |-> r]
    <2>2. i \in Intents /\ i.cmd = "retire" /\ i.who = c
      BY <1>1, <1>2, RegistryAssumption DEF Intents
    <2>3. Planned(i) = Operation("retire", None, c, r, {}, <<Effect("retired", None, c, r)>>)
      BY DEF Planned, PlannedObjects, PlannedEffects
    <2>4. Plan(p, "registry", Planned(i))
      BY <2>1, <2>3
    <2> HIDE DEF i
    <2> QED
      BY <1>1, <1>4, <2>1, <2>2, <2>4, PlannedType DEF Plans
  <1>5. CASE PlanPrepare(p)
    <2>1. PICK r \in Revisions, h \in Coders :
              Plan(p, "prepare", [Operation("prepare", r, h, 0, {r}, <<Effect("prepared", r, h, 0)>>)
                                     EXCEPT !.current = TRUE])
      BY <1>5 DEF PlanPrepare
    <2> DEFINE i == [cmd |-> "prepare", val |-> r, who |-> h, ref |-> 0]
    <2>2. i \in Intents /\ i.cmd = "prepare"
      BY <1>1, <1>2 DEF Intents
    <2>3. Planned(i) = Operation("prepare", r, h, 0, {r}, <<Effect("prepared", r, h, 0)>>)
      BY DEF Planned, PlannedObjects, PlannedEffects
    <2> DEFINE o == [Planned(i) EXCEPT !.current = TRUE]
    <2>4. Plan(p, "prepare", o) /\ activations' = activations
      BY <1>5, <2>1, <2>3 DEF PlanPrepare
    <2> HIDE DEF i
    <2>5. Planned(i) \in OpType /\ Planned(i).cmd = "prepare" /\ Planned(i).next = 1 /\ WellPlanned(o)
      BY <2>2, PlannedType
    <2>6. o \in OpType /\ o.cmd = "prepare" /\ o.next = 1 /\ WellPlanned(o)
      BY <2>5 DEF OpType
    <2> HIDE DEF o
    <2> QED
      BY <1>1, <2>4, <2>6 DEF Plans
  <1>6. CASE PlanIngest(p)
    <2> DEFINE n(r) == Latest({j \in Of({"prepared"}) : journal[j].val = r})
    <2>1. PICK r \in Revisions :
              Plan(p, "ingest", [Operation("ingest", r, None, n(r), {r},
                        <<Effect("receipt", r, None, 0), Effect("revision", r, None, 0)>>)
                      EXCEPT !.current = TRUE])
      BY <1>6 DEF PlanIngest
    <2>2. n(r) \in Nat
      BY <1>2, LookupTypes, LatestIsGreatest DEF Positions
    <2> HIDE DEF n
    <2> DEFINE i == [cmd |-> "ingest", val |-> r, who |-> None, ref |-> n(r)]
    <2>3. i \in Intents /\ i.cmd = "ingest"
      BY <1>1, <1>2, <2>2 DEF Intents
    <2>4. Planned(i) = Operation("ingest", r, None, n(r), {r},
                        <<Effect("receipt", r, None, 0), Effect("revision", r, None, 0)>>)
      BY DEF Planned, PlannedObjects, PlannedEffects
    <2> DEFINE o == [Planned(i) EXCEPT !.current = TRUE]
    <2>5. Plan(p, "ingest", o) /\ activations' = activations
      BY <1>6, <2>1, <2>4 DEF PlanIngest
    <2> HIDE DEF i
    <2>6. Planned(i) \in OpType /\ Planned(i).cmd = "ingest" /\ Planned(i).next = 1 /\ WellPlanned(o)
      BY <2>3, PlannedType
    <2>7. o \in OpType /\ o.cmd = "ingest" /\ o.next = 1 /\ WellPlanned(o)
      BY <2>6 DEF OpType
    <2> HIDE DEF o
    <2> QED
      BY <1>1, <2>5, <2>7 DEF Plans
  <1>7. CASE PlanFulltext(p)
    <2>1. PICK f \in Fulltexts :
              /\ Revision # None
              /\ Plan(p, "fulltext", Operation("fulltext", Revision, f, 0, {f},
                    <<Effect("fulltext", f, None, 0), Effect("attested", Revision, f, 0)>>))
              /\ UNCHANGED activations
      BY <1>7 DEF PlanFulltext
    <2>2. Revision \in Values
      BY <1>2, LookupTypes DEF Revision
    <2>3. \E j \in Of({"revision"}) : journal[j].val = Revision
      BY <1>2, <2>1, LookupTypes DEF Revision, ValueAt
    <2> DEFINE i == [cmd |-> "fulltext", val |-> Revision, who |-> f, ref |-> 0]
    <2>4. i \in Intents /\ i.cmd = "fulltext" /\ i.val = Revision
      BY <1>1, <1>2, <2>2 DEF Intents
    <2>5. Planned(i) = Operation("fulltext", Revision, f, 0, {f},
                    <<Effect("fulltext", f, None, 0), Effect("attested", Revision, f, 0)>>)
      BY DEF Planned, PlannedObjects, PlannedEffects
    <2>6. Plan(p, "fulltext", Planned(i)) /\ activations' = activations
      BY <2>1, <2>5
    <2> DEFINE o == Planned(i)
    <2>7. /\ o \in OpType /\ o.cmd = "fulltext" /\ o.next = 1 /\ WellPlanned(o)
          /\ o.intent.val = Revision
      BY <2>4, PlannedType
    <2>8. Plan(p, "fulltext", o)
      BY <2>6
    <2>9. \E j \in Of({"revision"}) : journal[j].val = o.intent.val
      BY <2>3, <2>7
    <2> HIDE DEF i, o
    <2> QED
      BY <1>1, <2>6, <2>7, <2>8, <2>9 DEF Plans
  <1>8. CASE PlanConfirm(p)
    <2> DEFINE n == activations'
    <2>1. PICK h \in Coders, a \in BOOLEAN :
              /\ Active(h)
              /\ Revision # None
              /\ n = activations + 1
              /\ Plan(p, "confirm", [Operation("confirm", Revision, h, n, {MarkerObject(Revision)},
                        <<Effect("marker", Revision, None, 0), Effect("accept", Revision, h, n)>>)
                      EXCEPT !.seen = Seen(h, a)])
      BY <1>8 DEF PlanConfirm
    <2>2. Revision \in Values /\ n \in Nat
      BY <1>2, <2>1, LookupTypes DEF Revision
    <2> DEFINE i == [cmd |-> "confirm", val |-> Revision, who |-> h, ref |-> n]
    <2>3. i \in Intents /\ i.cmd = "confirm" /\ i.ref = n
      BY <1>1, <1>2, <2>2 DEF Intents
    <2>4. Planned(i) = Operation("confirm", Revision, h, n, {MarkerObject(Revision)},
                        <<Effect("marker", Revision, None, 0), Effect("accept", Revision, h, n)>>)
      BY DEF Planned, PlannedObjects, PlannedEffects
    <2> DEFINE o == [Planned(i) EXCEPT !.seen = Seen(h, a)]
    <2>5. Plan(p, "confirm", o)
      BY <2>1, <2>4
    <2>6. Seen(h, a) \in Previews
      BY <1>2, <2>1, PreviewType
    <2> HIDE DEF i
    <2>7. Planned(i) \in OpType /\ WellPlanned(Planned(i)) /\ Planned(i).intent = i
      BY <2>3, PlannedType
    <2>8. /\ o \in OpType /\ o.cmd = Planned(i).cmd /\ o.next = Planned(i).next
          /\ o.intent = Planned(i).intent /\ o.objs = Planned(i).objs
          /\ o.effects = Planned(i).effects
          /\ o.current = Planned(i).current /\ o.renew = Planned(i).renew
          /\ o.seen = Seen(h, a)
      BY <2>6, <2>7 DEF OpType
    <2>10. i.val = Revision
      BY DEF i
    <2> HIDE DEF o
    <2>11. SeesItsRevision(o)
      <3>1. o.seen.revision = LatestOf({"revision"}) /\ o.intent.val = Revision
        BY <2>7, <2>8, <2>10 DEF Seen
      <3> QED
        BY <1>2, <2>1, <3>1, LookupTypes DEF SeesItsRevision, Revision, ValueAt
    <2>9. o.cmd = "confirm" /\ o.next = 1 /\ o.intent.ref = n /\ WellPlanned(o)
      BY <2>3, <2>7, <2>8, PlannedType DEF WellPlanned
    <2> QED
      BY <1>1, <2>1, <2>5, <2>8, <2>9, <2>11 DEF Plans
  <1> QED
    BY <1>3, <1>4, <1>5, <1>6, <1>7, <1>8

LEMMA WithdrawalType ==
    ASSUME journal \in Seq(Event), NEW n
    PROVE  WithdrawalAt(n) \in Nat
  <1>1. {i \in Of({"withdraw"}) : i <= n} \in SUBSET (1..Len(journal)) /\ Len(journal) \in Nat
    BY LookupTypes DEF Positions
  <1> QED
    BY <1>1, LatestIsGreatest DEF WithdrawalAt

LEMMA ActMoves ==
    ASSUME TypeInv, NEW p \in Processes, Withdraw(p) \/ Undo(p)
    PROVE  Acts(p)
  <1>1. Withdrawal \in Nat /\ 0 \in Nat
    BY WithdrawalType DEF Withdrawal, TypeInv
  <1>2. CASE Withdraw(p)
    <2>1. PICK h \in Coders : journal' = Append(journal, Effect("withdraw", Marker, h, 0))
      BY <1>2 DEF Withdraw, Act
    <2>2. wlock = None /\ UNCHANGED <<objects, wlock, pc, op, activations>>
      BY <1>2 DEF Withdraw, Act
    <2> QED
      BY <1>1, <2>1, <2>2 DEF Acts
  <1>3. CASE Undo(p)
    <2>1. PICK h \in Coders : journal' = Append(journal, Effect("undo", Marker, h, Withdrawal))
      BY <1>3 DEF Undo, Act
    <2>2. wlock = None /\ UNCHANGED <<objects, wlock, pc, op, activations>>
      BY <1>3 DEF Undo, Act
    <2> QED
      BY <1>1, <2>1, <2>2 DEF Acts
  <1> QED
    BY <1>2, <1>3

LEMMA CheckMoves ==
    ASSUME TypeInv, NEW p \in Processes, Answer(p)
    PROVE  Checks(p)
  <1> USE DEF End, Goto, Checks
  <1>1. CASE CheckPrepare(p)
    BY <1>1 DEF CheckPrepare
  <1>2. CASE CheckIngest(p)
    <2> DEFINE renew == Revision # None /\ ~RevisionFresh
    <2>1. /\ pc[p] = "planned" /\ op[p].cmd = "ingest"
          /\ UNCHANGED <<journal, objects, wlock, activations>>
          /\ \E l \in {"idle", "enter"} : pc' = [pc EXCEPT ![p] = l]
          /\ op' = op \/ op' = [op EXCEPT ![p].renew = renew]
      BY <1>2 DEF CheckIngest
    <2>2. renew \in BOOLEAN
      OBVIOUS
    <2> HIDE DEF renew
    <2>3. UNCHANGED op \/ \E b \in BOOLEAN : op' = [op EXCEPT ![p].renew = b]
      BY <2>1, <2>2
    <2> QED
      BY <2>1, <2>3
  <1>3. CASE CheckFulltext(p)
    BY <1>3 DEF CheckFulltext
  <1>4. CASE AnswerConfirm(p)
    BY <1>4 DEF AnswerConfirm
  <1>5. CASE CheckRegistry(p) /\ UNCHANGED activations
    BY <1>5 DEF CheckRegistry
  <1> QED
    BY <1>1, <1>2, <1>3, <1>4, <1>5 DEF Answer

LEMMA WorkMoves ==
    ASSUME NEW p \in Processes, Work(p)
    PROVE  Moves(p)
  <1>1. CASE EnterConfirm(p)
    BY <1>1 DEF EnterConfirm, Enters, Moves
  <1>2. CASE EnterPrepare(p) \/ EnterIngest(p) \/ EnterFulltext(p)
    BY <1>2 DEF EnterPrepare, EnterIngest, EnterFulltext, EnterAs, Enters, Moves
  <1>3. CASE EnterRegistry(p) /\ UNCHANGED activations
    BY <1>3 DEF EnterRegistry, Enters, Moves
  <1>4. CASE LeaveTranscript(p) \/ LeaveConfirm(p)
    BY <1>4 DEF LeaveTranscript, LeaveConfirm, Leaves, Moves
  <1>5. CASE LeaveRegistry(p) /\ UNCHANGED activations
    BY <1>5 DEF LeaveRegistry, Leaves, Moves
  <1>6. CASE Anchor(p) \/ (Execute(p) /\ UNCHANGED activations)
    BY <1>6 DEF Moves
  <1> QED
    BY <1>1, <1>2, <1>3, <1>4, <1>5, <1>6 DEF Work

LEMMA StopMoves ==
    ASSUME NEW p \in Processes, (Abort(p) \/ Kill(p) \/ Raise(p)) /\ UNCHANGED activations
    PROVE  Stops(p)
  <1> USE DEF End, Goto, Stops
  <1>1. CASE Abort(p)
    BY <1>1 DEF Abort
  <1>2. CASE Kill(p)
    BY <1>2 DEF Kill
  <1>3. CASE Raise(p)
    BY <1>3 DEF Raise, Working
  <1> QED
    BY <1>1, <1>2, <1>3

LEMMA NextMoves ==
    ASSUME TypeInv, ConfirmationNext
    PROVE  \E p \in Processes : Moves(p)
  <1>1. PICK p \in Processes :
        \/ (PlanRegister(p) \/ PlanRetire(p)) /\ UNCHANGED activations
        \/ PlanPrepare(p) \/ PlanIngest(p) \/ PlanFulltext(p) \/ PlanConfirm(p)
        \/ Answer(p) \/ Work(p)
        \/ Withdraw(p) \/ Undo(p)
        \/ (Abort(p) \/ Kill(p) \/ Raise(p)) /\ UNCHANGED activations
    BY DEF ConfirmationNext
  <1>2. CASE \/ (PlanRegister(p) \/ PlanRetire(p)) /\ UNCHANGED activations
             \/ PlanPrepare(p) \/ PlanIngest(p) \/ PlanFulltext(p) \/ PlanConfirm(p)
    BY <1>2, PlanMoves DEF Moves
  <1>3. CASE Answer(p)
    BY <1>3, CheckMoves DEF Moves
  <1>4. CASE Work(p)
    BY <1>4, WorkMoves
  <1>5. CASE Withdraw(p) \/ Undo(p)
    BY <1>5, ActMoves DEF Moves
  <1>6. CASE (Abort(p) \/ Kill(p) \/ Raise(p)) /\ UNCHANGED activations
    BY <1>6, StopMoves DEF Moves
  <1> QED
    BY <1>1, <1>2, <1>3, <1>4, <1>5, <1>6

-----------------------------------------------------------------------------
(* Control: whoever is inside the writer holds the workspace lock, and     *)
(* counts through the effects of its plan.                                 *)

Inside == {"objects", "intent", "latest", "effect", "verify"}

ControlInv ==
    \A p \in Processes :
        /\ pc[p] \in Working => op[p].cmd # "none"
        /\ pc[p] \in {"objects", "intent"} => op[p].next = 1
        /\ pc[p] \in {"latest", "effect"} => op[p].next \in 1..Len(op[p].effects)
        /\ pc[p] \in Inside => wlock = p

BaseInv == TypeInv /\ ControlInv

LEMMA PlannedLengths ==
    ASSUME NEW o \in OpType, WellPlanned(o), o.cmd # "none"
    PROVE  /\ Len(o.effects) \in {1, 2}
           /\ \A n \in 1..Len(o.effects) :
                 /\ o.effects[n] \in Event
                 /\ o.effects[n].by = None /\ o.effects[n].kind # "intent"
  <1>1. o.intent \in Intents /\ o.intent.cmd \in Commands \ {"none"} /\ o.effects = PlannedEffects(o.intent)
    BY DEF WellPlanned, OpType, Intents
  <1> DEFINE Fine(e) == e.by = None /\ e.kind # "intent"
  <1>2. \A k, v, w, n : k # "intent" => Fine(Effect(k, v, w, n))
    BY DEF Effect
  <1>3. \/ \E e : Fine(e) /\ o.effects = <<e>>
        \/ \E e, f : Fine(e) /\ Fine(f) /\ o.effects = <<e, f>>
    <2> HIDE DEF Fine
    <2>1. CASE o.intent.cmd \in {"register", "retire", "prepare"}
      BY <1>1, <1>2, <2>1 DEF PlannedEffects, Kinds
    <2>2. CASE o.intent.cmd \in {"ingest", "fulltext", "confirm"}
      BY <1>1, <1>2, <2>2 DEF PlannedEffects, Kinds, Verdicts
    <2> QED
      BY <1>1, <2>1, <2>2 DEF Commands
  <1>4. o.effects \in Seq(Event)
    BY DEF OpType
  <1>5. CASE \E e : Fine(e) /\ o.effects = <<e>>
    BY <1>4, <1>5
  <1>6. CASE \E e, f : Fine(e) /\ Fine(f) /\ o.effects = <<e, f>>
    BY <1>4, <1>6
  <1> QED
    BY <1>3, <1>5, <1>6

(* No other process is moved. *)
LEMMA OthersStay ==
    ASSUME BaseInv, NEW p \in Processes, Moves(p), NEW q \in Processes, q # p
    PROVE  pc'[q] = pc[q] /\ op'[q] = op[q]
  <1> USE DEF End, Goto, BaseInv, TypeInv
  <1>1. CASE Plans(p) \/ Checks(p) \/ Enters(p)
    BY <1>1 DEF Plans, Plan, Checks, Enters, Enter
  <1>2. CASE Leaves(p) \/ Anchor(p) \/ Acts(p) \/ Stops(p)
    BY <1>2 DEF Leaves, Leave, Anchor, Acts, Stops
  <1>3. CASE Execute(p)
    BY <1>3 DEF Execute, PutObjects, RecordIntent, ReadLatest, AppendEffect
  <1> QED
    BY <1>1, <1>2, <1>3 DEF Moves

(* What the writer changes of an operation does not touch its plan. *)
SamePlan(o, x) ==
    /\ x.cmd = o.cmd /\ x.intent = o.intent /\ x.effects = o.effects /\ x.objs = o.objs
    /\ x.current = o.current /\ x.seen = o.seen

Counted(o, x) ==
    \/ \E n \in Nat, w \in BOOLEAN : x = [o EXCEPT !.next = n, !.wrote = w]
    \/ \E w \in BOOLEAN : x = [o EXCEPT !.wrote = w]
    \/ \E l \in Nat : x = [o EXCEPT !.last = l]

LEMMA CountersOnly ==
    ASSUME NEW o \in OpType, WellPlanned(o), NEW x, Counted(o, x)
    PROVE  x \in OpType /\ WellPlanned(x) /\ SamePlan(o, x)
  <1>1. x \in OpType /\ SamePlan(o, x) /\ x.renew = o.renew
    <2>1. CASE \E n \in Nat, w \in BOOLEAN : x = [o EXCEPT !.next = n, !.wrote = w]
      BY <2>1 DEF OpType, SamePlan
    <2>2. CASE \E w \in BOOLEAN : x = [o EXCEPT !.wrote = w]
      BY <2>2 DEF OpType, SamePlan
    <2>3. CASE \E l \in Nat : x = [o EXCEPT !.last = l]
      BY <2>3 DEF OpType, SamePlan
    <2> QED
      BY <2>1, <2>2, <2>3 DEF Counted
  <1> QED
    BY <1>1 DEF SamePlan, WellPlanned

(* A plan keeps its intent, and with it all it will write, until another   *)
(* plan takes its place.                                                   *)
LEMMA PlansStay ==
    ASSUME BaseInv, NEW p \in Processes, Moves(p), NEW q \in Processes
    PROVE  /\ op'[q] \in OpType
           /\ WellPlanned(op'[q])
           /\ \/ Plans(p) /\ q = p
              \/ Stops(p) /\ op'[q] = NoOperation
              \/ SamePlan(op[q], op'[q])
  <1>1. op[q] \in OpType /\ WellPlanned(op[q]) /\ op \in [Processes -> OpType]
    BY DEF BaseInv, TypeInv
  <1>2. CASE Plans(p) /\ q = p
    BY <1>1, <1>2 DEF Plans, Plan
  <1>3. CASE Stops(p) /\ op' = [op EXCEPT ![p] = NoOperation] /\ q = p
    <2>1. op'[q] = NoOperation
      BY <1>1, <1>3
    <2>2. NoOperation \in OpType /\ WellPlanned(NoOperation)
      BY DEF NoOperation, Operation, OpType, WellPlanned, PlannedEffects, PlannedObjects,
             Commands, Intents, Values
    <2> QED
      BY <1>3, <2>1, <2>2
  <1>4. CASE op'[q] = op[q]
    BY <1>1, <1>4 DEF SamePlan
  <1>5. CASE Checks(p) /\ q = p /\ op[p].cmd = "ingest" /\ \E b \in BOOLEAN : op' = [op EXCEPT ![p].renew = b]
    <2>1. PICK b \in BOOLEAN : op' = [op EXCEPT ![p].renew = b]
      BY <1>5
    <2>2. op'[q] = [op[q] EXCEPT !.renew = b]
      BY <1>1, <1>5, <2>1
    <2> QED
      BY <1>1, <1>5, <2>2 DEF OpType, WellPlanned, SamePlan
  <1>6. Counted(op[q], op'[q])
               => op'[q] \in OpType /\ WellPlanned(op'[q]) /\ SamePlan(op[q], op'[q])
    BY <1>1, CountersOnly
  <1>7. /\ op[q].next \in Nat /\ op[q].next + 1 \in Nat /\ op[q].wrote \in BOOLEAN
        /\ \A S \in SUBSET Positions : Latest(S) \in Nat
        /\ 0 \in Nat /\ 1 \in Nat
    <2>1. op[q].next \in Nat /\ op[q].wrote \in BOOLEAN
      BY <1>1 DEF OpType
    <2>2. Len(journal) \in Nat
      BY DEF BaseInv, TypeInv
    <2>3. \A S \in SUBSET Positions : Latest(S) \in Nat
      BY <2>2, LatestIsGreatest DEF Positions
    <2> QED
      BY <2>1, <2>3
  <1>8. CASE q = p /\ Enters(p)
    <2>1. op'[q] = [op[q] EXCEPT !.next = 1, !.wrote = FALSE]
      BY <1>1, <1>8 DEF Enters, Enter
    <2>2. Counted(op[q], op'[q])
      BY <1>7, <2>1 DEF Counted
    <2> QED
      BY <1>6, <2>2
  <1>9. CASE q = p /\ Execute(p)
    <2>1. CASE PutObjects(p)
      BY <1>4, <2>1 DEF PutObjects
    <2>2. CASE RecordIntent(p)
      <3>1. \E w \in BOOLEAN : op'[q] = [op[q] EXCEPT !.wrote = w]
        BY <1>1, <1>9, <2>2 DEF RecordIntent
      <3>2. Counted(op[q], op'[q])
        BY <1>7, <3>1 DEF Counted
      <3> QED
        BY <1>6, <3>2
    <2>3. CASE ReadLatest(p)
      <3>1. \E l \in Nat : op'[q] = [op[q] EXCEPT !.last = l]
        BY <1>1, <1>7, <1>9, <2>3 DEF ReadLatest
      <3>2. Counted(op[q], op'[q])
        BY <1>7, <3>1 DEF Counted
      <3> QED
        BY <1>6, <3>2
    <2>4. CASE AppendEffect(p)
      <3>1. \E w \in BOOLEAN : op'[q] = [op[q] EXCEPT !.next = op[q].next + 1, !.wrote = w]
        <4> DEFINE w == op[q].wrote \/ ~DuplicateEffect(op[q])
        <4>1. op' = [op EXCEPT ![p].next = op[q].next + 1, ![p].wrote = w] /\ w \in BOOLEAN
          BY <1>9, <2>4 DEF AppendEffect
        <4> HIDE DEF w
        <4> QED
          BY <1>1, <1>9, <4>1
      <3>2. Counted(op[q], op'[q])
        BY <1>7, <3>1 DEF Counted
      <3> QED
        BY <1>6, <3>2
    <2> QED
      BY <1>9, <2>1, <2>2, <2>3, <2>4 DEF Execute
  <1>10. CASE q # p \/ Leaves(p) \/ Anchor(p) \/ Acts(p)
    BY <1>4, <1>10, OthersStay DEF Leaves, Leave, Anchor, Acts
  <1>11. CASE q = p /\ (Stops(p) \/ Checks(p))
    BY <1>3, <1>4, <1>5, <1>11 DEF Stops, Checks
  <1> QED
    BY <1>2, <1>8, <1>9, <1>10, <1>11 DEF Moves

(* What a step may add to the journal: at most one event, which is the     *)
(* intent of an operation, the next of its effects, the binding evidence   *)
(* or a human act under the lock.                                          *)
AddsIntent(p, e) ==
    /\ RecordIntent(p)
    /\ e = Stamp(Effect("intent", None, None, 0), op[p].intent)
AddsEffect(p, e) ==
    /\ AppendEffect(p) /\ ~DuplicateEffect(op[p])
    /\ e = Stamp(op[p].effects[op[p].next], op[p].intent)
AddsAnchor(p, e) == Anchor(p) /\ e = Effect("anchor", None, None, 0)
AddsAct(p, e) ==
    /\ Acts(p)
    /\ e.kind \in {"withdraw", "undo"} /\ e.by = None
    /\ e.kind = "undo" => e.ref = Withdrawal

Adds(p, e) == AddsIntent(p, e) \/ AddsEffect(p, e) \/ AddsAnchor(p, e) \/ AddsAct(p, e)

LEMMA StampType ==
    ASSUME NEW e \in Event, NEW i \in Intents
    PROVE  /\ Stamp(e, i) \in Event
           /\ Stamp(e, i).kind = e.kind /\ Stamp(e, i).val = e.val
           /\ Stamp(e, i).who = e.who /\ Stamp(e, i).ref = e.ref
           /\ Stamp(e, i).by = i
           /\ e.by = None => Payload(Stamp(e, i)) = e
  BY DEF Stamp, Payload, Event

LEMMA JournalGrows ==
    ASSUME BaseInv, NEW p \in Processes, Moves(p)
    PROVE  \/ UNCHANGED journal
           \/ \E e \in Event : journal' = Append(journal, e) /\ Adds(p, e)
  <1>1. op[p] \in OpType /\ op[p].intent \in Intents /\ WellPlanned(op[p])
    BY DEF BaseInv, TypeInv, OpType
  <1>2. None \in Values /\ 0 \in Nat /\ {"intent", "anchor", "withdraw", "undo"} \subseteq Kinds
    BY DEF Values, Kinds, Verdicts
  <1>3. CASE RecordIntent(p)
    <2> DEFINE e == Stamp(Effect("intent", None, None, 0), op[p].intent)
    <2>1. e \in Event
      BY <1>1, <1>2, EffectType, StampType
    <2>2. journal' = journal \/ journal' = Append(journal, e)
      BY <1>3 DEF RecordIntent
    <2> QED
      BY <1>3, <2>1, <2>2 DEF Adds, AddsIntent
  <1>4. CASE AppendEffect(p)
    <2> DEFINE e == Stamp(op[p].effects[op[p].next], op[p].intent)
    <2>1. op[p].cmd # "none" /\ op[p].next \in 1..Len(op[p].effects)
      BY <1>4 DEF AppendEffect, BaseInv, ControlInv, Working
    <2>2. e \in Event
      BY <1>1, <2>1, PlannedLengths, StampType
    <2>3. journal' = IF DuplicateEffect(op[p]) THEN journal ELSE Append(journal, e)
      BY <1>4 DEF AppendEffect
    <2> QED
      BY <1>4, <2>2, <2>3 DEF Adds, AddsEffect
  <1>5. CASE Anchor(p)
    <2> DEFINE e == Effect("anchor", None, None, 0)
    <2>1. e \in Event
      BY <1>2, EffectType
    <2>2. journal' = journal \/ journal' = Append(journal, e)
      BY <1>5 DEF Anchor
    <2> QED
      BY <1>5, <2>1, <2>2 DEF Adds, AddsAnchor
  <1>6. CASE Acts(p)
    <2>1. PICK h \in Coders, verdict \in {"withdraw", "undo"}, n \in Nat :
              /\ journal' = Append(journal, Effect(verdict, Marker, h, n))
              /\ verdict = "undo" => n = Withdrawal
      BY <1>6 DEF Acts
    <2> DEFINE e == Effect(verdict, Marker, h, n)
    <2>2. Marker \in Values /\ h \in Values
      BY LookupTypes DEF Marker, BaseInv, TypeInv, Values
    <2>3. e \in Event
      BY <1>2, <2>2, EffectType
    <2>4. e.kind = verdict /\ e.ref = n /\ e.by = None
      BY DEF Effect
    <2> HIDE DEF e
    <2>5. AddsAct(p, e)
      BY <1>6, <2>1, <2>4 DEF AddsAct
    <2> QED
      BY <2>1, <2>3, <2>5 DEF Adds, e
  <1>7. CASE Plans(p) \/ Checks(p) \/ Enters(p) \/ Leaves(p) \/ Stops(p)
    BY <1>7 DEF Plans, Plan, Checks, Enters, Enter, Leaves, Leave, Stops
  <1>8. CASE PutObjects(p) \/ ReadLatest(p)
    BY <1>8 DEF PutObjects, ReadLatest
  <1> QED
    BY <1>3, <1>4, <1>5, <1>6, <1>7, <1>8 DEF Moves, Execute

LEMMA TypeStep ==
    ASSUME BaseInv, NEW p \in Processes, Moves(p)
    PROVE  TypeInv'
  <1>1. journal' \in Seq(Event)
    BY JournalGrows DEF BaseInv, TypeInv
  <1>2. \A q \in Processes : op'[q] \in OpType /\ WellPlanned(op'[q])
    BY PlansStay
  <1>3. /\ pc \in [Processes -> Controls] /\ op \in [Processes -> OpType]
        /\ wlock \in Processes \cup {None} /\ activations \in Nat
    BY DEF BaseInv, TypeInv
  <1> USE DEF Goto, End
  <1>4. /\ wlock' \in Processes \cup {None}
        /\ activations' \in Nat
        /\ op' = [op EXCEPT ![p] = op'[p]]
        /\ \E l \in Controls : pc' = [pc EXCEPT ![p] = l]
    <2> USE <1>3 DEF Controls, Working
    <2>1. CASE Plans(p)
      BY <2>1 DEF Plans, Plan
    <2>2. CASE Checks(p)
      BY <2>2 DEF Checks
    <2>3. CASE Enters(p)
      BY <2>3 DEF Enters, Enter
    <2>4. CASE Leaves(p)
      BY <2>4 DEF Leaves, Leave
    <2>5. CASE Anchor(p)
      BY <2>5 DEF Anchor
    <2>6. CASE Acts(p)
      BY <2>6 DEF Acts
    <2>7. CASE Stops(p)
      BY <2>7 DEF Stops
    <2>8. CASE Execute(p) /\ UNCHANGED activations
      <3>1. CASE PutObjects(p)
        BY <2>8, <3>1 DEF PutObjects
      <3>2. CASE RecordIntent(p)
        BY <2>8, <3>2 DEF RecordIntent, NextEffect
      <3>3. CASE ReadLatest(p)
        BY <2>8, <3>3 DEF ReadLatest
      <3>4. CASE AppendEffect(p)
        BY <2>8, <3>4 DEF AppendEffect, NextEffect
      <3> QED
        BY <2>8, <3>1, <3>2, <3>3, <3>4 DEF Execute
    <2> QED
      BY <2>1, <2>2, <2>3, <2>4, <2>5, <2>6, <2>7, <2>8 DEF Moves
  <1>5. pc' \in [Processes -> Controls]
    BY <1>3, <1>4
  <1>6. op' \in [Processes -> OpType]
    BY <1>2, <1>3, <1>4
  <1> QED
    BY <1>1, <1>2, <1>4, <1>5, <1>6 DEF TypeInv

LEMMA ControlStep ==
    ASSUME BaseInv, NEW p \in Processes, Moves(p)
    PROVE  ControlInv'
  <1>1. /\ pc \in [Processes -> Controls] /\ op \in [Processes -> OpType]
        /\ wlock \in Processes \cup {None} /\ None \notin Processes
        /\ op[p] \in OpType /\ WellPlanned(op[p]) /\ ControlInv
    BY ProcessesAssumption DEF BaseInv, TypeInv
  <1>2. op[p].cmd # "none" => Len(op[p].effects) \in {1, 2}
    BY <1>1, PlannedLengths
  <1>3. \A q \in Processes \ {p} : pc'[q] = pc[q] /\ op'[q] = op[q]
    BY OthersStay
  <1> USE DEF Goto, End
  <1>4. /\ pc'[p] \in Inside => wlock' = p
        /\ pc'[p] \in Working => op'[p].cmd # "none"
        /\ pc'[p] \in {"objects", "intent"} => op'[p].next = 1
        /\ pc'[p] \in {"latest", "effect"} => op'[p].next \in 1..Len(op'[p].effects)
    <2> USE <1>1 DEF ControlInv, Inside, Working
    <2>1. CASE Plans(p)
      BY <2>1 DEF Plans, Plan
    <2>2. CASE Checks(p)
      BY <2>2 DEF Checks, OpType
    <2>3. CASE Enters(p)
      <3>1. op'[p] = [op[p] EXCEPT !.next = 1, !.wrote = FALSE]
        BY <2>3 DEF Enters, Enter
      <3>2. op'[p].next = 1 /\ op'[p].cmd = op[p].cmd
        BY <3>1 DEF OpType
      <3> QED
        BY <2>3, <3>2 DEF Enters, Enter
    <2>4. CASE Leaves(p)
      BY <2>4 DEF Leaves, Leave
    <2>5. CASE Anchor(p)
      BY <2>5 DEF Anchor
    <2>6. CASE Acts(p)
      BY <2>6 DEF Acts
    <2>7. CASE Stops(p)
      BY <2>7 DEF Stops
    <2>8. CASE PutObjects(p)
      BY <2>8 DEF PutObjects
    <2>9. CASE RecordIntent(p)
      <3>1. PICK w \in BOOLEAN : op' = [op EXCEPT ![p].wrote = w]
        BY <2>9 DEF RecordIntent
      <3>2. /\ op'[p].next = op[p].next /\ op'[p].cmd = op[p].cmd
            /\ op'[p].effects = op[p].effects
        BY <3>1 DEF OpType
      <3>3. /\ pc[p] = "intent" /\ UNCHANGED wlock
            /\ \E l \in {"latest", "effect"} : pc' = [pc EXCEPT ![p] = l]
        BY <2>9 DEF RecordIntent, NextEffect
      <3>4. op'[p].next = 1 /\ Len(op'[p].effects) \in {1, 2}
        BY <1>2, <3>2, <3>3
      <3>5. 1 \in 1..1 /\ 1 \in 1..2
        OBVIOUS
      <3> QED
        BY <3>2, <3>3, <3>4, <3>5
    <2>10. CASE ReadLatest(p)
      <3>1. PICK l : op' = [op EXCEPT ![p].last = l]
        BY <2>10 DEF ReadLatest
      <3>2. /\ op'[p].next = op[p].next /\ op'[p].cmd = op[p].cmd
            /\ op'[p].effects = op[p].effects
        BY <3>1 DEF OpType
      <3> QED
        BY <2>10, <3>2 DEF ReadLatest
    <2>11. CASE AppendEffect(p)
      <3>1. PICK w : op' = [op EXCEPT ![p].next = op[p].next + 1, ![p].wrote = w]
        BY <2>11 DEF AppendEffect
      <3>2. /\ op'[p].next = op[p].next + 1 /\ op'[p].cmd = op[p].cmd
            /\ op'[p].effects = op[p].effects
        BY <3>1 DEF OpType
      <3> QED
        BY <1>2, <2>11, <3>2 DEF AppendEffect, NextEffect
    <2> QED
      BY <2>1, <2>2, <2>3, <2>4, <2>5, <2>6, <2>7, <2>8, <2>9, <2>10, <2>11 DEF Moves, Execute
  <1>5. \A q \in Processes \ {p} : pc[q] \in Inside => wlock' = q
    <2> SUFFICES ASSUME NEW q \in Processes \ {p}, pc[q] \in Inside PROVE wlock' = q
      OBVIOUS
    <2>1. wlock = q /\ pc[p] \notin Inside
      BY <1>1 DEF ControlInv
    <2>2. UNCHANGED wlock
      <3> USE <1>1, <2>1
      <3>1. CASE Plans(p) \/ Checks(p) \/ Enters(p)
        BY <3>1 DEF Plans, Plan, Checks, Enters, Enter
      <3>2. CASE Leaves(p) \/ Anchor(p) \/ Acts(p) \/ Stops(p)
        BY <3>2 DEF Leaves, Leave, Anchor, Acts, Stops, Inside
      <3>3. CASE Execute(p)
        BY <3>3 DEF Execute, PutObjects, RecordIntent, ReadLatest, AppendEffect
      <3> QED
        BY <3>1, <3>2, <3>3 DEF Moves
    <2> QED
      BY <2>1, <2>2
  <1> QED
    BY <1>1, <1>3, <1>4, <1>5 DEF ControlInv

LEMMA BaseStep ==
    ASSUME BaseInv, [ConfirmationNext]_allvars
    PROVE  BaseInv'
  <1>1. CASE ConfirmationNext
    BY <1>1, NextMoves, TypeStep, ControlStep DEF BaseInv
  <1>2. CASE UNCHANGED allvars
    BY <1>2 DEF allvars, vars, BaseInv, TypeInv, ControlInv
  <1> QED
    BY <1>1, <1>2

LEMMA BaseInit == ConfirmationInit => BaseInv
  <1> SUFFICES ASSUME ConfirmationInit PROVE BaseInv
    OBVIOUS
  <1>1. NoOperation \in OpType /\ WellPlanned(NoOperation)
    BY DEF NoOperation, Operation, OpType, WellPlanned, PlannedEffects, PlannedObjects,
           Commands, Intents, Values
  <1>2. TypeInv
    BY <1>1 DEF ConfirmationInit, Init, TypeInv, Controls
  <1>3. ControlInv
    BY DEF ConfirmationInit, Init, ControlInv, Working, Inside
  <1> QED
    BY <1>2, <1>3 DEF BaseInv

-----------------------------------------------------------------------------
(* What appending one event does to the positions of each kind.            *)

LEMMA Appended ==
    ASSUME journal \in Seq(Event), NEW e \in Event, journal' = Append(journal, e)
    PROVE  /\ Len(journal) \in Nat /\ Len(journal)' = Len(journal) + 1
           /\ Positions = 1..Len(journal)
           /\ Positions' = Positions \cup {Len(journal) + 1}
           /\ Len(journal) + 1 \notin Positions
           /\ \A i \in Positions : journal'[i] = journal[i]
           /\ journal'[Len(journal) + 1] = e
           /\ journal' \in Seq(Event)
  BY DEF Positions

LEMMA AppendedOf ==
    ASSUME journal \in Seq(Event), NEW e \in Event, journal' = Append(journal, e), NEW K
    PROVE  Of(K)' = IF e.kind \in K THEN Of(K) \cup {Len(journal) + 1} ELSE Of(K)
  BY Appended DEF Of

LEMMA AppendedLatest ==
    ASSUME journal \in Seq(Event), NEW e \in Event, journal' = Append(journal, e), NEW K
    PROVE  /\ e.kind \in K => LatestOf(K)' = Len(journal) + 1
           /\ e.kind \notin K => LatestOf(K)' = LatestOf(K)
  <1>1. CASE e.kind \in K
    <2>1. /\ LatestOf(K)' \in Nat /\ LatestOf(K)' \in Of(K)' \cup {0}
          /\ \A i \in Of(K)' : i <= LatestOf(K)'
          /\ Of(K)' \in SUBSET Positions'
      <3>1. journal' \in Seq(Event)
        BY Appended
      <3>2. Of(K)' \in SUBSET (1..Len(journal')) /\ Len(journal') \in Nat
        BY <3>1 DEF Of, Positions
      <3> QED
        BY <3>2, LatestIsGreatest DEF LatestOf, Positions
    <2>2. Len(journal) + 1 \in Of(K)' /\ Len(journal) \in Nat
      BY <1>1, Appended, AppendedOf
    <2>3. \A i \in Positions' : i <= Len(journal) + 1
      BY Appended
    <2>4. Len(journal) + 1 <= LatestOf(K)' /\ LatestOf(K)' \in Positions'
      BY <2>1, <2>2
    <2> QED
      BY <1>1, <2>1, <2>2, <2>3, <2>4
  <1>2. CASE e.kind \notin K
    BY <1>2, AppendedOf DEF LatestOf
  <1> QED
    BY <1>1, <1>2

-----------------------------------------------------------------------------
(* Bytes before names, the intent before its effects.                      *)

ProvidedInv ==
    \A p \in Processes :
        /\ pc[p] \in Inside \ {"objects"} =>
              op[p].objs \subseteq objects /\ op[p].intent \in objects
        /\ pc[p] \in {"latest", "effect"} =>
              \E k \in Of({"intent"}) : journal[k].by = op[p].intent
        /\ op[p].cmd = "fulltext" => op[p].intent.val \in objects

DanglingInv == BaseInv /\ ProvidedInv /\ NothingDangling

LEMMA PlannedAddresses ==
    ASSUME NEW o \in OpType, WellPlanned(o), o.cmd # "none", NEW n \in 1..Len(o.effects)
    PROVE  \A a \in Addresses(Stamp(o.effects[n], o.intent)) :
               a \in o.objs \/ (o.cmd = "fulltext" /\ a = o.intent.val)
  <1> DEFINE i == o.intent
  <1>1. /\ i \in Intents /\ i.cmd \in Commands \ {"none"} /\ o.cmd = i.cmd
        /\ o.effects = PlannedEffects(i) /\ o.objs = PlannedObjects(i)
    BY DEF WellPlanned, OpType, Intents
  <1> HIDE DEF i
  <1>2. \A k, v, w, r : /\ Stamp(Effect(k, v, w, r), i).kind = k
                        /\ Stamp(Effect(k, v, w, r), i).val = v
                        /\ Stamp(Effect(k, v, w, r), i).who = w
    BY DEF Stamp, Effect
  <1>3. \A v, w, r :
          /\ Addresses(Stamp(Effect("registered", v, w, r), i)) = {}
          /\ Addresses(Stamp(Effect("retired", v, w, r), i)) = {}
          /\ Addresses(Stamp(Effect("accept", v, w, r), i)) = {}
          /\ Addresses(Stamp(Effect("marker", v, w, r), i)) = {MarkerObject(v)}
          /\ Addresses(Stamp(Effect("prepared", v, w, r), i)) = {v}
          /\ Addresses(Stamp(Effect("receipt", v, w, r), i)) = {v}
          /\ Addresses(Stamp(Effect("revision", v, w, r), i)) = {v}
          /\ Addresses(Stamp(Effect("fulltext", v, w, r), i)) = {v}
          /\ Addresses(Stamp(Effect("attested", v, w, r), i)) = {v, w}
    BY <1>2 DEF Addresses
  <1>4. CASE i.cmd \in {"register", "retire", "prepare"}
    <2>1. n = 1 /\ (\/ i.cmd = "register" /\ o.effects[n] = Effect("registered", i.val, i.who, i.ref)
                    \/ i.cmd = "retire" /\ o.effects[n] = Effect("retired", None, i.who, i.ref)
                    \/ i.cmd = "prepare" /\ o.effects[n] = Effect("prepared", i.val, i.who, 0))
      BY <1>1, <1>4 DEF PlannedEffects
    <2> QED
      BY <1>1, <1>3, <2>1 DEF PlannedObjects, i
  <1>5. CASE i.cmd = "ingest"
    <2>1. \/ o.effects[n] = Effect("receipt", i.val, None, 0)
          \/ o.effects[n] = Effect("revision", i.val, None, 0)
      BY <1>1, <1>5 DEF PlannedEffects
    <2> QED
      BY <1>1, <1>3, <1>5, <2>1 DEF PlannedObjects, i
  <1>6. CASE i.cmd = "fulltext"
    <2>1. \/ o.effects[n] = Effect("fulltext", i.who, None, 0)
          \/ o.effects[n] = Effect("attested", i.val, i.who, 0)
      BY <1>1, <1>6 DEF PlannedEffects
    <2> QED
      BY <1>1, <1>3, <1>6, <2>1 DEF PlannedObjects, i
  <1>7. CASE i.cmd = "confirm"
    <2>1. \/ o.effects[n] = Effect("marker", i.val, None, 0)
          \/ o.effects[n] = Effect("accept", i.val, i.who, i.ref)
      BY <1>1, <1>7 DEF PlannedEffects
    <2> QED
      BY <1>1, <1>3, <1>7, <2>1 DEF PlannedObjects, i
  <1> QED
    BY <1>1, <1>4, <1>5, <1>6, <1>7 DEF Commands

LEMMA ObjectsStay ==
    ASSUME NEW p \in Processes, Moves(p)
    PROVE  objects \subseteq objects'
  <1>1. CASE Plans(p) \/ Checks(p) \/ Enters(p)
    BY <1>1 DEF Plans, Plan, Checks, Enters, Enter
  <1>2. CASE Leaves(p) \/ Anchor(p) \/ Acts(p) \/ Stops(p)
    BY <1>2 DEF Leaves, Leave, Anchor, Acts, Stops
  <1>3. CASE Execute(p)
    BY <1>3 DEF Execute, PutObjects, RecordIntent, ReadLatest, AppendEffect
  <1> QED
    BY <1>1, <1>2, <1>3 DEF Moves

(* What the journal holds stays where it is. *)
LEMMA EventsStay ==
    ASSUME BaseInv, NEW p \in Processes, Moves(p)
    PROVE  /\ Positions \subseteq Positions' /\ \A i \in Positions : journal'[i] = journal[i]
           /\ \A K : Of(K) \subseteq Of(K)'
  <1>1. CASE UNCHANGED journal
    BY <1>1 DEF Positions, Of
  <1>2. CASE \E e \in Event : journal' = Append(journal, e)
    <2>1. Positions \subseteq Positions' /\ \A i \in Positions : journal'[i] = journal[i]
      BY <1>2, Appended DEF BaseInv, TypeInv
    <2> QED
      BY <2>1 DEF Of
  <1> QED
    BY <1>1, <1>2, JournalGrows

LEMMA NewEventBacked ==
    ASSUME DanglingInv, NEW p \in Processes, NEW e \in Event, Adds(p, e)
    PROVE  /\ Addresses(e) \subseteq objects
           /\ e.kind = "intent" \/ e.by = None
              \/ \E k \in Of({"intent"}) : journal[k].by = e.by
  <1>1. op[p] \in OpType /\ op[p].intent \in Intents /\ WellPlanned(op[p])
    BY DEF DanglingInv, BaseInv, TypeInv, OpType
  <1>2. CASE AddsIntent(p, e)
    <2>1. pc[p] = "intent" /\ op[p].intent \in objects
      BY <1>2 DEF AddsIntent, RecordIntent, DanglingInv, ProvidedInv, Inside
    <2>2. e.kind = "intent" /\ e.by = op[p].intent
      BY <1>2 DEF AddsIntent, Stamp, Effect
    <2> QED
      BY <2>1, <2>2 DEF Addresses
  <1>3. CASE AddsEffect(p, e)
    <2>1. /\ pc[p] = "effect" /\ op[p].cmd # "none"
          /\ op[p].next \in 1..Len(op[p].effects)
      BY <1>3 DEF AddsEffect, AppendEffect, DanglingInv, BaseInv, ControlInv, Working
    <2>2. /\ op[p].objs \subseteq objects
          /\ op[p].cmd = "fulltext" => op[p].intent.val \in objects
          /\ \E k \in Of({"intent"}) : journal[k].by = op[p].intent
      BY <2>1 DEF DanglingInv, ProvidedInv, Inside
    <2>3. op[p].effects[op[p].next] \in Event
      BY <1>1, <2>1, PlannedLengths
    <2>4. e.by = op[p].intent
      BY <1>1, <1>3, <2>3, StampType DEF AddsEffect
    <2>5. Addresses(e) \subseteq objects
      BY <1>1, <1>3, <2>1, <2>2, PlannedAddresses DEF AddsEffect
    <2> QED
      BY <2>2, <2>4, <2>5
  <1>4. CASE AddsAnchor(p, e) \/ AddsAct(p, e)
    <2>1. e.kind \in {"anchor", "withdraw", "undo"} /\ e.by = None
      BY <1>4 DEF AddsAnchor, AddsAct, Effect
    <2> QED
      BY <2>1 DEF Addresses
  <1> QED
    BY <1>2, <1>3, <1>4 DEF Adds

LEMMA DanglingStep ==
    ASSUME DanglingInv, NEW p \in Processes, Moves(p)
    PROVE  NothingDangling'
  <1>1. BaseInv /\ journal \in Seq(Event) /\ NothingDangling
    BY DEF DanglingInv, BaseInv, TypeInv
  <1>2. objects \subseteq objects'
    BY ObjectsStay
  <1>3. CASE UNCHANGED journal
    BY <1>1, <1>2, <1>3 DEF NothingDangling, Positions
  <1>4. CASE \E e \in Event : journal' = Append(journal, e) /\ Adds(p, e)
    <2>1. PICK e \in Event : journal' = Append(journal, e) /\ Adds(p, e)
      BY <1>4
    <2> DEFINE n == Len(journal) + 1
    <2>2. /\ n \in Nat /\ n >= 1 /\ Positions = 1..(n - 1) /\ Positions' = Positions \cup {n}
          /\ \A i \in Positions : journal'[i] = journal[i]
          /\ journal'[n] = e
      BY <1>1, <2>1, Appended
    <2>3. /\ Addresses(e) \subseteq objects
          /\ e.kind = "intent" \/ e.by = None
             \/ \E k \in Of({"intent"}) : journal[k].by = e.by
      BY <2>1, NewEventBacked
    <2> HIDE DEF n
    <2>4. \A i \in Positions :
             /\ Addresses(journal'[i]) \subseteq objects'
             /\ journal'[i].by # None =>
                   \E k \in 1..i : journal'[k].kind = "intent" /\ journal'[k].by = journal'[i].by
      <3> SUFFICES ASSUME NEW i \in Positions
                   PROVE  /\ Addresses(journal'[i]) \subseteq objects'
                          /\ journal'[i].by # None =>
                                \E k \in 1..i : journal'[k].kind = "intent" /\ journal'[k].by = journal'[i].by
        OBVIOUS
      <3>1. 1..i \subseteq Positions /\ journal'[i] = journal[i]
        BY <2>2
      <3>2. /\ Addresses(journal[i]) \subseteq objects
            /\ journal[i].by # None =>
                  \E k \in 1..i : journal[k].kind = "intent" /\ journal[k].by = journal[i].by
        BY <1>1 DEF NothingDangling
      <3> QED
        BY <1>2, <2>2, <3>1, <3>2
    <2>5. e.by # None => \E k \in 1..n : journal'[k].kind = "intent" /\ journal'[k].by = e.by
      <3>1. CASE e.kind = "intent"
        BY <2>2, <3>1
      <3>2. CASE \E k \in Of({"intent"}) : journal[k].by = e.by
        <4>1. PICK k \in Positions : journal[k].kind = "intent" /\ journal[k].by = e.by
          BY <3>2 DEF Of
        <4>2. k \in 1..n /\ journal'[k] = journal[k]
          BY <2>2
        <4> QED
          BY <4>1, <4>2
      <3> QED
        BY <2>3, <3>1, <3>2
    <2> QED
      BY <1>2, <2>2, <2>3, <2>4, <2>5 DEF NothingDangling
  <1> QED
    BY <1>1, <1>3, <1>4, JournalGrows

LEMMA ProvidedStep ==
    ASSUME DanglingInv, NEW p \in Processes, Moves(p), NEW q \in Processes
    PROVE  /\ pc'[q] \in Inside \ {"objects"} =>
                 op'[q].objs \subseteq objects' /\ op'[q].intent \in objects'
           /\ pc'[q] \in {"latest", "effect"} =>
                 \E k \in Of({"intent"})' : journal'[k].by = op'[q].intent
           /\ op'[q].cmd = "fulltext" => op'[q].intent.val \in objects'
  <1>1. /\ BaseInv /\ journal \in Seq(Event) /\ pc \in [Processes -> Controls]
        /\ op \in [Processes -> OpType] /\ NothingDangling
    BY DEF DanglingInv, BaseInv, TypeInv
  <1>2. objects \subseteq objects'
    BY ObjectsStay
  <1>3. /\ pc[q] \in Inside \ {"objects"} => op[q].objs \subseteq objects' /\ op[q].intent \in objects'
        /\ op[q].cmd = "fulltext" => op[q].intent.val \in objects'
    BY <1>2 DEF DanglingInv, ProvidedInv
  <1>4. pc[q] \in {"latest", "effect"} => \E k \in Of({"intent"})' : journal'[k].by = op[q].intent
    <2>1. Of({"intent"}) \subseteq Of({"intent"})' /\ Of({"intent"}) \subseteq Positions
      BY <1>1, EventsStay DEF Of
    <2>2. \A i \in Positions : journal'[i] = journal[i]
      BY <1>1, EventsStay
    <2> QED
      BY <2>1, <2>2 DEF DanglingInv, ProvidedInv
  <1>5. CASE SamePlan(op[q], op'[q]) /\ (pc'[q] \in Inside \ {"objects"} => pc'[q] = pc[q])
    BY <1>3, <1>4, <1>5 DEF SamePlan, Inside
  <1> USE DEF End, Goto
  <1>6. CASE Plans(p) /\ q = p
    <2>1. PICK item \in Items, o \in OpType :
              /\ Plan(p, item, o)
              /\ o.cmd = "fulltext" => \E i \in Of({"revision"}) : journal[i].val = o.intent.val
      BY <1>6 DEF Plans
    <2>2. op'[q] = o /\ pc'[q] = "planned"
      BY <1>1, <1>6, <2>1 DEF Plan
    <2>3. \A i \in Of({"revision"}) : journal[i].val \in objects
      BY <1>1 DEF NothingDangling, Of, Addresses
    <2> QED
      BY <1>2, <2>1, <2>2, <2>3 DEF Inside
  <1>7. CASE Stops(p) /\ op'[q] = NoOperation
    <2>1. q = p => pc'[q] \notin Inside
      BY <1>1, <1>7 DEF Stops, Inside
    <2>2. q # p => op[q] = NoOperation /\ pc'[q] = pc[q]
      BY <1>1, <1>7, OthersStay
    <2>3. NoOperation.cmd = "none"
      BY DEF NoOperation, Operation
    <2> QED
      BY <1>3, <1>4, <1>7, <2>1, <2>2, <2>3 DEF Inside
  <1>8. CASE SamePlan(op[q], op'[q]) /\ q # p
    BY <1>1, <1>5, <1>8, OthersStay
  <1>9. CASE SamePlan(op[q], op'[q]) /\ q = p
    <2>1. CASE Checks(p) \/ Enters(p) \/ Leaves(p) \/ Stops(p) \/ Plans(p)
      <3>1. pc'[q] \notin Inside \ {"objects"}
        BY <1>1, <1>9, <2>1 DEF Checks, Enters, Enter, Leaves, Leave, Stops, Plans, Plan, Inside
      <3> QED
        BY <1>5, <1>9, <3>1
    <2>2. CASE Anchor(p) \/ Acts(p)
      <3>1. pc'[q] \notin Inside \ {"objects"} \/ pc'[q] = pc[q]
        BY <1>1, <1>9, <2>2 DEF Anchor, Acts, Inside
      <3> QED
        BY <1>5, <1>9, <3>1
    <2>3. CASE PutObjects(p)
      <3>1. pc'[q] = "intent" /\ op'[q] = op[q] /\ objects' = objects \cup op[q].objs \cup {op[q].intent}
        BY <1>1, <1>9, <2>3 DEF PutObjects
      <3> QED
        BY <1>3, <3>1
    <2>4. CASE RecordIntent(p)
      <3>1. pc[q] = "intent"
        BY <1>9, <2>4 DEF RecordIntent
      <3>2. op[q].objs \subseteq objects' /\ op[q].intent \in objects'
        BY <1>3, <3>1 DEF Inside
      <3>3. \E k \in Of({"intent"})' : journal'[k].by = op[q].intent
        <4>1. CASE \E i \in Of({"intent"}) : journal[i].by = op[q].intent
          <5>1. journal' = journal
            BY <1>9, <2>4, <4>1 DEF RecordIntent
          <5> QED
            BY <4>1, <5>1 DEF Of, Positions
        <4>2. CASE ~\E i \in Of({"intent"}) : journal[i].by = op[q].intent
          <5> DEFINE e == Stamp(Effect("intent", None, None, 0), op[q].intent)
          <5>1. journal' = Append(journal, e)
            BY <1>9, <2>4, <4>2 DEF RecordIntent
          <5>2. e.kind = "intent" /\ e.by = op[q].intent
            BY DEF Stamp, Effect
          <5>3. Len(journal) + 1 \in Positions' /\ journal'[Len(journal) + 1] = e
            BY <1>1, <5>1 DEF Positions
          <5> QED
            BY <5>2, <5>3 DEF Of
        <4> QED
          BY <4>1, <4>2
      <3> QED
        BY <1>3, <1>9, <3>2, <3>3 DEF SamePlan
    <2>5. CASE ReadLatest(p) \/ AppendEffect(p)
      <3>1. pc[q] \in {"latest", "effect"}
        BY <1>9, <2>5 DEF ReadLatest, AppendEffect
      <3> QED
        BY <1>3, <1>4, <1>9, <3>1 DEF SamePlan, Inside
    <2> QED
      BY <2>1, <2>2, <2>3, <2>4, <2>5 DEF Moves, Execute
  <1> QED
    BY <1>1, <1>6, <1>7, <1>8, <1>9, PlansStay

(* No event names bytes that are not in the store, and no effect stands in *)
(* the journal before its intent: for every number of processes and plans, *)
(* wherever a writer is killed or fails, and however often its plan is     *)
(* handed to it again (execute_intent).                                    *)
THEOREM NothingDangles == ConfirmationSpec => []NothingDangling
  <1>1. ConfirmationInit => DanglingInv
    <2>1. ConfirmationInit => ProvidedInv /\ NothingDangling
      BY DEF ConfirmationInit, Init, ProvidedInv, NothingDangling, Positions, Inside,
             NoOperation, Operation
    <2> QED
      BY <2>1, BaseInit DEF DanglingInv
  <1>2. DanglingInv /\ [ConfirmationNext]_allvars => DanglingInv'
    <2> SUFFICES ASSUME DanglingInv, [ConfirmationNext]_allvars PROVE DanglingInv'
      OBVIOUS
    <2>1. BaseInv /\ BaseInv'
      BY BaseStep DEF DanglingInv
    <2>2. CASE ConfirmationNext
      <3>1. PICK p \in Processes : Moves(p)
        BY <2>1, <2>2, NextMoves DEF BaseInv
      <3>2. ProvidedInv'
        BY <3>1, ProvidedStep DEF ProvidedInv
      <3> QED
        BY <2>1, <3>1, <3>2, DanglingStep DEF DanglingInv
    <2>3. CASE UNCHANGED allvars
      BY <2>1, <2>3 DEF allvars, vars, DanglingInv, ProvidedInv, NothingDangling, Of, Positions
    <2> QED
      BY <2>2, <2>3
  <1>3. DanglingInv => NothingDangling
    BY DEF DanglingInv
  <1> QED
    BY <1>1, <1>2, <1>3, PTL DEF ConfirmationSpec

-----------------------------------------------------------------------------
(* The effects of an operation in their order.                             *)

LEMMA EffectShapes ==
    ASSUME NEW o \in OpType, WellPlanned(o), o.cmd # "none", NEW n \in 1..Len(o.effects)
    PROVE  LET i == o.intent
           IN  \/ /\ o.cmd \in {"register", "retire", "prepare"} /\ Len(o.effects) = 1 /\ n = 1
                  /\ \/ o.cmd = "register" /\ o.effects[n] = Effect("registered", i.val, i.who, i.ref)
                     \/ o.cmd = "retire" /\ o.effects[n] = Effect("retired", None, i.who, i.ref)
                     \/ o.cmd = "prepare" /\ o.effects[n] = Effect("prepared", i.val, i.who, 0)
               \/ /\ o.cmd = "ingest" /\ Len(o.effects) = 2
                  /\ o.effects[1] = Effect("receipt", i.val, None, 0)
                  /\ o.effects[2] = Effect("revision", i.val, None, 0)
               \/ /\ o.cmd = "fulltext" /\ Len(o.effects) = 2
                  /\ o.effects[1] = Effect("fulltext", i.who, None, 0)
                  /\ o.effects[2] = Effect("attested", i.val, i.who, 0)
               \/ /\ o.cmd = "confirm" /\ Len(o.effects) = 2
                  /\ o.effects[1] = Effect("marker", i.val, None, 0)
                  /\ o.effects[2] = Effect("accept", i.val, i.who, i.ref)
  <1> DEFINE i == o.intent
  <1>1. /\ i.cmd \in Commands \ {"none"} /\ o.cmd = i.cmd /\ o.effects = PlannedEffects(i)
    BY DEF WellPlanned, OpType, Intents
  <1> HIDE DEF i
  <1>2. CASE i.cmd \in {"register", "retire", "prepare"}
    BY <1>1, <1>2 DEF PlannedEffects, i
  <1>3. CASE i.cmd \in {"ingest", "fulltext", "confirm"}
    BY <1>1, <1>3 DEF PlannedEffects, i
  <1> QED
    BY <1>1, <1>2, <1>3 DEF Commands

(* While one process is inside the writer, another adds at most binding    *)
(* evidence.                                                               *)
LEMMA LockExcludes ==
    ASSUME BaseInv, NEW p \in Processes, NEW q \in Processes, q # p, pc[q] \in Inside,
           NEW e \in Event, Adds(p, e)
    PROVE  e.kind = "anchor"
  <1>1. wlock = q /\ q # None /\ pc[p] \notin Inside
    BY ProcessesAssumption DEF BaseInv, ControlInv
  <1>2. ~AddsIntent(p, e) /\ ~AddsEffect(p, e)
    BY <1>1 DEF AddsIntent, AddsEffect, RecordIntent, AppendEffect, Inside
  <1>3. ~AddsAct(p, e)
    BY <1>1 DEF AddsAct, Acts
  <1> QED
    BY <1>2, <1>3 DEF Adds, AddsAnchor, Effect

(* How a process comes to be, or stays, at its effects. *)
LEMMA AtItsEffects ==
    ASSUME BaseInv, NEW p \in Processes, Moves(p), NEW q \in Processes,
           pc'[q] \in {"latest", "effect"}
    PROVE  \/ /\ pc[q] = pc'[q] /\ op'[q] = op[q]
              /\ \/ UNCHANGED journal
                 \/ \E e \in Event : journal' = Append(journal, e) /\ e.kind = "anchor"
           \/ q = p /\ RecordIntent(p)
           \/ q = p /\ ReadLatest(p)
           \/ q = p /\ AppendEffect(p) /\ op[p].next = 1 /\ Len(op[p].effects) = 2
  <1>1. pc \in [Processes -> Controls]
    BY DEF BaseInv, TypeInv
  <1>2. CASE q # p
    BY <1>2, OthersStay, JournalGrows, LockExcludes DEF Inside
  <1> USE DEF Goto, End
  <1>3. CASE q = p /\ (Plans(p) \/ Checks(p) \/ Enters(p) \/ Leaves(p) \/ Stops(p))
    BY <1>1, <1>3 DEF Plans, Plan, Checks, Enters, Enter, Leaves, Leave, Stops
  <1>4. CASE q = p /\ Anchor(p)
    BY <1>1, <1>4 DEF Anchor
  <1>5. CASE q = p /\ Acts(p)
    BY <1>1, <1>5, ProcessesAssumption DEF Acts, BaseInv, ControlInv, Inside
  <1>6. CASE q = p /\ PutObjects(p)
    BY <1>1, <1>6 DEF PutObjects
  <1>7. CASE q = p /\ AppendEffect(p)
    <2>1. /\ op[p] \in OpType /\ WellPlanned(op[p]) /\ op[p].cmd # "none"
          /\ op[p].next \in 1..Len(op[p].effects)
      BY <1>7 DEF BaseInv, TypeInv, ControlInv, AppendEffect, Working
    <2>2. op[p].next # Len(op[p].effects)
      BY <1>1, <1>7 DEF AppendEffect
    <2>3. Len(op[p].effects) \in {1, 2}
      BY <2>1, PlannedLengths
    <2>4. \A l \in {1, 2} : \A n \in 1..l : n # l => n = 1 /\ l = 2
      OBVIOUS
    <2>5. op[p].next = 1 /\ Len(op[p].effects) = 2
      BY <2>1, <2>2, <2>3, <2>4
    <2> QED
      BY <1>7, <2>5
  <1> QED
    BY <1>2, <1>3, <1>4, <1>5, <1>6, <1>7 DEF Moves, Execute

AtEffect(q, c, n) == op[q].cmd = c /\ pc[q] \in {"latest", "effect"} /\ op[q].next = n

(* An operation that stands before its second effect finds its first in    *)
(* force; and what an ingest compares its receipt with is the latest one.  *)
ReceiptInForce(q) ==
    /\ LatestOf({"receipt"}) # 0
    /\ journal[LatestOf({"receipt"})].val = op[q].intent.val
MarkerOnRecord(q) == \E k \in Of({"marker"}) : journal[k].val = op[q].intent.val

FirstEffectInv ==
    \A q \in Processes :
        /\ AtEffect(q, "ingest", 1) /\ pc[q] = "effect" => op[q].last = LatestOf({"receipt"})
        /\ AtEffect(q, "ingest", 2) => ReceiptInForce(q)
        /\ AtEffect(q, "confirm", 2) => MarkerOnRecord(q)

LEMMA PayloadFields ==
    ASSUME NEW e \in Event
    PROVE  /\ Payload(e).kind = e.kind /\ Payload(e).val = e.val
           /\ Payload(e).who = e.who /\ Payload(e).ref = e.ref
  BY DEF Payload, Event

LEMMA EffectFields ==
    ASSUME NEW k, NEW v, NEW w, NEW r
    PROVE  /\ Effect(k, v, w, r).kind = k /\ Effect(k, v, w, r).val = v
           /\ Effect(k, v, w, r).who = w /\ Effect(k, v, w, r).ref = r
           /\ Effect(k, v, w, r).by = None
  BY DEF Effect

LEMMA ReceiptSlot ==
    ASSUME NEW f, f.kind = "receipt"
    PROVE  {i \in Positions : SameSlot(journal[i], f)} = Of({"receipt"})
  BY DEF SameSlot, Of, Verdicts

LEMMA FirstEffectStep ==
    ASSUME BaseInv, FirstEffectInv, NEW p \in Processes, Moves(p), NEW q \in Processes
    PROVE  /\ AtEffect(q, "ingest", 1)' /\ pc'[q] = "effect" => op'[q].last = LatestOf({"receipt"})'
           /\ AtEffect(q, "ingest", 2)' => ReceiptInForce(q)'
           /\ AtEffect(q, "confirm", 2)' => MarkerOnRecord(q)'
  <1> SUFFICES ASSUME pc'[q] \in {"latest", "effect"}
               PROVE  /\ AtEffect(q, "ingest", 1)' /\ pc'[q] = "effect" => op'[q].last = LatestOf({"receipt"})'
                      /\ AtEffect(q, "ingest", 2)' => ReceiptInForce(q)'
                      /\ AtEffect(q, "confirm", 2)' => MarkerOnRecord(q)'
    BY DEF AtEffect
  <1>1. /\ journal \in Seq(Event) /\ pc \in [Processes -> Controls] /\ op \in [Processes -> OpType]
        /\ op[q] \in OpType /\ WellPlanned(op[q]) /\ op[q].intent \in Intents
    BY DEF BaseInv, TypeInv, OpType
  <1>2. /\ LatestOf({"receipt"}) \in Of({"receipt"}) \cup {0}
        /\ \A K : Of(K) \subseteq Positions
        /\ \A i \in Positions : journal[i] \in Event
        /\ LatestOf({"receipt"}) = 0 => 0 \notin Positions
    BY <1>1, LookupTypes DEF Positions, Of
  <1>3. Positions \subseteq Positions' /\ \A i \in Positions : journal'[i] = journal[i]
    BY EventsStay
  <1>4. \A K : Of(K) \subseteq Of(K)'
    BY EventsStay
  <1> USE DEF Goto
  <1>5. CASE /\ pc[q] = pc'[q] /\ op'[q] = op[q]
             /\ \/ UNCHANGED journal
                \/ \E e \in Event : journal' = Append(journal, e) /\ e.kind = "anchor"
    <2>1. LatestOf({"receipt"})' = LatestOf({"receipt"})
      BY <1>1, <1>5, AppendedLatest DEF LatestOf, Of, Positions
    <2>2. ReceiptInForce(q) => ReceiptInForce(q)'
      BY <1>2, <1>3, <1>5, <2>1 DEF ReceiptInForce
    <2>3. MarkerOnRecord(q) => MarkerOnRecord(q)'
      BY <1>2, <1>3, <1>4, <1>5 DEF MarkerOnRecord
    <2> QED
      BY <1>5, <2>1, <2>2, <2>3 DEF FirstEffectInv, AtEffect
  <1>6. CASE q = p /\ RecordIntent(p)
    <2>1. /\ op[p].next = 1 /\ op'[p].next = op[p].next /\ op'[p].cmd = op[p].cmd
      <3>1. PICK w : op' = [op EXCEPT ![p].wrote = w]
        BY <1>6 DEF RecordIntent
      <3>2. op'[p].next = op[p].next /\ op'[p].cmd = op[p].cmd
        BY <1>1, <1>6, <3>1 DEF OpType
      <3> QED
        BY <1>6, <3>2 DEF RecordIntent, BaseInv, ControlInv
    <2>2. op[p].cmd = "ingest" => pc'[p] = "latest"
      BY <1>1, <1>6 DEF RecordIntent, NextEffect, WellPlanned
    <2> QED
      BY <1>6, <2>1, <2>2 DEF AtEffect
  <1>7. CASE q = p /\ ReadLatest(p)
    <2> DEFINE l == Latest({i \in Positions : SameSlot(journal[i], op[p].effects[op[p].next])})
    <2>1. op' = [op EXCEPT ![p].last = l] /\ UNCHANGED journal
      BY <1>7 DEF ReadLatest
    <2>2. pc[p] = "latest"
      BY <1>7 DEF ReadLatest
    <2> HIDE DEF l
    <2>3. /\ op'[p].next = op[p].next /\ op'[p].cmd = op[p].cmd /\ op'[p].last = l
          /\ op'[p].intent = op[p].intent
      BY <1>1, <1>7, <2>1 DEF OpType
    <2>4. LatestOf({"receipt"})' = LatestOf({"receipt"}) /\ Of({"marker"})' = Of({"marker"})
      BY <2>1 DEF LatestOf, Of, Positions
    <2>5. AtEffect(p, "ingest", 1) => l = LatestOf({"receipt"})
      <3> SUFFICES ASSUME AtEffect(p, "ingest", 1) PROVE l = LatestOf({"receipt"})
        OBVIOUS
      <3>1. op[p].next \in 1..Len(op[p].effects) /\ op[p].cmd = "ingest" /\ op[p].next = 1
        BY <2>2 DEF BaseInv, ControlInv, AtEffect
      <3>2. op[p].effects[op[p].next] = Effect("receipt", op[p].intent.val, None, 0)
        BY <1>1, <1>7, <3>1, EffectShapes
      <3>3. op[p].effects[op[p].next].kind = "receipt"
        BY <3>2, EffectFields
      <3> QED
        BY <3>3, ReceiptSlot DEF l, LatestOf
    <2>6. AtEffect(p, "ingest", 2) => ReceiptInForce(p)
      BY DEF FirstEffectInv
    <2>7. AtEffect(p, "confirm", 2) => MarkerOnRecord(p)
      BY DEF FirstEffectInv
    <2> QED
      BY <1>7, <2>1, <2>2, <2>3, <2>4, <2>5, <2>6, <2>7 DEF AtEffect, ReceiptInForce, MarkerOnRecord
  <1>8. CASE q = p /\ AppendEffect(p) /\ op[p].next = 1 /\ Len(op[p].effects) = 2
    <2> DEFINE f == op[p].effects[1]
               e == Stamp(f, op[p].intent)
    <2>1. /\ pc[p] = "effect" /\ op[p].cmd # "none" /\ 1 \in 1..Len(op[p].effects)
      BY <1>8 DEF AppendEffect, BaseInv, ControlInv, Working
    <2>2. op'[p].next = 2 /\ op'[p].intent = op[p].intent /\ op'[p].cmd = op[p].cmd
      <3>1. PICK w : op' = [op EXCEPT ![p].next = op[p].next + 1, ![p].wrote = w]
        BY <1>8 DEF AppendEffect
      <3> QED
        BY <1>1, <1>8, <3>1 DEF OpType
    <2>3. /\ op[p].cmd = "ingest" => f = Effect("receipt", op[p].intent.val, None, 0)
          /\ op[p].cmd = "confirm" => f = Effect("marker", op[p].intent.val, None, 0)
      BY <1>1, <1>8, <2>1, EffectShapes
    <2>4. /\ op[p].cmd = "ingest" => f.kind = "receipt" /\ f.val = op[p].intent.val
          /\ op[p].cmd = "confirm" => f.kind = "marker" /\ f.val = op[p].intent.val
      BY <2>3, EffectFields
    <2>5. f \in Event
      BY <1>1, <1>8, <2>1, PlannedLengths
    <2> HIDE DEF f
    <2>6. e \in Event /\ e.kind = f.kind /\ e.val = f.val
      BY <1>1, <1>8, <2>5, StampType
    <2> HIDE DEF e
    <2>7. CASE DuplicateEffect(op[p])
      <3>1. UNCHANGED journal
        BY <1>8, <2>7 DEF AppendEffect
      <3>2. PICK i \in Positions : Payload(journal[i]) = f /\ (op[p].current => i = op[p].last)
        BY <1>8, <2>7 DEF DuplicateEffect, f
      <3>3. journal[i].kind = f.kind /\ journal[i].val = f.val
        BY <1>2, <3>2, PayloadFields
      <3>4. op[p].cmd = "ingest" => ReceiptInForce(p)
        <4> SUFFICES ASSUME op[p].cmd = "ingest" PROVE ReceiptInForce(p)
          OBVIOUS
        <4>1. i = LatestOf({"receipt"})
          BY <1>1, <1>8, <2>1, <3>2 DEF FirstEffectInv, AtEffect, WellPlanned
        <4> QED
          BY <1>2, <2>4, <3>3, <4>1 DEF ReceiptInForce
      <3>5. op[p].cmd = "confirm" => MarkerOnRecord(p)
        BY <2>4, <3>3 DEF MarkerOnRecord, Of
      <3> QED
        BY <1>8, <2>2, <3>1, <3>4, <3>5 DEF AtEffect, ReceiptInForce, MarkerOnRecord, LatestOf, Of, Positions
    <2>8. CASE ~DuplicateEffect(op[p])
      <3>1. journal' = Append(journal, e)
        BY <1>8, <2>8 DEF AppendEffect, e, f
      <3>2. /\ journal'[Len(journal) + 1] = e /\ Len(journal) + 1 \in Positions'
            /\ Len(journal) + 1 # 0
        BY <1>1, <2>6, <3>1, Appended
      <3>3. op[p].cmd = "ingest" => LatestOf({"receipt"})' = Len(journal) + 1
        BY <1>1, <2>4, <2>6, <3>1, AppendedLatest
      <3>4. op[p].cmd = "confirm" => Len(journal) + 1 \in Of({"marker"})'
        BY <2>4, <2>6, <3>2 DEF Of
      <3> QED
        BY <1>8, <2>2, <2>4, <2>6, <3>2, <3>3, <3>4 DEF AtEffect, ReceiptInForce, MarkerOnRecord
    <2> QED
      BY <2>7, <2>8
  <1> QED
    BY <1>5, <1>6, <1>7, <1>8, AtItsEffects

RevisionsInOrder ==
    \A i \in Of({"revision"}) :
        LET r == Latest({k \in Of({"receipt"}) : k < i})
        IN  r # 0 /\ journal[r].val = journal[i].val
AcceptsInOrder ==
    \A i \in Of({"accept"}) : \E k \in Of({"marker"}) : k < i /\ journal[k].val = journal[i].val
AcceptsOnce ==
    \A i, j \in Of({"accept"}) : journal[i].ref = journal[j].ref => i = j

(* Who records a decision, or activates a revision. *)
LEMMA WhoAdds ==
    ASSUME BaseInv, NEW p \in Processes, NEW e \in Event, Adds(p, e)
    PROVE  /\ e.kind = "revision" =>
                 AtEffect(p, "ingest", 2) /\ e.val = op[p].intent.val
           /\ e.kind = "accept" =>
                 /\ AtEffect(p, "confirm", 2) /\ AppendEffect(p) /\ ~DuplicateEffect(op[p])
                 /\ e.val = op[p].intent.val /\ e.ref = op[p].intent.ref
                 /\ Payload(e) = op[p].effects[2]
  <1>1. op[p] \in OpType /\ WellPlanned(op[p]) /\ op[p].intent \in Intents
    BY DEF BaseInv, TypeInv, OpType
  <1>2. CASE AddsIntent(p, e) \/ AddsAnchor(p, e) \/ AddsAct(p, e)
    BY <1>2 DEF AddsIntent, AddsAnchor, AddsAct, Stamp, Effect
  <1>3. CASE AddsEffect(p, e)
    <2> DEFINE n == op[p].next
               f == op[p].effects[n]
    <2>1. /\ pc[p] = "effect" /\ op[p].cmd # "none" /\ n \in 1..Len(op[p].effects)
          /\ AppendEffect(p) /\ ~DuplicateEffect(op[p]) /\ e = Stamp(f, op[p].intent)
      BY <1>3 DEF AddsEffect, AppendEffect, BaseInv, ControlInv, Working
    <2>2. f \in Event /\ f.by = None
      BY <1>1, <2>1, PlannedLengths
    <2>3. e.kind = f.kind /\ e.val = f.val /\ e.ref = f.ref /\ Payload(e) = f
      BY <1>1, <2>1, <2>2, StampType
    <2>4. n \in 1..2
      BY <1>1, <2>1, PlannedLengths
    <2>5. /\ f.kind = "revision" => op[p].cmd = "ingest" /\ n = 2 /\ f.val = op[p].intent.val
          /\ f.kind = "accept" => /\ op[p].cmd = "confirm" /\ n = 2 /\ f.val = op[p].intent.val
                                  /\ f.ref = op[p].intent.ref
      <3>1. n = 1 \/ n = 2
        BY <2>4
      <3> HIDE DEF n
      <3>2. CASE op[p].cmd \in {"register", "retire", "prepare"}
        BY <1>1, <2>1, <3>2, EffectShapes, EffectFields
      <3>3. CASE op[p].cmd = "ingest"
        BY <1>1, <2>1, <3>1, <3>3, EffectShapes, EffectFields
      <3>4. CASE op[p].cmd = "fulltext"
        BY <1>1, <2>1, <3>1, <3>4, EffectShapes, EffectFields
      <3>5. CASE op[p].cmd = "confirm"
        BY <1>1, <2>1, <3>1, <3>5, EffectShapes, EffectFields
      <3> QED
        BY <1>1, <2>1, <3>2, <3>3, <3>4, <3>5 DEF OpType, Commands
    <2> QED
      BY <2>1, <2>3, <2>5 DEF AtEffect
  <1> QED
    BY <1>2, <1>3 DEF Adds

LEMMA RevisionsStep ==
    ASSUME BaseInv, FirstEffectInv, RevisionsInOrder, NEW p \in Processes, Moves(p)
    PROVE  RevisionsInOrder'
  <1>1. journal \in Seq(Event) /\ \A K : Of(K) \subseteq Positions
    BY DEF BaseInv, TypeInv, Of
  <1>2. CASE UNCHANGED journal
    BY <1>2 DEF RevisionsInOrder, Of, Positions
  <1>3. CASE \E e \in Event : journal' = Append(journal, e) /\ Adds(p, e)
    <2>1. PICK e \in Event : journal' = Append(journal, e) /\ Adds(p, e)
      BY <1>3
    <2> DEFINE n == Len(journal) + 1
               Before(i) == {k \in Of({"receipt"}) : k < i}
    <2>2. /\ n \in Nat /\ Positions = 1..(n - 1) /\ n \notin Positions
          /\ \A i \in Positions : journal'[i] = journal[i]
          /\ journal'[n] = e
      BY <1>1, <2>1, Appended
    <2>3. Of({"receipt"})' \in {Of({"receipt"}), Of({"receipt"}) \cup {n}}
      BY <1>1, <2>1, AppendedOf
    <2>4. \A i \in 1..n : Before(i)' = Before(i)
      <3> HIDE DEF n
      <3> SUFFICES ASSUME NEW i \in 1..n PROVE Before(i)' = Before(i)
        OBVIOUS
      <3>1. Before(i)' = {k \in Of({"receipt"})' : k < i}
        OBVIOUS
      <3>2. ~(n < i)
        BY <2>2
      <3> QED
        BY <2>3, <3>1, <3>2
    <2>5. \A i \in 1..n : Latest(Before(i)) \in Before(i) \cup {0}
      <3>1. \A i \in 1..n : Before(i) \in SUBSET (1..(n - 1)) /\ n - 1 \in Nat
        BY <1>1, <2>2
      <3> HIDE DEF Before, n
      <3> QED
        BY <3>1, LatestIsGreatest
    <2>6. \A i \in 1..n : Latest(Before(i)) # 0 => journal'[Latest(Before(i))] = journal[Latest(Before(i))]
      BY <1>1, <2>2, <2>5
    <2>7. \A i \in Of({"revision"}) :
             Latest(Before(i)) # 0 /\ journal[Latest(Before(i))].val = journal[i].val
      BY DEF RevisionsInOrder
    <2>8. \A i \in Of({"revision"}) : i \in 1..n /\ journal'[i] = journal[i]
      BY <1>1, <2>2
    <2>9. e.kind = "revision" => Latest(Before(n)) # 0 /\ journal[Latest(Before(n))].val = e.val
      <3> SUFFICES ASSUME e.kind = "revision"
                   PROVE  Latest(Before(n)) # 0 /\ journal[Latest(Before(n))].val = e.val
        OBVIOUS
      <3>1. ReceiptInForce(p) /\ e.val = op[p].intent.val
        BY <2>1, WhoAdds DEF FirstEffectInv
      <3>2. Before(n) = Of({"receipt"})
        BY <1>1, <2>2
      <3> QED
        BY <3>1, <3>2 DEF ReceiptInForce, LatestOf
    <2>10. Of({"revision"})' = IF e.kind = "revision" THEN Of({"revision"}) \cup {n} ELSE Of({"revision"})
      BY <1>1, <2>1, AppendedOf
    <2>11. n \in 1..n
      BY <1>1, <2>1, Appended
    <2> HIDE DEF n
    <2>12. SUFFICES ASSUME NEW i \in Of({"revision"})'
                    PROVE  Latest(Before(i)') # 0 /\ journal'[Latest(Before(i)')].val = journal'[i].val
      BY DEF RevisionsInOrder
    <2> HIDE DEF Before
    <2>13. CASE i \in Of({"revision"})
      BY <2>4, <2>6, <2>7, <2>8, <2>13
    <2>14. CASE i = n /\ e.kind = "revision"
      BY <2>2, <2>4, <2>6, <2>9, <2>11, <2>14
    <2> QED
      BY <2>10, <2>13, <2>14
  <1> QED
    BY <1>2, <1>3, JournalGrows

LEMMA AcceptsStep ==
    ASSUME BaseInv, FirstEffectInv, AcceptsInOrder, NEW p \in Processes, Moves(p)
    PROVE  AcceptsInOrder'
  <1>1. journal \in Seq(Event) /\ \A K : Of(K) \subseteq Positions
    BY DEF BaseInv, TypeInv, Of
  <1>2. CASE UNCHANGED journal
    BY <1>2 DEF AcceptsInOrder, Of, Positions
  <1>3. CASE \E e \in Event : journal' = Append(journal, e) /\ Adds(p, e)
    <2>1. PICK e \in Event : journal' = Append(journal, e) /\ Adds(p, e)
      BY <1>3
    <2> DEFINE n == Len(journal) + 1
    <2>2. /\ n \in Nat /\ Positions = 1..(n - 1)
          /\ \A i \in Positions : journal'[i] = journal[i]
          /\ journal'[n] = e
      BY <1>1, <2>1, Appended
    <2>3. Of({"marker"}) \subseteq Of({"marker"})'
      BY EventsStay
    <2>4. Of({"accept"})' = IF e.kind = "accept" THEN Of({"accept"}) \cup {n} ELSE Of({"accept"})
      BY <1>1, <2>1, AppendedOf
    <2> HIDE DEF n
    <2>5. SUFFICES ASSUME NEW i \in Of({"accept"})'
                   PROVE  \E k \in Of({"marker"})' : k < i /\ journal'[k].val = journal'[i].val
      BY DEF AcceptsInOrder
    <2>6. CASE i \in Of({"accept"})
      <3>1. PICK k \in Of({"marker"}) : k < i /\ journal[k].val = journal[i].val
        BY <2>6 DEF AcceptsInOrder
      <3>2. journal'[k] = journal[k] /\ journal'[i] = journal[i]
        BY <1>1, <2>2, <2>6
      <3> QED
        BY <2>3, <3>1, <3>2
    <2>7. CASE i = n /\ e.kind = "accept"
      <3>1. MarkerOnRecord(p) /\ e.val = op[p].intent.val
        BY <2>1, <2>7, WhoAdds DEF FirstEffectInv
      <3>2. PICK k \in Of({"marker"}) : journal[k].val = e.val
        BY <3>1 DEF MarkerOnRecord
      <3>3. journal'[k] = journal[k] /\ k < n
        BY <1>1, <2>2
      <3> QED
        BY <2>2, <2>3, <2>7, <3>2, <3>3
    <2> QED
      BY <2>4, <2>6, <2>7
  <1> QED
    BY <1>2, <1>3, JournalGrows

(* Every activation id drawn belongs to one plan, and a decision under it  *)
(* is that plan's.                                                         *)
TicketsInv ==
    /\ \A p \in Processes : op[p].cmd = "confirm" => op[p].intent.ref <= activations
    /\ \A p, q \in Processes :
          p # q /\ op[p].cmd = "confirm" /\ op[q].cmd = "confirm" =>
              op[p].intent.ref # op[q].intent.ref
    /\ \A i \in Of({"accept"}) : journal[i].ref <= activations
    /\ \A i \in Of({"accept"}), p \in Processes :
          op[p].cmd = "confirm" /\ journal[i].ref = op[p].intent.ref =>
              Payload(journal[i]) = op[p].effects[2]

LEMMA TicketsDrawn ==
    ASSUME BaseInv, TicketsInv, NEW p \in Processes, Plans(p)
    PROVE  TicketsInv'
  <1>1. PICK item \in Items, o \in OpType :
            /\ Plan(p, item, o)
            /\ activations' = IF o.cmd = "confirm" THEN activations + 1 ELSE activations
            /\ o.cmd = "confirm" => o.intent.ref = activations'
    BY DEF Plans
  <1>2. /\ op \in [Processes -> OpType] /\ activations \in Nat
        /\ \A i \in Of({"accept"}) : journal[i].ref \in Nat
        /\ \A q \in Processes : op[q].intent.ref \in Nat
    <2>1. journal \in Seq(Event) /\ \A q \in Processes : op[q] \in OpType
      BY DEF BaseInv, TypeInv
    <2>2. \A i \in Of({"accept"}) : journal[i] \in Event
      BY <2>1, LookupTypes DEF Of
    <2> QED
      BY <2>1, <2>2 DEF BaseInv, TypeInv, OpType, Event, Intents
  <1>3. /\ op' = [op EXCEPT ![p] = o] /\ UNCHANGED journal
    BY <1>1 DEF Plan
  <1>4. Of({"accept"})' = Of({"accept"}) /\ \A i \in Of({"accept"}) : journal'[i] = journal[i]
    BY <1>3 DEF Of, Positions
  <1>5. op'[p] = o /\ \A q \in Processes \ {p} : op'[q] = op[q]
    BY <1>2, <1>3
  <1>6. activations <= activations'
    BY <1>1, <1>2
  <1>7. \A q \in Processes \ {p} :
            op'[p].cmd = "confirm" /\ op'[q].cmd = "confirm" => op'[p].intent.ref # op'[q].intent.ref
    BY <1>1, <1>2, <1>5 DEF TicketsInv
  <1>8. \A i \in Of({"accept"}) : op'[p].cmd = "confirm" => journal[i].ref # op'[p].intent.ref
    BY <1>1, <1>2, <1>5 DEF TicketsInv
  <1>9. /\ \A q \in Processes : op'[q].cmd = "confirm" => op'[q].intent.ref <= activations'
        /\ \A i \in Of({"accept"}) : journal[i].ref <= activations'
    <2>1. activations' \in Nat
      BY <1>1, <1>2
    <2> QED
      BY <1>1, <1>2, <1>5, <1>6, <2>1 DEF TicketsInv
  <1>10. \A q, r \in Processes :
            q # r /\ op'[q].cmd = "confirm" /\ op'[r].cmd = "confirm" =>
                op'[q].intent.ref # op'[r].intent.ref
    BY <1>5, <1>7 DEF TicketsInv
  <1>11. \A i \in Of({"accept"}), q \in Processes :
            op'[q].cmd = "confirm" /\ journal[i].ref = op'[q].intent.ref =>
                Payload(journal[i]) = op'[q].effects[2]
    BY <1>5, <1>8 DEF TicketsInv
  <1> QED
    BY <1>4, <1>9, <1>10, <1>11 DEF TicketsInv

LEMMA ActivationsStay ==
    ASSUME NEW p \in Processes, Moves(p)
    PROVE  Plans(p) \/ UNCHANGED activations
  BY DEF Moves, Checks, Enters, Leaves, Anchor, Acts, Stops

(* Once planned, an operation to confirm keeps its id; the others draw none. *)
LEMMA TicketsKept ==
    ASSUME BaseInv, NEW p \in Processes, Moves(p), ~Plans(p)
    PROVE  \A q \in Processes : op'[q].cmd = "confirm" =>
              /\ op[q].cmd = "confirm" /\ op'[q].intent = op[q].intent
              /\ op'[q].effects = op[q].effects
  <1>1. NoOperation.cmd = "none"
    BY DEF NoOperation, Operation
  <1> QED
    BY <1>1, PlansStay DEF SamePlan

LEMMA TicketsStep ==
    ASSUME BaseInv, TicketsInv, AcceptsOnce, NEW p \in Processes, Moves(p)
    PROVE  TicketsInv' /\ AcceptsOnce'
  <1>1. /\ journal \in Seq(Event) /\ \A K : Of(K) \subseteq Positions
        /\ op[p] \in OpType /\ WellPlanned(op[p])
    BY DEF BaseInv, TypeInv, Of
  <1>2. CASE Plans(p)
    <2>1. UNCHANGED journal
      BY <1>2 DEF Plans, Plan
    <2> QED
      BY <1>2, <2>1, TicketsDrawn DEF AcceptsOnce, Of, Positions
  <1>3. CASE ~Plans(p) /\ UNCHANGED journal
    <2>1. UNCHANGED activations
      BY <1>3, ActivationsStay
    <2>2. Of({"accept"})' = Of({"accept"}) /\ journal' = journal
      BY <1>3 DEF Of, Positions
    <2> QED
      BY <1>3, <2>1, <2>2, TicketsKept DEF TicketsInv, AcceptsOnce
  <1>4. CASE ~Plans(p) /\ \E e \in Event : journal' = Append(journal, e) /\ Adds(p, e)
    <2>1. PICK e \in Event : journal' = Append(journal, e) /\ Adds(p, e)
      BY <1>4
    <2> DEFINE n == Len(journal) + 1
    <2>2. /\ n \notin Positions
          /\ \A i \in Positions : journal'[i] = journal[i]
          /\ journal'[n] = e
      BY <1>1, <2>1, Appended
    <2>3. Of({"accept"})' = IF e.kind = "accept" THEN Of({"accept"}) \cup {n} ELSE Of({"accept"})
      BY <1>1, <2>1, AppendedOf
    <2> HIDE DEF n
    <2>4. \A i \in Of({"accept"}) : journal'[i] = journal[i]
      BY <1>1, <2>2
    <2>5. UNCHANGED activations
      BY <1>4, ActivationsStay
    <2>6. e.kind = "accept" =>
             /\ op[p].cmd = "confirm" /\ e.ref = op[p].intent.ref
             /\ Payload(e) = op[p].effects[2]
      BY <2>1, WhoAdds DEF AtEffect
    <2>7. e.kind = "accept" => \A i \in Of({"accept"}) : journal[i].ref # e.ref
      <3> SUFFICES ASSUME e.kind = "accept", NEW i \in Of({"accept"}), journal[i].ref = e.ref
                   PROVE  FALSE
        OBVIOUS
      <3>1. Payload(journal[i]) = op[p].effects[2]
        BY <2>6 DEF TicketsInv
      <3>2. AtEffect(p, "confirm", 2) /\ ~DuplicateEffect(op[p])
        BY <2>1, WhoAdds
      <3>3. ~op[p].renew /\ ~op[p].current
        BY <1>1, <3>2 DEF AtEffect, WellPlanned
      <3> QED
        BY <1>1, <3>1, <3>2, <3>3 DEF DuplicateEffect, AtEffect
    <2>8. AcceptsOnce'
      BY <2>2, <2>3, <2>4, <2>7 DEF AcceptsOnce
    <2>9. \A i \in Of({"accept"})' : journal'[i].ref <= activations'
      BY <2>2, <2>3, <2>4, <2>5, <2>6 DEF TicketsInv
    <2>10. /\ \A q \in Processes : op'[q].cmd = "confirm" => op'[q].intent.ref <= activations'
           /\ \A q, r \in Processes :
                q # r /\ op'[q].cmd = "confirm" /\ op'[r].cmd = "confirm" =>
                    op'[q].intent.ref # op'[r].intent.ref
      BY <1>4, <2>5, TicketsKept DEF TicketsInv
    <2>11. \A i \in Of({"accept"})', q \in Processes :
              op'[q].cmd = "confirm" /\ journal'[i].ref = op'[q].intent.ref =>
                  Payload(journal'[i]) = op'[q].effects[2]
      <3> SUFFICES ASSUME NEW i \in Of({"accept"})', NEW q \in Processes,
                          op'[q].cmd = "confirm", journal'[i].ref = op'[q].intent.ref
                   PROVE  Payload(journal'[i]) = op'[q].effects[2]
        OBVIOUS
      <3>1. /\ op[q].cmd = "confirm" /\ op'[q].intent = op[q].intent
            /\ op'[q].effects = op[q].effects
        BY <1>4, TicketsKept
      <3>2. CASE i \in Of({"accept"})
        BY <2>4, <3>1, <3>2 DEF TicketsInv
      <3>3. CASE i = n /\ e.kind = "accept"
        <4>1. q = p
          BY <2>2, <2>6, <3>1, <3>3 DEF TicketsInv
        <4> QED
          BY <2>2, <2>6, <3>1, <3>3, <4>1
      <3> QED
        BY <2>3, <3>2, <3>3
    <2> QED
      BY <2>8, <2>9, <2>10, <2>11 DEF TicketsInv
  <1> QED
    BY <1>2, <1>3, <1>4, JournalGrows

OrderInv ==
    /\ BaseInv /\ FirstEffectInv /\ TicketsInv
    /\ RevisionsInOrder /\ AcceptsInOrder /\ AcceptsOnce

LEMMA OrderInit == ConfirmationInit => OrderInv
  <1> SUFFICES ASSUME ConfirmationInit PROVE OrderInv
    OBVIOUS
  <1>1. \A K : Of(K) = {}
    BY DEF ConfirmationInit, Init, Of, Positions
  <1>2. \A p \in Processes : pc[p] = "idle" /\ op[p].cmd = "none"
    BY DEF ConfirmationInit, Init, NoOperation, Operation
  <1> QED
    BY <1>1, <1>2, BaseInit DEF OrderInv, FirstEffectInv, AtEffect, TicketsInv,
       RevisionsInOrder, AcceptsInOrder, AcceptsOnce

LEMMA OrderStep == OrderInv /\ [ConfirmationNext]_allvars => OrderInv'
  <1> SUFFICES ASSUME OrderInv, [ConfirmationNext]_allvars PROVE OrderInv'
    OBVIOUS
  <1>1. BaseInv'
    BY BaseStep DEF OrderInv
  <1>2. CASE ConfirmationNext
    <2>1. PICK p \in Processes : Moves(p)
      BY <1>2, NextMoves DEF OrderInv, BaseInv
    <2>2. FirstEffectInv'
      BY <2>1, FirstEffectStep DEF OrderInv, FirstEffectInv
    <2> QED
      BY <1>1, <2>1, <2>2, RevisionsStep, AcceptsStep, TicketsStep DEF OrderInv
  <1>3. CASE UNCHANGED allvars
    BY <1>1, <1>3 DEF allvars, vars, OrderInv, FirstEffectInv, AtEffect, ReceiptInForce,
       MarkerOnRecord, TicketsInv, RevisionsInOrder, AcceptsInOrder, AcceptsOnce,
       LatestOf, Of, Positions
  <1> QED
    BY <1>2, <1>3

(* The effects of every operation stand in the order its intent declares,  *)
(* and one activation id is decided once: however operations overlap, break *)
(* off and are handed to the writer again, a revision is activated right   *)
(* on its own receipt and a decision follows the marker it decides on      *)
(* (execute_intent and its rule for duplicates).                           *)
THEOREM EffectsStandInOrder == ConfirmationSpec => []EffectsInOrder
  <1>1. OrderInv => EffectsInOrder
    BY DEF OrderInv, EffectsInOrder, RevisionsInOrder, AcceptsInOrder, AcceptsOnce
  <1> QED
    BY <1>1, OrderInit, OrderStep, PTL DEF ConfirmationSpec

-----------------------------------------------------------------------------
(* A withdrawal is undone only while it is in effect.                      *)

UndoneInv == \A u \in Of({"undo"}) : journal[u].ref = WithdrawalAt(u - 1)

LEMMA WithdrawalStays ==
    ASSUME BaseInv, NEW e \in Event, journal' = Append(journal, e), NEW n \in 0..Len(journal)
    PROVE  WithdrawalAt(n)' = WithdrawalAt(n)
  <1>1. /\ journal \in Seq(Event) /\ Len(journal) \in Nat
        /\ Positions = 1..Len(journal) /\ Len(journal) + 1 \notin Positions
        /\ \A i \in Positions : journal'[i] = journal[i]
    BY Appended DEF BaseInv, TypeInv
  <1>2. \A K : Of(K) \subseteq Positions
    BY DEF Of
  <1>3. /\ Of({"withdraw"})' \in {Of({"withdraw"}), Of({"withdraw"}) \cup {Len(journal) + 1}}
        /\ Of({"undo"})' \in {Of({"undo"}), Of({"undo"}) \cup {Len(journal) + 1}}
    BY <1>1, AppendedOf
  <1>4. ~(Len(journal) + 1 <= n)
    BY <1>1
  <1>5. {i \in Of({"withdraw"})' : i <= n} = {i \in Of({"withdraw"}) : i <= n}
    BY <1>3, <1>4
  <1> DEFINE last == Latest({i \in Of({"withdraw"}) : i <= n})
  <1>6. (\E u \in Of({"undo"})' : last < u /\ u <= n /\ journal'[u].ref = last)
            <=> (\E u \in Of({"undo"}) : last < u /\ u <= n /\ journal[u].ref = last)
    <2> HIDE DEF last
    <2> QED
      BY <1>1, <1>2, <1>3, <1>4
  <1> QED
    BY <1>5, <1>6 DEF WithdrawalAt

LEMMA WithdrawalSame ==
    ASSUME UNCHANGED journal
    PROVE  \A n : WithdrawalAt(n)' = WithdrawalAt(n)
  <1>1. \A K : Of(K)' = Of(K)
    BY DEF Of, Positions
  <1> SUFFICES ASSUME NEW n PROVE WithdrawalAt(n)' = WithdrawalAt(n)
    OBVIOUS
  <1>2. {i \in Of({"withdraw"})' : i <= n} = {i \in Of({"withdraw"}) : i <= n}
    BY <1>1
  <1> QED
    BY <1>1, <1>2 DEF WithdrawalAt

LEMMA UndoneStep ==
    ASSUME BaseInv, UndoneInv, NEW p \in Processes, Moves(p)
    PROVE  UndoneInv'
  <1>1. journal \in Seq(Event) /\ \A K : Of(K) \subseteq Positions
    BY DEF BaseInv, TypeInv, Of
  <1>2. CASE UNCHANGED journal
    <2>1. Of({"undo"})' = Of({"undo"})
      BY <1>2 DEF Of, Positions
    <2>2. \A u : WithdrawalAt(u - 1)' = WithdrawalAt(u - 1)
      BY <1>2, WithdrawalSame
    <2> QED
      BY <1>2, <2>1, <2>2 DEF UndoneInv
  <1>3. CASE \E e \in Event : journal' = Append(journal, e) /\ Adds(p, e)
    <2>1. PICK e \in Event : journal' = Append(journal, e) /\ Adds(p, e)
      BY <1>3
    <2> DEFINE n == Len(journal) + 1
    <2>2. /\ n \in Nat /\ Len(journal) \in Nat /\ Positions = 1..Len(journal)
          /\ n - 1 = Len(journal)
          /\ \A i \in Positions : journal'[i] = journal[i]
          /\ journal'[n] = e
      BY <1>1, <2>1, Appended
    <2>3. Of({"undo"})' = IF e.kind = "undo" THEN Of({"undo"}) \cup {n} ELSE Of({"undo"})
      BY <1>1, <2>1, AppendedOf
    <2>4. e.kind = "undo" => e.ref = WithdrawalAt(Len(journal))
      <3> SUFFICES ASSUME e.kind = "undo" PROVE e.ref = WithdrawalAt(Len(journal))
        OBVIOUS
      <3>1. ~AddsIntent(p, e) /\ ~AddsAnchor(p, e)
        BY DEF AddsIntent, AddsAnchor, Stamp, Effect
      <3>2. ~AddsEffect(p, e)
        <4> SUFFICES ASSUME AddsEffect(p, e) PROVE FALSE
          OBVIOUS
        <4> DEFINE o == op[p]
        <4>1. /\ o \in OpType /\ WellPlanned(o) /\ o.intent \in Intents /\ o.cmd # "none"
              /\ o.next \in 1..Len(o.effects) /\ e = Stamp(o.effects[o.next], o.intent)
          BY DEF AddsEffect, AppendEffect, BaseInv, TypeInv, ControlInv, Working, OpType
        <4>2. o.effects[o.next] \in Event
          BY <4>1, PlannedLengths
        <4>3. o.effects[o.next].kind = "undo"
          BY <4>1, <4>2, StampType
        <4>4. o.next = 1 \/ o.next = 2
          BY <4>1, PlannedLengths
        <4> HIDE DEF o
        <4> QED
          BY <4>1, <4>3, <4>4, EffectShapes, EffectFields
      <3> QED
        BY <2>1, <3>1, <3>2 DEF Adds, AddsAct, Withdrawal
    <2>5. \A u \in 1..n : WithdrawalAt(u - 1)' = WithdrawalAt(u - 1)
      <3> SUFFICES ASSUME NEW u \in 1..n PROVE WithdrawalAt(u - 1)' = WithdrawalAt(u - 1)
        OBVIOUS
      <3>1. u - 1 \in 0..Len(journal)
        BY <2>2
      <3> QED
        BY <2>1, <3>1, WithdrawalStays
    <2>6. n \in 1..n /\ Positions \subseteq 1..n
      BY <2>2
    <2> HIDE DEF n
    <2> SUFFICES ASSUME NEW u \in Of({"undo"})' PROVE journal'[u].ref = WithdrawalAt(u - 1)'
      BY DEF UndoneInv
    <2>7. CASE u \in Of({"undo"})
      BY <1>1, <2>2, <2>5, <2>6, <2>7 DEF UndoneInv
    <2>8. CASE u = n /\ e.kind = "undo"
      BY <2>2, <2>4, <2>5, <2>6, <2>8
    <2> QED
      BY <2>3, <2>7, <2>8
  <1> QED
    BY <1>2, <1>3, JournalGrows

LEMMA UndisturbedFollows ==
    ASSUME OrderInv, UndoneInv, ConfirmedUsable
    PROVE  \E d \in Of({"accept"}) :
              /\ journal[d].val = Revision
              /\ \A i \in Of(Disturbing) : i < d
  <1> DEFINE d == DecisionAt
  <1>1. journal \in Seq(Event) /\ Len(journal) \in Nat /\ Positions = 1..Len(journal)
    BY LookupTypes DEF OrderInv, BaseInv, TypeInv, Positions
  <1>2. EffectiveDecisions \in SUBSET (1..Len(journal))
    BY <1>1 DEF EffectiveDecisions, Of
  <1>3. d \in Nat /\ d \in EffectiveDecisions /\ \A i \in EffectiveDecisions : i <= d
    BY <1>1, <1>2, LatestIsGreatest DEF ConfirmedUsable, Accepted, DecisionAt
  <1>4. d \in Of({"accept"}) /\ journal[d].kind = "accept"
    BY <1>1, <1>2, <1>3 DEF ConfirmedUsable, Accepted, Of
  <1>5. journal[d].val = Revision /\ RevisionEpoch <= d
    BY DEF ConfirmedUsable, DecisionFresh
  <1> HIDE DEF d
  <1>6. /\ ReceiptAt # 0 /\ ReceiptAt \in Of(Receipts) /\ ReceiptAt \in Nat
    <2>1. LatestOf({"revision"}) \in Of({"revision"})
      BY <1>1, LookupTypes DEF ConfirmedUsable, RevisionUsable, Revision, ValueAt
    <2> DEFINE S == {k \in Of({"receipt"}) : k < LatestOf({"revision"})}
    <2>2. Latest(S) # 0
      BY <2>1 DEF OrderInv, RevisionsInOrder
    <2>3. S \in SUBSET (1..Len(journal))
      BY <1>1 DEF Of
    <2>4. S # {}
      <3> HIDE DEF S
      <3> QED
        BY <1>1, <2>2, <2>3, LatestIsGreatest
    <2>5. Of(Receipts) # {}
      BY <2>4 DEF Of, Receipts
    <2> QED
      BY <1>1, <2>5, LookupTypes DEF ReceiptAt
  <1>7. ReceiptAt <= RevisionEpoch /\ RevisionEpoch \in Nat
    BY <1>1, <1>6, LookupTypes DEF RevisionEpoch, Of, Receipts
  <1>8. \A i \in Of({"revision"} \cup Receipts) : i \in Nat /\ i <= RevisionEpoch
    BY <1>1, LookupTypes DEF RevisionEpoch
  <1>9. \A i \in Of({InputKind}) : i \in Nat /\ i <= InputAt
    <2>1. \A i \in Of({"prepared"}) : i \in Nat /\ i <= LatestOf({"prepared"})
      BY <1>1, LookupTypes
    <2>2. \A i \in Of({"fulltext"}) : i \in Nat /\ i <= LatestOf({"fulltext"})
      BY <1>1, LookupTypes
    <2> QED
      BY <2>1, <2>2 DEF InputKind, InputAt
  <1>10. InputAt < ReceiptAt /\ InputAt \in Nat
    <2>1. LatestOf({"prepared"}) \in Nat /\ LatestOf({"fulltext"}) \in Nat
      BY <1>1, LookupTypes
    <2> QED
      BY <1>6, <2>1 DEF ConfirmedUsable, RevisionUsable, RevisionFresh, InputAt, InputKind
  <1> SUFFICES ASSUME NEW i \in Of(Disturbing) PROVE i < d
    BY <1>4, <1>5
  <1>11. i \in Nat /\ i \in Positions /\ journal[i].kind \in Disturbing
    BY <1>1 DEF Of
  <1>12. CASE journal[i].kind \in {"revision"} \cup Receipts
    <2>1. i <= d /\ i \in Nat
      BY <1>3, <1>5, <1>7, <1>8, <1>11, <1>12 DEF Of
    <2>2. i # d
      BY <1>4, <1>12 DEF Receipts
    <2> QED
      BY <1>3, <2>1, <2>2
  <1>13. CASE journal[i].kind = InputKind
    BY <1>3, <1>5, <1>6, <1>7, <1>9, <1>10, <1>11, <1>13 DEF Of
  <1>14. CASE journal[i].kind \in {"withdraw", "undo"}
    <2>1. i \in EffectiveDecisions
      BY <1>11, <1>14 DEF EffectiveDecisions, Of, Verdicts, UndoneInv
    <2>2. i # d
      BY <1>4, <1>14
    <2> QED
      BY <1>3, <1>11, <2>1, <2>2
  <1> QED
    BY <1>11, <1>12, <1>13, <1>14 DEF Disturbing

(* A confirmation is usable only on the strength of a decision on exactly  *)
(* the current revision, made after everything that could have changed it: *)
(* whatever journal the writers, broken off and repeated, leave behind,    *)
(* replay never counts an older decision (replay, freshness).              *)
THEOREM UsableIsUndisturbed == ConfirmationSpec => []UsableMeansUndisturbed
  <1>1. ConfirmationInit => UndoneInv
    BY DEF ConfirmationInit, Init, UndoneInv, Of, Positions
  <1>2. OrderInv /\ UndoneInv /\ [ConfirmationNext]_allvars => UndoneInv'
    <2> SUFFICES ASSUME OrderInv, UndoneInv, [ConfirmationNext]_allvars PROVE UndoneInv'
      OBVIOUS
    <2>1. CASE ConfirmationNext
      BY <2>1, NextMoves, UndoneStep DEF OrderInv, BaseInv
    <2>2. CASE UNCHANGED allvars
      <3>1. UNCHANGED journal
        BY <2>2 DEF allvars, vars
      <3>2. Of({"undo"})' = Of({"undo"}) /\ \A u : WithdrawalAt(u - 1)' = WithdrawalAt(u - 1)
        BY <3>1, WithdrawalSame DEF Of, Positions
      <3> QED
        BY <3>1, <3>2 DEF UndoneInv
    <2> QED
      BY <2>1, <2>2
  <1>3. OrderInv /\ UndoneInv => UsableMeansUndisturbed
    BY UndisturbedFollows DEF UsableMeansUndisturbed
  <1> QED
    BY <1>1, <1>2, <1>3, OrderInit, OrderStep, PTL DEF ConfirmationSpec

-----------------------------------------------------------------------------
(* A decision is recorded only on what its preview was built from.         *)

Deciding == {"objects", "intent", "latest", "effect"}

Standing(q) ==
    LET o == op[q]
    IN  /\ Active(o.intent.who)
        /\ StateOf(o.intent.who) = o.seen.actor
        /\ o.seen.humans # None => HumanEvents = o.seen.humans
        /\ LatestOf({"revision"}) = o.seen.revision

(* Nothing but its own marker has come in between, or its own decision is  *)
(* on record already.                                                      *)
OnlyItself(q) ==
    LET o == op[q]
    IN  /\ LatestOf(Verdicts) = o.seen.confirmation[2]
        /\ \A i \in Of({"marker"}) : i > o.seen.confirmation[1] => journal[i].by = o.intent
DecidedBefore(q) == \E i \in Positions : Payload(journal[i]) = op[q].effects[2]

SeenInv ==
    \A q \in Processes :
        op[q].cmd = "confirm" /\ pc[q] \in Deciding =>
            Standing(q) /\ (OnlyItself(q) \/ DecidedBefore(q))

LEMMA StandingStays ==
    ASSUME BaseInv, NEW q \in Processes, SamePlan(op[q], op'[q]),
           \/ UNCHANGED journal
           \/ \E e \in Event : /\ journal' = Append(journal, e)
                               /\ e.kind \in {"anchor", "intent", "marker"}
                               /\ e.kind = "marker" => e.by = op[q].intent
    PROVE  /\ Standing(q) => Standing(q)'
           /\ OnlyItself(q) => OnlyItself(q)'
           /\ DecidedBefore(q) => DecidedBefore(q)'
  <1>1. journal \in Seq(Event) /\ \A K : Of(K) \subseteq Positions
    BY DEF BaseInv, TypeInv, Of
  <1>2. Positions \subseteq Positions' /\ \A i \in Positions : journal'[i] = journal[i]
    BY <1>1, Appended DEF Positions
  <1>3. \A K : K \cap {"anchor", "intent", "marker"} = {} => Of(K)' = Of(K) /\ LatestOf(K)' = LatestOf(K)
    <2> SUFFICES ASSUME NEW K, K \cap {"anchor", "intent", "marker"} = {}
                 PROVE  Of(K)' = Of(K)
      BY DEF LatestOf
    <2>1. CASE UNCHANGED journal
      BY <2>1 DEF Of, Positions
    <2> QED
      BY <1>1, <2>1, AppendedOf
  <1>4. \A c : Registrations(c)' = Registrations(c) /\ Retirements(c)' = Retirements(c)
    <2>1. Of({"registered"})' = Of({"registered"}) /\ Of({"retired"})' = Of({"retired"})
      BY <1>3
    <2> QED
      BY <1>1, <1>2, <2>1 DEF Registrations, Retirements
  <1>5. HumanEvents' = HumanEvents
    BY <1>3 DEF HumanEvents
  <1>6. Standing(q) => Standing(q)'
    <2>1. LatestOf({"revision"})' = LatestOf({"revision"})
      BY <1>3
    <2>2. \A c : (Active(c)' <=> Active(c)) /\ StateOf(c)' = StateOf(c)
      BY <1>4 DEF Active, Known, Retired, StateOf
    <2> QED
      BY <1>5, <2>1, <2>2 DEF Standing, SamePlan
  <1>7. OnlyItself(q) => OnlyItself(q)'
    <2>1. LatestOf(Verdicts)' = LatestOf(Verdicts)
      BY <1>3 DEF Verdicts
    <2>2. \A i \in Of({"marker"})' : i \in Of({"marker"}) \/ journal'[i].by = op[q].intent
      <3>1. CASE UNCHANGED journal
        BY <3>1 DEF Of, Positions
      <3>2. CASE \E e \in Event : journal' = Append(journal, e) /\ (e.kind = "marker" => e.by = op[q].intent)
        <4>1. PICK e \in Event : journal' = Append(journal, e) /\ (e.kind = "marker" => e.by = op[q].intent)
          BY <3>2
        <4>2. Of({"marker"})' = IF e.kind = "marker" THEN Of({"marker"}) \cup {Len(journal) + 1}
                                ELSE Of({"marker"})
          BY <1>1, <4>1, AppendedOf
        <4>3. journal'[Len(journal) + 1] = e
          BY <1>1, <4>1, Appended
        <4> QED
          BY <4>1, <4>2, <4>3
      <3> QED
        BY <3>1, <3>2
    <2> QED
      BY <1>1, <1>2, <2>1, <2>2 DEF OnlyItself, SamePlan
  <1>8. DecidedBefore(q) => DecidedBefore(q)'
    BY <1>2 DEF DecidedBefore, SamePlan
  <1> QED
    BY <1>6, <1>7, <1>8

LEMMA EnterSees ==
    ASSUME BaseInv, NEW q \in Processes, op[q].cmd = "confirm", Enters(q), pc'[q] = "objects"
    PROVE  Standing(q) /\ (OnlyItself(q) \/ DecidedBefore(q))
  <1>1. Refusal(op[q]) = None
    <2>1. pc[q] = "enter" /\ pc \in [Processes -> Controls]
      BY DEF Enters, Enter, BaseInv, TypeInv
    <2> QED
      BY <2>1 DEF Enters, Enter, End, Goto
  <1>2. ~Stale(op[q])
    BY <1>1, ProcessesAssumption DEF Refusal, Reports
  <1>3. journal \in Seq(Event) /\ LatestOf(Verdicts) \in Of(Verdicts) \cup {0}
    BY LookupTypes DEF BaseInv, TypeInv
  <1>4. Standing(q)
    BY <1>2 DEF Stale, Standing
  <1>5. CASE <<LatestOf({"marker"}), LatestOf(Verdicts)>> = op[q].seen.confirmation
    <2>1. /\ op[q].seen.confirmation[1] = LatestOf({"marker"})
          /\ op[q].seen.confirmation[2] = LatestOf(Verdicts)
      BY <1>5
    <2>2. \A i \in Of({"marker"}) : i \in Nat /\ LatestOf({"marker"}) \in Nat /\ i <= LatestOf({"marker"})
      BY <1>3, LookupTypes
    <2>3. OnlyItself(q)
      BY <2>1, <2>2 DEF OnlyItself
    <2> QED
      BY <1>4, <2>3
  <1>6. CASE OwnRetry(op[q])
    BY <1>3, <1>4, <1>6 DEF OwnRetry, DecidedBefore, Of
  <1> QED
    BY <1>2, <1>5, <1>6 DEF Stale

LEMMA SeenStep ==
    ASSUME BaseInv, SeenInv, NEW p \in Processes, Moves(p), NEW q \in Processes,
           op'[q].cmd = "confirm", pc'[q] \in Deciding
    PROVE  Standing(q)' /\ (OnlyItself(q)' \/ DecidedBefore(q)')
  <1>1. pc \in [Processes -> Controls] /\ op[q] \in OpType /\ WellPlanned(op[q]) /\ op[q].intent \in Intents
    BY DEF BaseInv, TypeInv, OpType
  <1> USE DEF Goto, End
  <1>2. SamePlan(op[q], op'[q])
    <2>1. CASE q = p /\ (Plans(p) \/ Stops(p))
      BY <1>1, <2>1 DEF Plans, Plan, Stops, Deciding
    <2>2. op'[q] # NoOperation
      BY DEF NoOperation, Operation
    <2> QED
      BY <2>1, <2>2, PlansStay
  <1>3. op[q].cmd = "confirm"
    BY <1>2 DEF SamePlan
  <1>4. CASE q # p
    <2>1. pc[q] = pc'[q]
      BY <1>4, OthersStay
    <2>2. pc[q] \in Inside
      BY <2>1 DEF Deciding, Inside
    <2>3. UNCHANGED journal \/ \E e \in Event : journal' = Append(journal, e) /\ e.kind = "anchor"
      BY <1>4, <2>2, JournalGrows, LockExcludes
    <2> QED
      BY <1>2, <1>3, <2>1, <2>3, StandingStays DEF SeenInv
  <1>5. CASE q = p /\ Enters(p)
    <2>1. pc'[q] = "objects" /\ UNCHANGED journal
      BY <1>1, <1>5 DEF Enters, Enter, Deciding
    <2> QED
      BY <1>2, <1>3, <1>5, <2>1, EnterSees, StandingStays
  <1>6. CASE q = p /\ (Plans(p) \/ Checks(p) \/ Leaves(p) \/ Anchor(p) \/ Stops(p))
    BY <1>1, <1>6 DEF Plans, Plan, Checks, Leaves, Leave, Anchor, Stops, Deciding
  <1>7. CASE q = p /\ Acts(p)
    BY <1>7, ProcessesAssumption DEF Acts, BaseInv, ControlInv, Inside, Deciding
  <1>8. CASE q = p /\ (PutObjects(p) \/ ReadLatest(p))
    <2>1. pc[q] \in Deciding /\ UNCHANGED journal
      BY <1>8 DEF PutObjects, ReadLatest, Deciding
    <2> QED
      BY <1>2, <1>3, <2>1, StandingStays DEF SeenInv
  <1>9. CASE q = p /\ RecordIntent(p)
    <2>1. pc[q] \in Deciding
      BY <1>9 DEF RecordIntent, Deciding
    <2>2. UNCHANGED journal \/ \E e \in Event : journal' = Append(journal, e) /\ e.kind = "intent"
      <3> DEFINE e == Stamp(Effect("intent", None, None, 0), op[q].intent)
      <3>1. Effect("intent", None, None, 0) \in Event
        BY EffectType DEF Kinds, Values
      <3>2. e \in Event /\ e.kind = "intent"
        BY <1>1, <3>1, StampType, EffectFields
      <3> QED
        BY <1>9, <3>2 DEF RecordIntent
    <2> QED
      BY <1>2, <1>3, <2>1, <2>2, StandingStays DEF SeenInv
  <1>10. CASE q = p /\ AppendEffect(p)
    <2>1. pc[q] \in Deciding /\ pc'[q] \in {"latest", "effect"}
      BY <1>1, <1>10 DEF AppendEffect, Deciding, NextEffect
    <2>2. op[q].next = 1 /\ 1 \in 1..Len(op[q].effects)
      <3>1. PICK w : op' = [op EXCEPT ![p].next = op[p].next + 1, ![p].wrote = w]
        BY <1>10 DEF AppendEffect
      <3>2. op'[q] = [op[q] EXCEPT !.next = op[q].next + 1, !.wrote = w]
        <4>1. op \in [Processes -> OpType]
          BY DEF BaseInv, TypeInv
        <4> QED
          BY <1>10, <3>1, <4>1
      <3>3. op'[q].next = op[q].next + 1 /\ op[q].next \in Nat
        BY <1>1, <3>2 DEF OpType
      <3>4. op'[q].next # op[q].next
        BY <3>3
      <3>5. op'[q] # op[q]
        BY <3>4
      <3>6. pc[q] = "effect"
        BY <1>10 DEF AppendEffect
      <3>7. ~RecordIntent(p) /\ ~ReadLatest(p)
        BY <1>10, <3>6 DEF RecordIntent, ReadLatest
      <3>8. op[q].next = 1 /\ Len(op[q].effects) = 2
        BY <1>10, <2>1, <3>5, <3>7, AtItsEffects
      <3>9. 1 \in 1..2
        OBVIOUS
      <3> QED
        BY <3>8, <3>9
    <2> DEFINE f == op[q].effects[1]
               e == Stamp(f, op[q].intent)
    <2>3. f = Effect("marker", op[q].intent.val, None, 0)
      BY <1>1, <1>3, <2>2, EffectShapes
    <2>4. f \in Event
      BY <1>1, <1>3, <2>2, PlannedLengths
    <2>5. e \in Event /\ e.kind = "marker" /\ e.by = op[q].intent
      BY <1>1, <2>3, <2>4, StampType, EffectFields
    <2>6. UNCHANGED journal \/ journal' = Append(journal, e)
      BY <1>10, <2>2 DEF AppendEffect
    <2> QED
      BY <1>2, <1>3, <2>1, <2>5, <2>6, StandingStays DEF SeenInv
  <1> QED
    BY <1>4, <1>5, <1>6, <1>7, <1>8, <1>9, <1>10 DEF Moves, Execute

(* What a step that records a decision finds. *)
AsSeen(p) ==
    LET o == op[p]
    IN  /\ Active(o.intent.who)
        /\ StateOf(o.intent.who) = o.seen.actor
        /\ o.seen.humans # None => HumanEvents = o.seen.humans
        /\ LatestOf({"revision"}) = o.seen.revision
        /\ LatestOf(Verdicts) = o.seen.confirmation[2]
        /\ \A i \in Of({"marker"}) : i > o.seen.confirmation[1] => journal[i].by = o.intent

LEMMA DecidesAsSeen ==
    ASSUME BaseInv, SeenInv, NEW m \in Processes, Moves(m), NEW p \in Processes, DecidesNow(p)
    PROVE  AsSeen(p)
  <1>1. journal \in Seq(Event) /\ op[p] \in OpType /\ WellPlanned(op[p])
    BY DEF BaseInv, TypeInv
  <1>2. PICK e \in Event : journal' = Append(journal, e) /\ Adds(m, e)
    <2>1. journal' # journal
      BY <1>1 DEF DecidesNow
    <2> QED
      BY <2>1, JournalGrows
  <1>3. e.kind = "accept"
    BY <1>1, <1>2, Appended DEF DecidesNow
  <1>4. m = p
    BY <1>2, <1>3, LockExcludes DEF DecidesNow, Inside
  <1>5. AtEffect(p, "confirm", 2) /\ ~DuplicateEffect(op[p])
    BY <1>2, <1>3, <1>4, WhoAdds
  <1>6. ~DecidedBefore(p)
    BY <1>1, <1>5 DEF DecidedBefore, DuplicateEffect, AtEffect, WellPlanned
  <1>7. Standing(p) /\ OnlyItself(p)
    BY <1>5, <1>6 DEF SeenInv, AtEffect, Deciding
  <1> QED
    BY <1>7 DEF Standing, OnlyItself, AsSeen

LEMMA SeenKept == BaseInv /\ SeenInv /\ [ConfirmationNext]_allvars => SeenInv'
  <1> SUFFICES ASSUME BaseInv, SeenInv, [ConfirmationNext]_allvars PROVE SeenInv'
    OBVIOUS
  <1>1. CASE ConfirmationNext
    <2>1. PICK p \in Processes : Moves(p)
      BY <1>1, NextMoves DEF BaseInv
    <2> QED
      BY <2>1, SeenStep DEF SeenInv
  <1>2. CASE UNCHANGED allvars
    <2> SUFFICES ASSUME NEW q \in Processes, op'[q].cmd = "confirm", pc'[q] \in Deciding
                 PROVE  Standing(q)' /\ (OnlyItself(q)' \/ DecidedBefore(q)')
      BY DEF SeenInv
    <2>1. UNCHANGED journal /\ op' = op /\ pc' = pc
      BY <1>2 DEF allvars, vars
    <2>2. SamePlan(op[q], op'[q])
      BY <2>1 DEF SamePlan
    <2> QED
      BY <2>1, <2>2, StandingStays DEF SeenInv
  <1> QED
    BY <1>1, <1>2

(* Between the preview and the event there may be any number of plans,     *)
(* answers, failures and retries of others: a decision is recorded only    *)
(* while everything its preview was built from still stands                *)
(* (_checked_intent, under the lock, and what the lock keeps out).         *)
THEOREM DecisionsAsSeen == ConfirmationSpec => DecidedAsSeen
  <1>1. ConfirmationInit => BaseInv /\ SeenInv
    BY BaseInit DEF ConfirmationInit, Init, SeenInv, Deciding
  <1>2. BaseInv /\ SeenInv /\ [ConfirmationNext]_allvars => SeenInv'
    BY SeenKept
  <1>3. BaseInv /\ SeenInv /\ [ConfirmationNext]_allvars
           => [\A p \in Processes : DecidesNow(p) => AsSeen(p)]_allvars
    <2>1. BaseInv /\ SeenInv /\ ConfirmationNext => \A p \in Processes : DecidesNow(p) => AsSeen(p)
      BY NextMoves, DecidesAsSeen DEF BaseInv
    <2> QED
      BY <2>1
  <1>4. BaseInv /\ [ConfirmationNext]_allvars => BaseInv'
    BY BaseStep
  <1>5. ConfirmationSpec => [][\A p \in Processes : DecidesNow(p) => AsSeen(p)]_allvars
    BY <1>1, <1>2, <1>3, <1>4, PTL DEF ConfirmationSpec
  <1> QED
    BY <1>5 DEF DecidedAsSeen, AsSeen

-----------------------------------------------------------------------------
(* The register: whoever retires an id had found it registered, and no     *)
(* registration is written that repeats the payload of another.            *)

RegisterInv ==
    /\ BaseInv
    /\ \A p \in Processes :
          op[p].cmd = "retire" => \E i \in Of({"registered"}) : journal[i].who = op[p].intent.who

LEMMA RegisterAppended ==
    ASSUME journal \in Seq(Event), NEW e \in Event, journal' = Append(journal, e), NEW c
    PROVE  LET n == Len(journal) + 1
           IN  /\ Registrations(c)' = IF e.kind = "registered" /\ e.who = c
                                      THEN Registrations(c) \cup {n} ELSE Registrations(c)
               /\ Retirements(c)' = IF e.kind = "retired" /\ e.who = c
                                    THEN Retirements(c) \cup {n} ELSE Retirements(c)
               /\ \A i \in Registrations(c) \cup Retirements(c) :
                     i \in Positions /\ journal'[i] = journal[i] /\ i < n
  BY Appended, AppendedOf DEF Registrations, Retirements, Of

(* Who writes the register, and what of the journal the writer relies on. *)
LEMMA WhoRegisters ==
    ASSUME RegisterInv, NEW p \in Processes, NEW e \in Event, Adds(p, e)
    PROVE  /\ e.kind = "retired" => Known(e.who)
           /\ e.kind = "registered" =>
                 \A i \in Registrations(e.who) : Payload(journal[i]) # Payload(e)
  <1>1. op[p] \in OpType /\ WellPlanned(op[p]) /\ op[p].intent \in Intents
    BY DEF RegisterInv, BaseInv, TypeInv, OpType
  <1>2. CASE AddsIntent(p, e) \/ AddsAnchor(p, e) \/ AddsAct(p, e)
    BY <1>2 DEF AddsIntent, AddsAnchor, AddsAct, Stamp, Effect
  <1>3. CASE AddsEffect(p, e)
    <2> DEFINE n == op[p].next
               f == op[p].effects[n]
               i == op[p].intent
    <2>1. /\ op[p].cmd # "none" /\ n \in 1..Len(op[p].effects)
          /\ ~DuplicateEffect(op[p]) /\ e = Stamp(f, i)
      BY <1>3 DEF AddsEffect, AppendEffect, RegisterInv, BaseInv, ControlInv, Working
    <2>2. f \in Event /\ f.by = None /\ n \in 1..2
      BY <1>1, <2>1, PlannedLengths
    <2>3. e.kind = f.kind /\ e.val = f.val /\ e.who = f.who /\ e.ref = f.ref
      BY <1>1, <2>1, <2>2, StampType
    <2>4. /\ f.kind = "retired" => op[p].cmd = "retire" /\ f.who = i.who
          /\ f.kind = "registered" => op[p].cmd = "register"
      <3>1. n = 1 \/ n = 2
        BY <2>2
      <3>2. \A k, v, w, m : Effect(k, v, w, m).kind = k /\ Effect(k, v, w, m).who = w
        BY DEF Effect
      <3> HIDE DEF n, i
      <3> QED
        BY <1>1, <2>1, <3>1, <3>2, EffectShapes DEF i
    <2>5. e.kind = "retired" => Known(e.who)
      BY <2>3, <2>4 DEF RegisterInv, Known, Registrations
    <2>6. ASSUME e.kind = "registered", NEW k \in Registrations(e.who),
                 Payload(journal[k]) = Payload(e)
          PROVE  FALSE
      <3>1. ~op[p].renew /\ ~op[p].current
        BY <1>1, <2>3, <2>4, <2>6 DEF WellPlanned
      <3>2. Payload(e) = f /\ k \in Positions
        BY <2>1, <2>2, <2>6 DEF Payload, Stamp, Event, Registrations, Of
      <3> QED
        BY <2>1, <2>6, <3>1, <3>2 DEF DuplicateEffect
    <2> QED
      BY <2>5, <2>6
  <1> QED
    BY <1>2, <1>3 DEF Adds

LEMMA RegisterStep ==
    ASSUME RegisterInv, NEW p \in Processes, Moves(p)
    PROVE  RegisterInv'
  <1>1. BaseInv /\ journal \in Seq(Event) /\ BaseInv'
    <2>1. TypeInv' /\ ControlInv'
      BY TypeStep, ControlStep DEF RegisterInv
    <2> QED
      BY <2>1 DEF RegisterInv, BaseInv, TypeInv
  <1>2. \A i \in Of({"registered"}) : i \in Of({"registered"})' /\ journal'[i] = journal[i]
    <2>1. \A i \in Positions : journal'[i] = journal[i]
      BY <1>1, EventsStay
    <2>2. Of({"registered"}) \subseteq Of({"registered"})'
      BY <1>1, EventsStay
    <2> QED
      BY <2>1, <2>2 DEF Of
  <1>3. ASSUME NEW q \in Processes, op'[q].cmd = "retire"
        PROVE  \E i \in Of({"registered"})' : journal'[i].who = op'[q].intent.who
    <2>1. CASE Plans(p) /\ q = p
      <3>1. PICK o \in OpType : op' = [op EXCEPT ![p] = o] /\ (o.cmd = "retire" => Active(o.intent.who))
        BY <2>1 DEF Plans, Plan
      <3>2. op'[p] = o
        BY <1>1, <3>1 DEF BaseInv, TypeInv
      <3> QED
        BY <1>2, <1>3, <2>1, <3>1, <3>2 DEF Active, Known, Registrations
    <2>2. CASE op'[q] = NoOperation
      BY <1>3, <2>2 DEF NoOperation, Operation
    <2>3. CASE SamePlan(op[q], op'[q])
      BY <1>2, <1>3, <2>3 DEF SamePlan, RegisterInv
    <2> QED
      BY <1>1, <2>1, <2>2, <2>3, PlansStay
  <1> QED
    BY <1>1, <1>3 DEF RegisterInv

LEMMA RetiredStep ==
    ASSUME RegisterInv, RetiredForGood, NEW p \in Processes, Moves(p)
    PROVE  RetiredForGood'
  <1>1. BaseInv /\ journal \in Seq(Event)
    BY DEF RegisterInv, BaseInv, TypeInv
  <1>2. CASE UNCHANGED journal
    BY <1>2 DEF RetiredForGood, Registrations, Retirements, Of, Positions
  <1>3. CASE \E e \in Event : journal' = Append(journal, e) /\ Adds(p, e)
    <2>1. PICK e \in Event : journal' = Append(journal, e) /\ Adds(p, e)
      BY <1>3
    <2> DEFINE n == Len(journal) + 1
    <2> SUFFICES ASSUME NEW c \in Coders, NEW k \in Retirements(c)'
                 PROVE  /\ \E i \in Registrations(c)' : i < k
                        /\ \A i, j \in Registrations(c)' :
                              i < k /\ k < j => Payload(journal'[i]) # Payload(journal'[j])
      BY DEF RetiredForGood, Payload
    <2>2. /\ Registrations(c)' = IF e.kind = "registered" /\ e.who = c
                                 THEN Registrations(c) \cup {n} ELSE Registrations(c)
          /\ Retirements(c)' = IF e.kind = "retired" /\ e.who = c
                               THEN Retirements(c) \cup {n} ELSE Retirements(c)
          /\ \A i \in Registrations(c) \cup Retirements(c) :
                journal'[i] = journal[i] /\ i < n /\ i \in Nat
      BY <1>1, <2>1, RegisterAppended DEF Positions
    <2>3. journal'[n] = e
      BY <1>1, <2>1, Appended
    <2>4. n \in Nat
      BY <1>1
    <2> HIDE DEF n
    <2>5. CASE k = n /\ e.kind = "retired" /\ e.who = c
      <3>1. Registrations(c) # {} /\ Registrations(c)' = Registrations(c)
        BY <2>1, <2>2, <2>5, WhoRegisters DEF Known
      <3>2. \A j \in Registrations(c)' : ~(k < j)
        BY <2>2, <2>4, <2>5, <3>1
      <3> QED
        BY <2>2, <2>5, <3>1, <3>2
    <2>6. CASE k \in Retirements(c)
      <3>1. \E i \in Registrations(c)' : i < k
        BY <2>2, <2>6 DEF RetiredForGood
      <3>2. ASSUME NEW i \in Registrations(c)', NEW j \in Registrations(c)', i < k, k < j
            PROVE  Payload(journal'[i]) # Payload(journal'[j])
        <4>1. i \in Registrations(c)
          BY <2>2, <2>4, <2>6, <3>2
        <4>2. CASE j \in Registrations(c)
          BY <2>2, <2>6, <3>2, <4>1, <4>2 DEF RetiredForGood
        <4>3. CASE j = n /\ e.kind = "registered" /\ e.who = c
          BY <2>1, <2>2, <2>3, <4>1, <4>3, WhoRegisters
        <4> QED
          BY <2>2, <4>2, <4>3
      <3> QED
        BY <3>1, <3>2
    <2> QED
      BY <2>2, <2>5, <2>6
  <1> QED
    BY <1>1, <1>2, <1>3, JournalGrows

(* No repetition brings a retired id back: whatever registry acts overlap, *)
(* are checked before the workspace lock and written under it, an id is    *)
(* retired only after it was bound, and a registration that follows its    *)
(* retirement has a binding or a reference that no registration before the *)
(* retirement has (instance_registry.py write_instance_plan,               *)
(* operation_recovery.py execute_intent, domain/instance.py                *)
(* InstanceRegistry).                                                      *)
THEOREM RetiredStaysRetired == ConfirmationSpec => []RetiredForGood
  <1>1. ConfirmationInit => RegisterInv /\ RetiredForGood
    <2> SUFFICES ASSUME ConfirmationInit PROVE RegisterInv /\ RetiredForGood
      OBVIOUS
    <2>1. \A K : Of(K) = {}
      BY DEF ConfirmationInit, Init, Of, Positions
    <2>2. \A p \in Processes : op[p].cmd = "none"
      BY DEF ConfirmationInit, Init, NoOperation, Operation
    <2> QED
      BY <2>1, <2>2, BaseInit DEF RegisterInv, RetiredForGood, Retirements
  <1>2. RegisterInv /\ RetiredForGood /\ [ConfirmationNext]_allvars => (RegisterInv /\ RetiredForGood)'
    <2> SUFFICES ASSUME RegisterInv, RetiredForGood, [ConfirmationNext]_allvars
                 PROVE  RegisterInv' /\ RetiredForGood'
      OBVIOUS
    <2>1. CASE ConfirmationNext
      BY <2>1, NextMoves, RegisterStep, RetiredStep DEF RegisterInv, BaseInv
    <2>2. CASE UNCHANGED allvars
      <3>1. BaseInv'
        BY <2>2, BaseStep DEF RegisterInv
      <3> QED
        BY <2>2, <3>1 DEF allvars, vars, RegisterInv, RetiredForGood, Known, Registrations,
           Retirements, Payload, Of, Positions
    <2> QED
      BY <2>1, <2>2
  <1> QED
    BY <1>1, <1>2, PTL DEF ConfirmationSpec

-----------------------------------------------------------------------------
(* A confirmation that was reported as written is in effect.               *)

(* A decision is on the revision that was activated last before it. *)
DecidesLatest(i) ==
    \E r \in Of({"revision"}) :
        /\ r < i /\ journal[r].val = journal[i].val
        /\ \A k \in Of({"revision"}) : k < i => k <= r

(* A preview names its revision event, every decision is on the revision   *)
(* of its time, and what was reported stands on binding evidence.          *)
PreviewInv == \A q \in Processes : op[q].cmd = "confirm" => SeesItsRevision(op[q])
DecisionsInv == \A i \in Of({"accept"}) : DecidesLatest(i)
ReportedInv ==
    /\ report \in [Processes -> Reports]
    /\ \A q \in Processes : Confirmed(q) => Of({"anchor"}) # {}

LEMMA PreviewStep ==
    ASSUME BaseInv, PreviewInv, NEW p \in Processes, Moves(p)
    PROVE  PreviewInv'
  <1> SUFFICES ASSUME NEW q \in Processes, op'[q].cmd = "confirm"
               PROVE  SeesItsRevision(op[q])'
    BY DEF PreviewInv
  <1>1. journal \in Seq(Event) /\ \A K : Of(K) \subseteq Positions
    BY DEF BaseInv, TypeInv, Of
  <1>2. \A o : SeesItsRevision(o) => /\ o.seen.revision \in Of({"revision"})'
                                     /\ journal'[o.seen.revision].val = o.intent.val
    BY <1>1, EventsStay DEF SeesItsRevision
  <1>3. SeesItsRevision(op'[q])
    <2>1. CASE Plans(p) /\ q = p
      <3>1. PICK item \in Items, o \in OpType :
                Plan(p, item, o) /\ (o.cmd = "confirm" => SeesItsRevision(o))
        BY <2>1 DEF Plans
      <3>2. op'[q] = o
        BY <2>1, <3>1 DEF Plan, BaseInv, TypeInv
      <3> QED
        BY <3>1, <3>2
    <2>2. CASE SamePlan(op[q], op'[q])
      BY <2>2 DEF SamePlan, PreviewInv, SeesItsRevision
    <2>3. op'[q] # NoOperation
      BY DEF NoOperation, Operation
    <2> QED
      BY <2>1, <2>2, <2>3, PlansStay
  <1> QED
    BY <1>2, <1>3 DEF SeesItsRevision

LEMMA DecisionsStep ==
    ASSUME BaseInv, SeenInv, PreviewInv, DecisionsInv, NEW p \in Processes, Moves(p)
    PROVE  DecisionsInv'
  <1>1. journal \in Seq(Event) /\ \A K : Of(K) \subseteq Positions
    BY DEF BaseInv, TypeInv, Of
  <1>2. CASE UNCHANGED journal
    <2>1. \A K : Of(K)' = Of(K)
      BY <1>2 DEF Of, Positions
    <2> QED
      BY <1>2, <2>1 DEF DecisionsInv, DecidesLatest
  <1>3. CASE \E e \in Event : journal' = Append(journal, e) /\ Adds(p, e)
    <2>1. PICK e \in Event : journal' = Append(journal, e) /\ Adds(p, e)
      BY <1>3
    <2> DEFINE n == Len(journal) + 1
    <2>2. /\ n \in Nat /\ Len(journal)' = n /\ Positions = 1..(n - 1)
          /\ \A i \in Positions : journal'[i] = journal[i]
          /\ journal'[n] = e
      BY <1>1, <2>1, Appended
    <2>3. /\ Of({"accept"})' = IF e.kind = "accept" THEN Of({"accept"}) \cup {n} ELSE Of({"accept"})
          /\ Of({"revision"})' = IF e.kind = "revision" THEN Of({"revision"}) \cup {n} ELSE Of({"revision"})
      BY <1>1, <2>1, AppendedOf
    <2>4. e.kind = "accept" =>
             /\ LatestOf({"revision"}) \in Of({"revision"})
             /\ journal[LatestOf({"revision"})].val = e.val
      <3> SUFFICES ASSUME e.kind = "accept"
                   PROVE  /\ LatestOf({"revision"}) \in Of({"revision"})
                          /\ journal[LatestOf({"revision"})].val = e.val
        OBVIOUS
      <3>1. /\ AtEffect(p, "confirm", 2) /\ AppendEffect(p) /\ e.val = op[p].intent.val
        BY <2>1, WhoAdds
      <3>2. DecidesNow(p)
        <4>1. pc[p] = "effect"
          BY <3>1 DEF AppendEffect
        <4>2. Len(journal') = n /\ n > Len(journal)
          BY <1>1, <2>1, Appended
        <4> HIDE DEF n
        <4> QED
          BY <2>2, <4>1, <4>2 DEF DecidesNow
      <3>3. LatestOf({"revision"}) = op[p].seen.revision
        BY <3>2, DecidesAsSeen DEF AsSeen
      <3> QED
        BY <3>1, <3>3 DEF PreviewInv, SeesItsRevision, AtEffect
    <2>5. \A i \in Of({"revision"}) : i \in Nat /\ i < n /\ i <= LatestOf({"revision"})
      BY <1>1, <2>2, LookupTypes
    <2>6. \A i \in Of({"accept"}) \cup Of({"revision"}) : i \in Nat /\ i < n /\ journal'[i] = journal[i]
      BY <1>1, <2>2
    <2> HIDE DEF n
    <2> SUFFICES ASSUME NEW i \in Of({"accept"})' PROVE DecidesLatest(i)'
      BY DEF DecisionsInv
    <2>7. CASE i \in Of({"accept"})
      <3>1. PICK r \in Of({"revision"}) :
                /\ r < i /\ journal[r].val = journal[i].val
                /\ \A k \in Of({"revision"}) : k < i => k <= r
        BY <2>7 DEF DecisionsInv, DecidesLatest
      <3>2. r \in Of({"revision"})' /\ journal'[r].val = journal'[i].val
        BY <2>3, <2>6, <2>7, <3>1
      <3>3. \A k \in Of({"revision"})' : k < i => k <= r
        BY <2>2, <2>3, <2>6, <2>7, <3>1
      <3> QED
        BY <3>1, <3>2, <3>3 DEF DecidesLatest
    <2>8. CASE i = n /\ e.kind = "accept"
      <3> DEFINE r == LatestOf({"revision"})
      <3>1. /\ r \in Of({"revision"})' /\ r < n /\ journal'[r].val = e.val
            /\ \A k \in Of({"revision"})' : k <= r
        BY <2>3, <2>4, <2>5, <2>6, <2>8
      <3> HIDE DEF r
      <3> QED
        BY <2>2, <2>8, <3>1 DEF DecidesLatest
    <2> QED
      BY <2>3, <2>7, <2>8
  <1> QED
    BY <1>2, <1>3, JournalGrows

(* Only the last step of write_confirmation reports that a confirmation    *)
(* was written or was in effect, and it leaves the evidence behind.        *)
LEMMA ReportedStep ==
    ASSUME BaseInv, ReportedInv, ConfirmationNext
    PROVE  ReportedInv'
  <1>1. PICK p \in Processes :
        \/ (PlanRegister(p) \/ PlanRetire(p)) /\ UNCHANGED activations
        \/ PlanPrepare(p) \/ PlanIngest(p) \/ PlanFulltext(p) \/ PlanConfirm(p)
        \/ Answer(p) \/ Work(p)
        \/ Withdraw(p) \/ Undo(p)
        \/ (Abort(p) \/ Kill(p) \/ Raise(p)) /\ UNCHANGED activations
    BY DEF ConfirmationNext
  <1>2. journal \in Seq(Event) /\ op \in [Processes -> OpType] /\ report \in [Processes -> Reports]
    BY DEF BaseInv, TypeInv, ReportedInv
  <1>3. Of({"anchor"}) \subseteq Of({"anchor"})'
    <2>1. PICK m \in Processes : Moves(m)
      BY NextMoves DEF BaseInv
    <2> QED
      BY <2>1, EventsStay
  <1> DEFINE Silent ==
                 \A q \in Processes :
                     \/ report'[q] \in {"none", "STALE", "STOP", "ABORTED"}
                     \/ report'[q] = report[q] /\ SamePlan(op[q], op'[q])
                     \/ op'[q].cmd # "confirm"
  <1>4. report' \in [Processes -> Reports] /\ Silent => ReportedInv'
    <2> SUFFICES ASSUME report' \in [Processes -> Reports], Silent,
                        NEW q \in Processes, Confirmed(q)'
                 PROVE  Of({"anchor"})' # {}
      BY DEF ReportedInv
    <2>1. report'[q] = report[q] /\ op[q].cmd = "confirm"
      BY DEF Confirmed, SamePlan
    <2>2. Confirmed(q)
      BY <2>1 DEF Confirmed
    <2> QED
      BY <1>3, <2>2 DEF ReportedInv
  <1> HIDE DEF Silent
  <1>5. CASE \/ PlanRegister(p) \/ PlanRetire(p) \/ PlanPrepare(p)
             \/ PlanIngest(p) \/ PlanFulltext(p) \/ PlanConfirm(p)
    <2>1. \E item, o : Plan(p, item, o)
      BY <1>5 DEF PlanRegister, PlanRetire, PlanPrepare, PlanIngest, PlanFulltext, PlanConfirm
    <2>2. PICK item, o : Plan(p, item, o)
      BY <2>1
    <2>3. report' = [report EXCEPT ![p] = "none"] /\ op' = [op EXCEPT ![p] = o]
      BY <2>2 DEF Plan
    <2>4. \A q \in Processes : q # p => report'[q] = report[q] /\ op'[q] = op[q]
      BY <1>2, <2>3
    <2>5. report' \in [Processes -> Reports] /\ report'[p] = "none"
      BY <1>2, <2>3 DEF Reports
    <2>6. Silent
      <3>1. \A q \in Processes : op'[q] = op[q] => SamePlan(op[q], op'[q])
        BY DEF SamePlan
      <3>2. \A q \in Processes : q # p => report'[q] = report[q] /\ SamePlan(op[q], op'[q])
        BY <2>4, <3>1
      <3> QED
        BY <2>5, <3>2 DEF Silent
    <2> QED
      BY <1>4, <2>5, <2>6
  <1>6. CASE \/ CheckPrepare(p) \/ CheckIngest(p) \/ CheckFulltext(p) \/ CheckRegistry(p)
    <2>1. op[p].cmd # "confirm"
      BY <1>6 DEF CheckPrepare, CheckIngest, CheckFulltext, CheckRegistry
    <2>2. \E r \in Reports : report' = [report EXCEPT ![p] = r] \/ report' = report
      BY <1>6 DEF CheckPrepare, CheckIngest, CheckFulltext, CheckRegistry, End, Reports
    <2>3. op' = op \/ \E b : op' = [op EXCEPT ![p].renew = b]
      BY <1>6 DEF CheckPrepare, CheckIngest, CheckFulltext, CheckRegistry
    <2>4. op'[p].cmd = op[p].cmd /\ \A q \in Processes : q # p => op'[q] = op[q]
      BY <1>2, <2>3 DEF OpType
    <2>5. report' \in [Processes -> Reports] /\ \A q \in Processes : q # p => report'[q] = report[q]
      BY <1>2, <2>2
    <2>6. Silent
      BY <2>1, <2>4, <2>5 DEF Silent, SamePlan
    <2> QED
      BY <1>4, <2>5, <2>6
  <1>7. CASE EnterConfirm(p) \/ EnterPrepare(p) \/ EnterIngest(p) \/ EnterFulltext(p) \/ EnterRegistry(p)
    <2>1. \E r \in {"STALE", "STOP", None} : Enter(p, r)
      BY <1>7 DEF EnterConfirm, EnterPrepare, EnterIngest, EnterFulltext, EnterAs, EnterRegistry, Refusal
    <2>2. PICK r \in {"STALE", "STOP", None} : Enter(p, r)
      BY <2>1
    <2>3. op' = [op EXCEPT ![p].next = 1, ![p].wrote = FALSE]
      BY <2>2 DEF Enter
    <2>4. \A q \in Processes : SamePlan(op[q], op'[q])
      BY <1>2, <2>3 DEF OpType, SamePlan
    <2>5. report' = report \/ report' = [report EXCEPT ![p] = "STALE"]
          \/ report' = [report EXCEPT ![p] = "STOP"]
      BY <2>2 DEF Enter, End
    <2>6. report' \in [Processes -> Reports] /\ Silent
      BY <1>2, <2>4, <2>5 DEF Silent, Reports
    <2> QED
      BY <1>4, <2>6
  <1>8. CASE LeaveTranscript(p) \/ LeaveRegistry(p)
    <2>1. op[p].cmd # "confirm" /\ op' = op /\ report' = [report EXCEPT ![p] = "WRITTEN"]
      BY <1>8 DEF LeaveTranscript, LeaveRegistry, Leave
    <2>2. report' \in [Processes -> Reports] /\ Silent
      BY <1>2, <2>1 DEF Silent, SamePlan, Reports
    <2> QED
      BY <1>4, <2>2
  <1>9. CASE LeaveConfirm(p)
    <2>1. op' = op /\ report' = [report EXCEPT ![p] = "none"]
      BY <1>9 DEF LeaveConfirm, Leave
    <2>2. report' \in [Processes -> Reports] /\ Silent
      BY <1>2, <2>1 DEF Silent, SamePlan, Reports
    <2> QED
      BY <1>4, <2>2
  <1>10. CASE Anchor(p)
    <2>1. report' \in [Processes -> Reports]
      BY <1>2, <1>10 DEF Anchor, End, Reports
    <2>2. Of({"anchor"})' # {}
      <3> DEFINE e == Effect("anchor", None, None, 0)
      <3>1. e \in Event /\ e.kind = "anchor"
        BY EffectType, EffectFields DEF Kinds, Values
      <3> HIDE DEF e
      <3>2. Of({"anchor"}) # {} \/ journal' = Append(journal, e)
        BY <1>10 DEF Anchor, e
      <3> QED
        BY <1>2, <1>3, <3>1, <3>2, AppendedOf
    <2> QED
      BY <2>1, <2>2 DEF ReportedInv
  <1>11. CASE AnswerConfirm(p) \/ Withdraw(p) \/ Undo(p) \/ Raise(p)
    <2>1. op' = op /\ report' = report
      BY <1>11 DEF AnswerConfirm, Withdraw, Undo, Act, Raise
    <2>2. report' \in [Processes -> Reports] /\ Silent
      BY <1>2, <2>1 DEF Silent, SamePlan
    <2> QED
      BY <1>4, <2>2
  <1>12. CASE Execute(p)
    <2>1. report' = report
      BY <1>12 DEF Execute, PutObjects, RecordIntent, ReadLatest, AppendEffect
    <2>2. \A q \in Processes : SamePlan(op[q], op'[q])
      <3>1. \E l, n, w : op' \in {op, [op EXCEPT ![p].wrote = w], [op EXCEPT ![p].last = l],
                                 [op EXCEPT ![p].next = n, ![p].wrote = w]}
        BY <1>12 DEF Execute, PutObjects, RecordIntent, ReadLatest, AppendEffect
      <3> SUFFICES ASSUME NEW q \in Processes PROVE SamePlan(op[q], op'[q])
        OBVIOUS
      <3>2. op[q] \in OpType
        BY <1>2
      <3>3. \/ op'[q] = op[q]
            \/ \E w : op'[q] = [op[q] EXCEPT !.wrote = w]
            \/ \E l : op'[q] = [op[q] EXCEPT !.last = l]
            \/ \E n, w : op'[q] = [op[q] EXCEPT !.next = n, !.wrote = w]
        <4>1. PICK l, n, w : op' \in {op, [op EXCEPT ![p].wrote = w], [op EXCEPT ![p].last = l],
                                      [op EXCEPT ![p].next = n, ![p].wrote = w]}
          BY <3>1
        <4>2. CASE q # p \/ op' = op
          BY <1>2, <4>1, <4>2
        <4>3. CASE q = p /\ op' = [op EXCEPT ![p].wrote = w]
          BY <1>2, <4>3
        <4>4. CASE q = p /\ op' = [op EXCEPT ![p].last = l]
          BY <1>2, <4>4
        <4>5. CASE q = p /\ op' = [op EXCEPT ![p].next = n, ![p].wrote = w]
          <5>1. op'[q] = [op[q] EXCEPT !.next = n, !.wrote = w]
            BY <1>2, <4>5
          <5> QED
            BY <5>1
        <4> QED
          BY <4>1, <4>2, <4>3, <4>4, <4>5
      <3> QED
        BY <3>2, <3>3 DEF OpType, SamePlan
    <2>3. report' \in [Processes -> Reports] /\ Silent
      BY <1>2, <2>1, <2>2 DEF Silent
    <2> QED
      BY <1>4, <2>3
  <1>13. CASE Abort(p) \/ Kill(p)
    <2>1. /\ report' = [report EXCEPT ![p] = "ABORTED"] \/ report' = [report EXCEPT ![p] = "none"]
          /\ op' = op \/ op' = [op EXCEPT ![p] = NoOperation]
      BY <1>13 DEF Abort, Kill, End
    <2>2. \A q \in Processes : q # p => report'[q] = report[q] /\ op'[q] = op[q]
      BY <1>2, <2>1
    <2>3. report' \in [Processes -> Reports] /\ report'[p] \in {"none", "ABORTED"}
      BY <1>2, <2>1 DEF Reports
    <2>4. Silent
      <3>1. \A q \in Processes : op'[q] = op[q] => SamePlan(op[q], op'[q])
        BY DEF SamePlan
      <3>2. \A q \in Processes : q # p => report'[q] = report[q] /\ SamePlan(op[q], op'[q])
        BY <2>2, <3>1
      <3> QED
        BY <2>3, <3>2 DEF Silent
    <2> QED
      BY <1>4, <2>3, <2>4
  <1> QED
    BY <1>1, <1>5, <1>6, <1>7, <1>8, <1>9, <1>10, <1>11, <1>12, <1>13 DEF Answer, Work

LEMMA StandingFollows ==
    ASSUME OrderInv, DecisionsInv, ReportedInv, NEW p \in Processes,
           Confirmed(p), StillStands(p), Marker = op[p].intent.val
    PROVE  ConfirmedUsable
  <1>1. journal \in Seq(Event) /\ Len(journal) \in Nat /\ Positions = 1..Len(journal)
    BY LookupTypes DEF OrderInv, BaseInv, TypeInv, Positions
  <1>2. RevisionUsable /\ Withdrawal = 0 /\ Of({"anchor"}) # {} /\ op[p].cmd = "confirm"
    BY DEF StillStands, ReportedInv, Confirmed
  <1>3. PICK d \in Of({"accept"}) :
            /\ journal[d].ref = op[p].intent.ref
            /\ \A i \in Of(Disturbing) : i < d
    BY DEF StillStands
  <1>4. /\ d \in 1..Len(journal) /\ d \in Nat /\ journal[d].kind = "accept" /\ journal[d] \in Event
        /\ \A K : Of(K) \in SUBSET (1..Len(journal))
    BY <1>1, LookupTypes DEF Of
  <1>5. \A K \in SUBSET Disturbing : \A i \in Of(K) : i \in Nat /\ i < d
    BY <1>1, <1>3, <1>4 DEF Of
  <1>6. /\ {"revision"} \subseteq Disturbing /\ {"withdraw"} \subseteq Disturbing
        /\ {"undo"} \subseteq Disturbing /\ {"revision"} \cup Receipts \subseteq Disturbing
    BY DEF Disturbing
  (* Nothing has happened since that decision: each later one is on the    *)
  (* same revision.                                                        *)
  <1>7. \A i \in Of({"accept"}) : d <= i => journal[i].val = Revision
    <2> SUFFICES ASSUME NEW i \in Of({"accept"}), d <= i PROVE journal[i].val = Revision
      OBVIOUS
    <2>1. PICK r \in Of({"revision"}) :
              /\ r < i /\ journal[r].val = journal[i].val
              /\ \A k \in Of({"revision"}) : k < i => k <= r
      BY DEF DecisionsInv, DecidesLatest
    <2>2. /\ i \in Nat /\ r \in Nat /\ r # 0
          /\ LatestOf({"revision"}) \in Nat /\ LatestOf({"revision"}) \in Of({"revision"})
          /\ r <= LatestOf({"revision"})
      BY <1>1, <1>4, <2>1, LookupTypes
    <2>3. LatestOf({"revision"}) < i
      BY <1>4, <1>5, <1>6, <2>2
    <2>4. r = LatestOf({"revision"})
      BY <2>1, <2>2, <2>3
    <2> QED
      BY <2>1, <2>2, <2>4 DEF Revision, ValueAt
  <1>8. journal[d].val = Marker
    <2>1. Payload(journal[d]) = op[p].effects[2]
      BY <1>2, <1>3 DEF OrderInv, TicketsInv
    <2>2. op[p] \in OpType /\ WellPlanned(op[p])
      BY DEF OrderInv, BaseInv, TypeInv
    <2>3. op[p].effects = PlannedEffects(op[p].intent) /\ op[p].intent.cmd = "confirm"
      BY <1>2, <2>2 DEF WellPlanned
    <2>4. op[p].effects[2] = Effect("accept", op[p].intent.val, op[p].intent.who, op[p].intent.ref)
      BY <2>3 DEF PlannedEffects
    <2> QED
      BY <1>4, <2>1, <2>4, PayloadFields, EffectFields
  <1>9. Marker = Revision
    <2>1. d <= d
      BY <1>4
    <2> QED
      BY <1>7, <1>8, <2>1
  <1>10. d \in EffectiveDecisions
    <2>1. \A i \in Of({"withdraw"}) : i \in Nat /\ i <= d /\ i <= Len(journal)
      BY <1>4, <1>5, <1>6
    <2>2. \A u \in Of({"undo"}) : u <= d /\ u <= Len(journal)
      BY <1>4, <1>5, <1>6
    <2>3. {i \in Of({"withdraw"}) : i <= d} = {i \in Of({"withdraw"}) : i <= Len(journal)}
      BY <2>1
    <2>4. WithdrawalAt(d) = Withdrawal
      BY <2>2, <2>3 DEF WithdrawalAt, Withdrawal
    <2> QED
      BY <1>1, <1>2, <1>4, <2>4 DEF EffectiveDecisions, Of, Verdicts
  <1>11. /\ EffectiveDecisions \in SUBSET (1..Len(journal))
         /\ EffectiveDecisions \subseteq Of(Verdicts)
    BY <1>4 DEF EffectiveDecisions
  <1>12. DecisionAt \in EffectiveDecisions /\ DecisionAt \in Nat /\ d <= DecisionAt /\ DecisionAt # 0
    <2>1. /\ DecisionAt \in EffectiveDecisions \cup {0} /\ DecisionAt \in Nat
          /\ \A i \in EffectiveDecisions : i <= DecisionAt
      BY <1>1, <1>11, LatestIsGreatest DEF DecisionAt
    <2> QED
      BY <1>4, <1>10, <2>1
  <1>13. DecisionAt \in Of({"accept"})
    <2>1. journal[DecisionAt].kind \in Verdicts /\ DecisionAt \in Positions
      BY <1>11, <1>12 DEF Of
    <2>2. ~(DecisionAt < d)
      BY <1>4, <1>12
    <2>3. DecisionAt \notin Of({"withdraw"}) /\ DecisionAt \notin Of({"undo"})
      BY <1>5, <1>6, <2>2
    <2> QED
      BY <2>1, <2>3 DEF Of, Verdicts
  <1>14. Accepted /\ journal[DecisionAt].val = Revision
    BY <1>7, <1>12, <1>13 DEF Accepted, Of
  <1>15. RevisionEpoch <= DecisionAt
    <2>1. RevisionEpoch \in Nat /\ RevisionEpoch \in Of({"revision"} \cup Receipts) \cup {0}
      BY <1>1, LookupTypes DEF RevisionEpoch
    <2>2. RevisionEpoch = 0 \/ RevisionEpoch < d
      BY <1>5, <1>6, <2>1
    <2> QED
      BY <1>4, <1>12, <2>1, <2>2
  <1> QED
    BY <1>2, <1>9, <1>14, <1>15 DEF ConfirmedUsable, DecisionFresh, RevisionUsable

(* A confirmation reported as written, or as in effect already, is in      *)
(* effect while its decision stands undisturbed on a usable revision and   *)
(* its marker is the current one: neither what others confirm meanwhile    *)
(* nor how often the plan was handed to the writer makes the report false  *)
(* (write_confirmation, replay).  Where another revision was confirmed in  *)
(* between, the last condition is what the code does not ensure.           *)
THEOREM ReportedIsEffective == ConfirmationSpec => []WrittenIsEffectiveUnlessBack
  <1> DEFINE Inv == OrderInv /\ SeenInv /\ PreviewInv /\ DecisionsInv /\ ReportedInv
  <1>1. ConfirmationInit => Inv
    <2> SUFFICES ASSUME ConfirmationInit PROVE Inv
      OBVIOUS
    <2>1. \A K : Of(K) = {}
      BY DEF ConfirmationInit, Init, Of, Positions
    <2>2. /\ \A q \in Processes : pc[q] = "idle" /\ op[q].cmd = "none"
          /\ report \in [Processes -> Reports]
      BY DEF ConfirmationInit, Init, NoOperation, Operation, Reports
    <2> QED
      BY <2>1, <2>2, OrderInit DEF SeenInv, Deciding, PreviewInv, DecisionsInv, ReportedInv, Confirmed
  <1>2. Inv /\ [ConfirmationNext]_allvars => Inv'
    <2> SUFFICES ASSUME Inv, [ConfirmationNext]_allvars PROVE Inv'
      OBVIOUS
    <2>1. OrderInv'
      BY OrderStep
    <2>2. SeenInv'
      BY SeenKept DEF OrderInv
    <2>3. CASE ConfirmationNext
      <3>1. PICK p \in Processes : Moves(p)
        BY <2>3, NextMoves DEF OrderInv, BaseInv
      <3>2. ReportedInv'
        BY <2>3, ReportedStep DEF OrderInv
      <3>3. PreviewInv' /\ DecisionsInv'
        BY <3>1, PreviewStep, DecisionsStep DEF OrderInv
      <3> QED
        BY <2>1, <2>2, <3>2, <3>3
    <2>4. CASE UNCHANGED allvars
      <3>1. UNCHANGED <<journal, op, report>>
        BY <2>4 DEF allvars, vars
      <3>2. \A K : Of(K)' = Of(K)
        BY <3>1 DEF Of, Positions
      <3>3. PreviewInv'
        BY <3>1, <3>2 DEF PreviewInv, SeesItsRevision
      <3>4. DecisionsInv'
        BY <3>1, <3>2 DEF DecisionsInv, DecidesLatest
      <3>5. ReportedInv'
        BY <3>1, <3>2 DEF ReportedInv, Confirmed
      <3> QED
        BY <2>1, <2>2, <3>3, <3>4, <3>5
    <2> QED
      BY <2>3, <2>4
  <1>3. Inv => WrittenIsEffectiveUnlessBack
    BY StandingFollows DEF WrittenIsEffectiveUnlessBack
  <1> QED
    BY <1>1, <1>2, <1>3, PTL DEF ConfirmationSpec
=============================================================================
