---------------------------- MODULE Finalisation ----------------------------
(***************************************************************************)
(* application/finalisation.py: a human says whose names stand in the      *)
(* cases, the register gives every person a number, the final text is made *)
(* from it and a human accepts that text.  Every act is recorded as        *)
(* prepared, moves the register's head, and counts once it is recorded as  *)
(* completed; a process may die in between, and recovery ends what it left. *)
(* Every name is of one type, and the policy replaces it by its number.    *)
(***************************************************************************)
EXTENDS ManualWork

Current == view.sources[Registry].sha

(* empty: the register before anybody is in it. *)
Empty == [version |-> 1, op |-> 0, names |-> << >>, res |-> [r \in Records |-> None]]

\* Mutant: numbers are counted from the record's own
NumberedAnew(names, entity) == [e \in DOMAIN names \cup {entity} |-> IF e = entity THEN 1 ELSE names[e]]

(* allocate: someone new gets the next number, what is registered keeps    *)
(* its number, and nothing new is no new version.                          *)
Numbered(names, entity) ==
    IF entity \in DOMAIN names THEN names
    ELSE [e \in DOMAIN names \cup {entity} |->
            IF e = entity THEN Cardinality(DOMAIN names) + 1 ELSE names[e]]

Allocate(reg, r, resolution, op) ==
    LET new == [reg EXCEPT !.version = @ + 1, !.op = op,
                           !.names = Numbered(@, resolution.entity), !.res[r] = resolution]
    IN  IF new.names = reg.names /\ new.res = reg.res THEN reg ELSE new

(* render: the text, with the number of the person in it. *)
Rendered(text, resolution, reg) ==
    [of |-> Final, text |-> text, person |-> resolution.entity, number |-> reg.names[resolution.entity]]

(* current: the head is what the journal proves, or what an interrupted    *)
(* act would make of it.                                                   *)
HeadIsPending == \E i \in DOMAIN view.plans \ (view.done \cup view.aborted) :
    view.plans[i].phase \in P4c /\ view.plans[i].before = Current /\ view.plans[i].after = head

-----------------------------------------------------------------------------
(* initialise: the empty register is written and recorded before it        *)
(* becomes the head.                                                       *)
TakeInit(p) ==
    /\ job[p] = Idle /\ holder = None
    /\ Current = NoRegister
    /\ head \in {NoRegister, view.initial}
    /\ view' = IF view.initial = NoRegister THEN InitPrepared(view, Empty) ELSE view
    /\ holder' = p
    /\ job' = [job EXCEPT ![p] = [kind |-> "init", act |-> 0]]
    /\ UNCHANGED <<policy, head, left>>

InitHead(p) ==
    /\ job[p].kind = "init" /\ head = NoRegister
    /\ head' = view.initial
    /\ UNCHANGED <<view, policy, holder, job, left>>

InitComplete(p) ==
    /\ job[p].kind = "init" /\ head = view.initial
    /\ view' = Initialised(view)
    /\ holder' = None
    /\ job' = [job EXCEPT ![p] = Idle]
    /\ UNCHANGED <<policy, head, left>>

-----------------------------------------------------------------------------
(* Work.__init__: the cases are settled, the register is there and no act  *)
(* of anybody on it is interrupted.                                        *)
OpenWork(p, r, h) ==
    /\ job[p] = Idle
    /\ Spend("open")
    /\ MaySnapshot(r, "pseudonymisation.cases", h)
    /\ HasBasis(view, r, "resolve")
    /\ Current # NoRegister /\ head = Current
    /\ ~Pair(view, r, Cases).sha.open
    /\ job' = [job EXCEPT ![p] = [kind |-> "work", rec |-> r, actor |-> h, act |-> 0, shown |-> None,
                                  base |-> Basis(view, r, "resolve"), registry |-> Current]]
    /\ UNCHANGED <<view, policy, head, holder>>

\* Mutant: nobody looks at the register again
WorkMayGoOn(w) ==
    /\ MaySnapshot(w.rec, "pseudonymisation.cases", w.actor)
    /\ StandsOn(view, w.rec, "resolve", w.base)
    /\ policy = w.base[Policy].sha

(* Work._recheck, under the locks. *)
WorkStands(w) ==
    /\ MaySnapshot(w.rec, "pseudonymisation.cases", w.actor)
    /\ StandsOn(view, w.rec, "resolve", w.base)
    /\ head = Current /\ Current = w.registry
    /\ policy = w.base[Policy].sha

MayCommit(p) ==
    job[p].kind = "work" /\ job[p].act = 0 /\ holder = None /\ Spend("act") /\ WorkStands(job[p])

(* commit, up to the record that an act is prepared. *)
Prepare(p, phase, basis, after, made) ==
    LET w == job[p]
    IN  /\ view' = Prepared(view, [rec |-> w.rec, phase |-> phase, basis |-> basis, actor |-> w.actor,
                                   checkpoint |-> Unsaved, before |-> w.registry, after |-> after,
                                   made |-> made, at |-> 0])
        /\ holder' = p
        /\ job' = [job EXCEPT ![p].act = Len(view'.plans)]
        /\ UNCHANGED <<policy, head>>

NewOp == Len(view.plans) + 1

(* accept_resolution: the person is one of the register or someone new;    *)
(* the same answer to the same question is not recorded twice.             *)
AcceptResolution(p) ==
    LET w == job[p]
        old == Published(view, w.rec, "resolve")
    IN  /\ MayCommit(p)
        /\ \E entity \in DOMAIN Current.names \cup {NewOp} :
             /\ Acts(view, w.rec, "resolve") # {} => old.basis # w.base \/ old.made.entity # entity
             /\ Prepare(p, "resolve", w.base, w.registry, [act |-> NewOp, entity |-> entity])

(* The resolution that was confirmed for what the record stands on now. *)
Answered(r) ==
    /\ Acts(view, r, "resolve") # {}
    /\ HasBasis(view, r, "resolve")
    /\ Published(view, r, "resolve").basis = Basis(view, r, "resolve")

(* finalise: register and text in one act; what is current is left alone. *)
Finalise(p) ==
    LET w == job[p]
        resolution == Published(view, w.rec, "resolve").made
        after == Allocate(Current, w.rec, resolution, NewOp)
    IN  /\ MayCommit(p)
        /\ Answered(w.rec)
        /\ HasBasis(view, w.rec, "finalise")
        /\ Final \notin Have(view, w.rec)
        /\ Prepare(p, "finalise", Basis(view, w.rec, "finalise"), after,
                   Rendered(w.base[Text].sha, resolution, after))

(* verify_package: the final text is still what its sources make of it. *)
PackageStands(r) ==
    LET p == Published(view, r, "finalise")
    IN  /\ Acts(view, r, "finalise") # {} /\ head = Current /\ p.after = Current
        /\ \A role \in Inputs("finalise") \ {Registry} : p.basis[role] = Pair(view, r, role)
        /\ Answered(r)
        /\ p.made = Rendered(Pair(view, r, Text).sha, Published(view, r, "resolve").made, Current)

(* review_material: the text as it is shown. *)
Show(p) ==
    LET w == job[p]
    IN  /\ w.kind = "work" /\ w.act = 0 /\ w.shown = None
        /\ HasBasis(view, w.rec, "review") /\ PackageStands(w.rec)
        /\ policy = view.sources[Policy].sha
        /\ job' = [job EXCEPT ![p].shown = Basis(view, w.rec, "review")]
        /\ UNCHANGED <<view, policy, head, holder, left>>

(* accept_text: the text that was shown, and nothing newer. *)
AcceptText(p) ==
    LET w == job[p]
    IN  /\ MayCommit(p)
        /\ w.shown # None /\ StandsOn(view, w.rec, "review", w.shown)
        /\ PackageStands(w.rec)
        /\ Prepare(p, "review", w.shown, w.registry, [of |-> Gate, act |-> NewOp])

(* commit, from there on. *)
MoveHead(p) ==
    /\ job[p].kind = "work" /\ job[p].act # 0
    /\ head # view.plans[job[p].act].after
    /\ head' = view.plans[job[p].act].after
    /\ UNCHANGED <<view, policy, holder, job, left>>

Done(p) == holder' = None /\ job' = [job EXCEPT ![p] = Idle] /\ UNCHANGED <<policy, head, left>>

CompleteWork(p) ==
    /\ job[p].kind = "work" /\ job[p].act # 0
    /\ head = view.plans[job[p].act].after
    /\ policy = job[p].base[Policy].sha /\ HeadIsNamed(view, head)
    /\ view' = Completed(view, job[p].act)
    /\ Done(p)

(* The policy file changed meanwhile: that is recorded, and the act stays  *)
(* behind unfinished.                                                      *)
LeaveWork(p) ==
    /\ job[p].kind = "work" /\ job[p].act # 0
    /\ head = view.plans[job[p].act].after
    /\ policy # job[p].base[Policy].sha
    /\ view' = PolicySeen(view, policy)
    /\ Done(p)

-----------------------------------------------------------------------------
(* recover: the acts of the record that were interrupted, in their order.  *)
TakeUp(p, r, h) ==
    /\ job[p] = Idle /\ holder = None
    /\ Open(view, r, P4c) # {}
    /\ Current # NoRegister /\ (head = Current \/ HeadIsPending)
    /\ Unblocked(r)
    /\ Spend("recover")
    /\ holder' = p
    /\ job' = [job EXCEPT ![p] = [kind |-> "recovery", rec |-> r, actor |-> h,
                                  act |-> FirstOpen(view, r, P4c)]]
    /\ UNCHANGED <<view, policy, head>>

Recovering(p) == job[p].kind = "recovery"

(* What the act was prepared on is no longer so, or it was another's.      *)
ActIsStale(w) ==
    LET act == view.plans[w.act]
    IN  \/ Current # act.before
        \/ ~StandsOn(view, w.rec, act.phase, act.basis)
        \/ act.actor \notin view.active \/ w.actor # act.actor

(* validate_prepared: the whole plan is computed again. *)
PlanIsSound(w) ==
    LET act == view.plans[w.act]
        resolution == Published(view, w.rec, "resolve").made
    IN  /\ policy = act.basis[Policy].sha
        /\ act.phase = "review" => PackageStands(w.rec)
        /\ act.phase = "finalise" =>
             /\ Answered(w.rec)
             /\ act.after = Allocate(act.before, w.rec, resolution, w.act)
             /\ act.made = Rendered(act.basis[Text].sha, resolution, act.after)

\* Mutant: a moved head is left where it is
AbortOnly(p) ==
    /\ Recovering(p) /\ ActIsStale(job[p])
    /\ view' = Aborted(view, job[p].act)
    /\ Done(p)

(* A head without a completed act is put back, then the act is ended. *)
PutHeadBack(p) ==
    /\ Recovering(p) /\ ActIsStale(job[p])
    /\ head = view.plans[job[p].act].after /\ head # Current
    /\ head' = Current
    /\ UNCHANGED <<view, policy, holder, job, left>>

Abort(p) ==
    /\ Recovering(p) /\ ActIsStale(job[p])
    /\ head = Current \/ head # view.plans[job[p].act].after
    /\ view' = Aborted(view, job[p].act)
    /\ Done(p)

RecoverHead(p) ==
    LET act == view.plans[job[p].act]
    IN  /\ Recovering(p) /\ ~ActIsStale(job[p]) /\ PlanIsSound(job[p])
        /\ act.after # Current /\ head # act.after
        /\ head' = act.after
        /\ UNCHANGED <<view, policy, holder, job, left>>

RecoverComplete(p) ==
    LET act == view.plans[job[p].act]
    IN  /\ Recovering(p) /\ ~ActIsStale(job[p]) /\ PlanIsSound(job[p])
        /\ act.after # Current => head = act.after
        /\ HeadIsNamed(view, head)
        /\ view' = Completed(view, job[p].act)
        /\ Done(p)

(* The plan no longer computes, or the policy file is another: nothing is  *)
(* completed, and a changed policy is recorded.                            *)
GiveUp(p) ==
    /\ Recovering(p) /\ ~ActIsStale(job[p]) /\ ~PlanIsSound(job[p])
    /\ view' = IF policy # view.plans[job[p].act].basis[Policy].sha THEN PolicySeen(view, policy) ELSE view
    /\ Done(p)

-----------------------------------------------------------------------------
(* What is true of the journal of every corpus, the empty one (NoView)     *)
(* and every one that the acts of this module have made of it.  A scenario *)
(* may start anywhere there.                                               *)
Roles == {Policy, Registry, Text, Resolution} \cup Artefacts

(* The fold has put everything in its place and dated it. *)
Sorted(v) ==
    /\ DOMAIN v = DOMAIN NoView({}) /\ v.n \in Nat
    /\ DOMAIN v.sources = {Policy, Registry}
    /\ DOMAIN v.own = Records /\ DOMAIN v.facts = Records /\ DOMAIN v.checkpoint = Records
    /\ \A r \in Records :
         /\ DOMAIN v.own[r] = {Text, Resolution}
         /\ DOMAIN v.facts[r] = Artefacts
         /\ DOMAIN v.checkpoint[r] = P4b
         /\ \A a \in Artefacts : DOMAIN v.facts[r][a] = DOMAIN NoFacts
         /\ \A role \in Roles : Pair(v, r, role).at \in 0..v.n
         /\ \A phase \in P4b : v.checkpoint[r][phase].revision \in Nat
    /\ v.plans \in Seq({v.plans[i] : i \in DOMAIN v.plans})
    /\ v.done \cup v.aborted \subseteq DOMAIN v.plans

(* A register has numbered its names from 1 on, each once. *)
IsRegister(reg) ==
    /\ DOMAIN reg = DOMAIN Empty /\ reg.version \in Nat \ {0} /\ DOMAIN reg.res = Records
    /\ IsFiniteSet(DOMAIN reg.names)
    /\ \A e \in DOMAIN reg.names : reg.names[e] \in 1..Cardinality(DOMAIN reg.names)
    /\ \A d, e \in DOMAIN reg.names : reg.names[d] = reg.names[e] => d = e

(* The registers that ever counted, the current one the last of them. *)
Afters(v) == {v.plans[i].after : i \in {j \in v.done : v.plans[j].phase \in P4c}}
Ever(v) == Afters(v) \cup ({v.sources[Registry].sha} \ {NoRegister})

RegistersGrow(v) ==
    LET current == v.sources[Registry].sha
    IN  /\ v.initial \in {NoRegister, Empty}
        /\ current = NoRegister => Afters(v) = {}
        /\ \A a \in Ever(v) :
             /\ IsRegister(a) /\ a.version <= current.version
             /\ DOMAIN a.names \subseteq DOMAIN current.names
             /\ \A e \in DOMAIN a.names : a.names[e] = current.names[e]
        /\ \A a, b \in Ever(v) :
             /\ a.version <= b.version => DOMAIN a.names \subseteq DOMAIN b.names
             /\ a.version = b.version => a = b

(* An act changes the register only to number the person that was named    *)
(* for its cases, and none of them is open.                                *)
WellMade(v, i) ==
    LET p == v.plans[i]
    IN  /\ p.rec \in Records /\ p.phase \in P4b \cup P4c /\ p.at \in 1..v.n
        /\ DOMAIN p.basis = Inputs(p.phase)
        /\ p.phase \in P4c => p.before # NoRegister /\ ~p.basis[Cases].sha.open
        /\ p.phase \in {"resolve", "review"} => p.after = p.before
        /\ p.phase = "finalise" =>
             /\ p.after = Allocate(p.before, p.rec, p.after.res[p.rec], i)
             /\ p.basis[Resolution].at \in 0..v.n
             /\ p.basis[Resolution] = Pair(v, p.rec, Resolution) =>
                  /\ Acts(v, p.rec, "resolve") # {}
                  /\ p.after.res[p.rec] = Published(v, p.rec, "resolve").made

(* A gate that still refers to what is there now was accepted for it. *)
Refers(v, r) ==
    LET f == v.facts[r][Gate]
    IN  /\ f.sha # None /\ ~f.withdrawn /\ f.verdict = "ACCEPT"
        /\ \A role \in Inputs("review") :
             f.refs[role] = Pair(v, r, role).sha /\ f.at >= Pair(v, r, role).at

Approved(v, r) ==
    LET current == v.sources[Registry].sha
        named == Published(v, r, "resolve")
    IN  /\ ~Pair(v, r, Cases).sha.open
        /\ \A role \in Base : Pair(v, r, role).sha \notin {None, NoRegister}
        /\ Acts(v, r, "resolve") # {} /\ Acts(v, r, "finalise") # {}
        /\ named.basis = Basis(v, r, "resolve")
        /\ current.res[r] = named.made
        /\ Published(v, r, "finalise").made = Rendered(Pair(v, r, Text).sha, named.made, current)

GateIsTrue(v, r) ==
    /\ v.facts[r][Gate].sha # None => v.facts[r][Gate].refs[Registry] \in Afters(v)
    /\ Refers(v, r) => Approved(v, r)

Sound(v) ==
    /\ Sorted(v) /\ v.findings = {} /\ RegistersGrow(v)
    /\ \A i \in DOMAIN v.plans : WellMade(v, i)
    /\ \A r \in Records : GateIsTrue(v, r)

(* No session has a number that is still to be given out. *)
SessionsAreOver(v, l) ==
    /\ "session" \in DOMAIN l /\ l["session"] \in Nat
    /\ \A r \in Records, phase \in P4b : v.checkpoint[r][phase].session \notin 1..l["session"]

ASSUME FinalisationAssumption ==
    /\ None \notin Processes
    /\ \A s \in Scenarios : Sound(s.view) /\ SessionsAreOver(s.view, s.left)

Init ==
    \E s \in Scenarios :
        /\ view = s.view
        /\ policy = s.view.sources[Policy].sha
        /\ head = s.view.sources[Registry].sha
        /\ left = s.left
        /\ holder = None
        /\ job = [p \in Processes |-> Idle]

WorkNext ==
    \/ \E p \in Processes, r \in Records, h \in Humans : OpenWork(p, r, h) \/ TakeUp(p, r, h)
    \/ \E p \in Processes :
         \/ TakeInit(p) \/ InitHead(p) \/ InitComplete(p)
         \/ AcceptResolution(p) \/ Finalise(p) \/ Show(p) \/ AcceptText(p)
         \/ MoveHead(p) \/ CompleteWork(p) \/ LeaveWork(p)
         \/ PutHeadBack(p) \/ Abort(p) \/ RecoverHead(p) \/ RecoverComplete(p) \/ GiveUp(p)

Next == ManualNext \/ WorkNext

Spec == Init /\ [][Next]_vars

-----------------------------------------------------------------------------
(* Whatever was interrupted and whatever happened in between, no command   *)
(* writes an event that the fold then refuses: a refused event stops its   *)
(* record for good (expand, Expansion.consume).                            *)
NothingRejected == view.findings = {}

(* The head of the register and the journal never part in a way recovery   *)
(* cannot mend: the head is what the journal proves, or an act that is not *)
(* ended would make it of that, or the initialisation is under way         *)
(* (current raises "Registerkopf fehlt, ist fremd oder zurueckgerollt").   *)
HeadIsExplained ==
    \/ head = Current
    \/ Current = NoRegister /\ head = view.initial
    \/ HeadIsPending

(* Over all registers that ever counted, of all records: a person has one  *)
(* number, a number one person, and nobody is ever dropped (allocate,      *)
(* validate_registry; docs call the pseudonyms stable).                    *)
Counted == {view.plans[i].after : i \in {j \in view.done : view.plans[j].phase = "finalise"}}

NamesAreStable ==
    \A a, b \in Counted :
        /\ a.version <= b.version => DOMAIN a.names \subseteq DOMAIN b.names
        /\ \A x \in DOMAIN a.names, y \in DOMAIN b.names :
             (x = y) <=> (a.names[x] = b.names[y])

(* A final text that counts as accepted by a human is made from the text   *)
(* that is confirmed now, from cases none of which is open, with the       *)
(* number which the current register gives the person that was named for   *)
(* exactly these cases (verify_package, accept_text).                      *)
ApprovedIsTrue ==
    \A r \in Records : Gate \in Have(view, r) =>
        LET named == Published(view, r, "resolve")
        IN  /\ ~Pair(view, r, Cases).sha.open
            /\ Answered(r)
            /\ Current.res[r] = named.made
            /\ Published(view, r, "finalise").made =
                   Rendered(Pair(view, r, Text).sha, named.made, Current)

(* What one human has saved and not yet published is never replaced by     *)
(* another human's session (Session.__init__: "Fremde aktive Sitzung;      *)
(* keine stille Uebernahme").                                              *)
NoSilentTakeover ==
    [][\A r \in Records, phase \in P4b :
         LET old == view.checkpoint[r][phase]
             new == view'.checkpoint[r][phase]
         IN  old # Unsaved /\ new # old /\ new.actor # old.actor => CheckpointCompleted(r, phase, old)]_vars
=============================================================================
