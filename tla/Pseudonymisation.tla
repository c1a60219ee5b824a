-------------------------- MODULE Pseudonymisation --------------------------
(***************************************************************************)
(* What the acts of Finalisation say, one record after the other: a human  *)
(* edits marks and groups (manual_work.py), says whom the groups name, the *)
(* register and the final text follow (finalisation.py), and the model is  *)
(* asked for codes of that final text (l1_suggest.py).  How these acts are *)
(* recorded, interrupted and overtaken is the matter of Finalisation.      *)
(***************************************************************************)
EXTENDS Register, Suggestions

CONSTANTS
    Policies,         \* the policies a record may be worked under: [types -> actions]
    Places,           \* [Records -> sets of spans]: what a human may mark
    Plans             \* bounds: sequences of which record is worked on, [rec, mark, cases],
                      \* and how often its marks and its cases are edited

(* Numbers in a mark are counted from 0 (pii.py _as_index). *)
ASSUME PlacesAssumption ==
    \A r \in Records : \A m \in Places[r] : m.cue \in Nat /\ m.start \in Nat /\ m.end \in Nat

ASSUME PoliciesAssumption == \A p \in Policies : \A type \in DOMAIN p : p[type] \in Actions

ASSUME PlansAssumption == Plans \subseteq Seq([rec : Records, mark : Nat, cases : Nat])

VARIABLES
    desk,       \* the work on one record: [rec, policy, phase, capsule, left, assigned]
    register,
    finals,     \* [Records -> the final text]
    said,       \* history: which surface was said to name whom
    plan        \* what is still to be worked on

vars == <<desk, register, finals, said, plan, run>>

NoDesk == [phase |-> "none"]
NoFinal == << >>

Source == Texts[desk.rec]
policy == desk.policy
Editing == desk.phase \in {"mark", "cases"}

Init ==
    /\ desk = NoDesk /\ register = EmptyRegister /\ said = {}
    /\ plan \in Plans
    /\ finals = [r \in Records |-> NoFinal]
    /\ run = NoRun

(* Session.__init__, pii.mark: an empty capsule, under today's policy. *)
OpenMarking ==
    /\ desk = NoDesk /\ run = NoRun /\ plan # << >>
    /\ \E p \in Policies :
         desk' = [rec |-> Head(plan).rec, policy |-> p, phase |-> "mark", capsule |-> Capsule({}, << >>, {}, {}),
                  left |-> Head(plan), assigned |-> << >>]
    /\ plan' = Tail(plan)
    /\ UNCHANGED <<register, finals, said, run>>

-----------------------------------------------------------------------------
(* In pii.mark the base follows the marks, later the overlay keeps count.  *)
Kept(phase, c, change) ==
    IF phase = "mark" THEN [c EXCEPT !.base = c.spans] ELSE [c EXCEPT !.overlay = Append(@, change)]

\* Mutant: a group that loses a mention stands as it did
WithoutQuietly(c, old) ==
    LET shrunk == {[g EXCEPT !.mentions = @ \ old] : g \in c.groups}
    IN  [c EXCEPT !.spans = @ \ old, !.groups = {g \in shrunk : g.mentions # {}}]

(* _remove: a group that loses a mention is open again. *)
Without(c, old) ==
    LET touched == {g \in c.groups : g.mentions \cap old # {}}
        shrunk == {[g EXCEPT !.mentions = @ \ old, !.state = "OPEN"] : g \in touched}
    IN  [c EXCEPT !.spans = @ \ old,
                  !.groups = (@ \ touched) \cup {g \in shrunk : g.mentions # {}}]

(* add, in place of an old mark or not *)
Added(phase, c, new, old) ==
    LET rest == Without(c, old)
    IN  Kept(phase, [rest EXCEPT !.spans = @ \cup {new}, !.groups = @ \cup {Group(new.type, {new}, "OPEN")}],
             [old |-> old, new |-> {new}])

(* exclude *)
Excluded(phase, c, mark) == Kept(phase, Without(c, {mark}), [old |-> {mark}, new |-> {}])

(* merge: groups of one type (and so of one scope) *)
Merged(c, groups) ==
    LET type == (CHOOSE g \in groups : TRUE).type
    IN  [c EXCEPT !.groups = (@ \ groups) \cup {Group(type, UNION {g.mentions : g \in groups}, "RESOLVED")}]

(* split, into two: splitting further is splitting again *)
Parted(c, g, part) ==
    [c EXCEPT !.groups = (@ \ {g}) \cup {[g EXCEPT !.mentions = part, !.state = "RESOLVED"],
                                         [g EXCEPT !.mentions = @ \ part, !.state = "RESOLVED"]}]

(* An edit is checked as a whole, and refused or taken. *)
Take(c) ==
    /\ Editing /\ desk.left[desk.phase] > 0
    /\ Valid(Source, policy, c)
    /\ desk' = [desk EXCEPT !.capsule = c, !.left[desk.phase] = @ - 1]
    /\ UNCHANGED <<register, finals, said, plan, run>>

MayMark(c, new, old) ==
    /\ old \subseteq c.spans /\ Cardinality(old) <= 1
    /\ new.type \in DOMAIN policy
    /\ new \notin c.spans \ old

OldOf(c) == {{}} \cup {{m} : m \in c.spans}

Add ==
    /\ Editing
    /\ \E new \in Places[desk.rec], old \in OldOf(desk.capsule) :
         MayMark(desk.capsule, new, old) /\ Take(Added(desk.phase, desk.capsule, new, old))

Exclude == Editing /\ \E mark \in desk.capsule.spans : Take(Excluded(desk.phase, desk.capsule, mark))

Merge ==
    /\ Editing
    /\ \E groups \in SUBSET desk.capsule.groups :
         /\ Cardinality(groups) >= 2
         /\ \A g, h \in groups : g.type = h.type
         /\ Take(Merged(desk.capsule, groups))

Split ==
    /\ Editing
    /\ \E g \in desk.capsule.groups : \E part \in SUBSET g.mentions :
         part # {} /\ part # g.mentions /\ Take(Parted(desk.capsule, g, part))

(* state: settled, or put off. *)
Judge ==
    /\ Editing
    /\ \E g \in desk.capsule.groups, state \in {"RESOLVED", "DEFERRED"} :
         desk' = [desk EXCEPT !.capsule.groups = (@ \ {g}) \cup {[g EXCEPT !.state = state]}]
    /\ UNCHANGED <<register, finals, said, plan, run>>

(* publish, pii.mark and pseudonymise: the cases begin as what was marked. *)
PublishMarks ==
    /\ desk.phase = "mark"
    /\ Valid(Source, policy, desk.capsule)
    /\ desk' = [desk EXCEPT !.phase = "cases"]
    /\ UNCHANGED <<register, finals, said, plan, run>>

(* publish, pseudonymisation.cases, and Work.__init__: nothing is open. *)
PublishCases ==
    /\ desk.phase = "cases"
    /\ Valid(Source, policy, desk.capsule)
    /\ OpenGroups(desk.capsule) = {}
    /\ desk' = [desk EXCEPT !.phase = "resolve"]
    /\ UNCHANGED <<register, finals, said, plan, run>>

-----------------------------------------------------------------------------
(* choose, for every group: somebody registered, or somebody new, whose    *)
(* random id may come before or after that of another.                     *)
FreshIds(n) == (Cardinality(DOMAIN register.entities) + 1)..(Cardinality(DOMAIN register.entities) + n)

Answered(c, whom) ==
    [m \in c.spans |->
        LET g == CHOOSE h \in c.groups : m \in h.mentions
        IN  Assignment(whom[g], g.type, policy[g.type],
                       IF whom[g] \in DOMAIN register.entities THEN "reuse" ELSE "new")]

WhomOf(c) ==
    LET known == DOMAIN register.entities
    IN  {whom \in [c.groups -> known \cup FreshIds(Cardinality(c.groups))] :
            LET new == {g \in c.groups : whom[g] \notin known}
            IN  /\ \A g \in c.groups \ new : whom[g] \in Choosable(register, g)
                /\ {whom[g] : g \in new} = FreshIds(Cardinality(new))}

AcceptResolution ==
    /\ desk.phase = "resolve"
    /\ \E whom \in WhomOf(desk.capsule) :
         LET assigned == Answered(desk.capsule, whom)
         IN  /\ ValidResolution(Source, policy, desk.capsule, assigned, register)
             /\ desk' = [desk EXCEPT !.phase = "resolved", !.assigned = assigned]
    /\ UNCHANGED <<register, finals, said, plan, run>>

(* finalise: the register, the final text and its report. *)
Finalise ==
    /\ desk.phase = "resolved"
    /\ MayAllocate(Source, policy, desk.capsule, desk.assigned, register)
    /\ register' = Allocated(Source, register, desk.assigned)
    /\ finals' = [finals EXCEPT ![desk.rec] = Final(Source, register', desk.assigned).text]
    /\ said' = said \cup {<<Token(Source, m), desk.assigned[m].entity>> : m \in desk.capsule.spans}
    /\ desk' = NoDesk
    /\ UNCHANGED <<plan, run>>

(* What finalise refuses is resolved anew. *)
ResolveAnew ==
    /\ desk.phase = "resolved"
    /\ ~MayAllocate(Source, policy, desk.capsule, desk.assigned, register)
    /\ desk' = [desk EXCEPT !.phase = "resolve", !.assigned = << >>]
    /\ UNCHANGED <<register, finals, said, plan, run>>

-----------------------------------------------------------------------------
(* l1.suggest on the final text of a record *)
BeginRun(r, size) ==
    /\ desk = NoDesk /\ plan = << >> /\ run = NoRun
    /\ finals[r] # NoFinal
    /\ run' = Begun(finals[r], size)

Suggest ==
    /\ \/ \E r \in Records, size \in BlockSizes : BeginRun(r, size)
       \/ Asking /\ \E answer \in Answers : AnswerOriginal(answer) \/ AnswerSupplement(answer)
       \/ BreakOff
       \/ Publish
       \/ \E r \in Records, size \in BlockSizes : Reuse(finals[r], size)
    /\ UNCHANGED <<desk, register, finals, said, plan>>

Next ==
    \/ OpenMarking
    \/ Add \/ Exclude \/ Merge \/ Split \/ Judge
    \/ PublishMarks \/ PublishCases
    \/ AcceptResolution \/ Finalise \/ ResolveAnew
    \/ Suggest

Spec == Init /\ [][Next]_vars

-----------------------------------------------------------------------------
(* The edits of manual_work.py and the check of manual_pseudonymisation.py *)
(* agree, after any number of edits: what was worked at stands, an edit is *)
(* refused when the mark is not in the text or shares a character with     *)
(* another, and only then: the comparison of neighbours sees every pair. *)
Cells(m) == {<<m.cue, i>> : i \in m.start..(m.end - 1)}

Apart(marks) == \A m, n \in marks : m # n => Cells(m) \cap Cells(n) = {}

EditsStand ==
    Editing =>
        LET c == desk.capsule
        IN  /\ Valid(Source, policy, c)
            /\ \A mark \in c.spans : Valid(Source, policy, Excluded(desk.phase, c, mark))
            /\ \A new \in Places[desk.rec], old \in OldOf(c) :
                 MayMark(c, new, old) =>
                    (Valid(Source, policy, Added(desk.phase, c, new, old)) <=>
                        InRange(Source, new) /\ Apart((c.spans \ old) \cup {new}))
            /\ \A g, h \in c.groups : g # h /\ g.type = h.type => Valid(Source, policy, Merged(c, {g, h}))

(* manual_work.py _remove: what counts as settled was settled as it is by  *)
(* a human; no other edit settles a group or changes a settled one.        *)
Settled == IF Editing THEN desk.capsule.groups \ OpenGroups(desk.capsule) ELSE {}

SettledByHand == [][desk'.phase \in {"mark", "cases"} /\ ~(Merge \/ Split \/ Judge) => Settled' \subseteq Settled]_vars

(* finalisation.py choose, candidates and stable_pseudonymisation.py       *)
(* allocate.  Any answer for settled groups is a resolution, and one whose *)
(* registered entities have a number exactly when the policy asks for one  *)
(* is not refused by the register afterwards.  Who is offered for a        *)
(* surface is everybody a surface of that type and folded form was ever    *)
(* finally taken for, in whatever record, and nobody else.                 *)
AnswersStand ==
    desk.phase = "resolve" =>
        \A whom \in WhomOf(desk.capsule) :
            LET assigned == Answered(desk.capsule, whom)
            IN  /\ ValidResolution(Source, policy, desk.capsule, assigned, register)
                /\ Fits(register, assigned) => MayAllocate(Source, policy, desk.capsule, assigned, register)

CandidatesAreRemembered ==
    \A token \in {s[1] : s \in said} \cup DOMAIN register.aliases :
        Aliases(register, token) = {s[2] : s \in {x \in said : x[1] = token}}

RegisterServes == AnswersStand /\ CandidatesAreRemembered

(* stable_pseudonymisation.py render: the report's positions are those of  *)
(* the final text, what is outside of them is the source's, no replaced    *)
(* mark is left, and left to right gives what right to left gave the draft *)
(* but for the numbers.                                                    *)
OutsideOf(segment, cells) ==
    FoldLeft(LAMBDA kept, i : IF i - 1 \in cells THEN kept ELSE Append(kept, segment[i]),
             << >>, [i \in DOMAIN segment |-> i])

Unnumbered(text) ==
    [cue \in DOMAIN text |-> [i \in DOMAIN text[cue] |->
        IF Len(text[cue][i]) = 3 THEN Label(text[cue][i][2], 0) ELSE text[cue][i]]]

ReportIsTrue ==
    desk.phase = "resolved" /\ MayAllocate(Source, policy, desk.capsule, desk.assigned, register) =>
        LET after == Allocated(Source, register, desk.assigned)
            final == Final(Source, after, desk.assigned)
            marks == desk.capsule.spans
            NumberOf(m) == after.entities[desk.assigned[m].entity].number
            ReplacedIn(cue) == {e \in final.entries : e.mark.cue = cue}
        IN  /\ {e.mark : e \in final.entries} = marks
            /\ Cardinality(final.entries) = Cardinality(marks)
            /\ \A e \in final.entries :
                 Slice(final.text[e.mark.cue], e.from, e.to) =
                    Replacement(Source, policy[e.mark.type], e.mark, Label(e.mark.type, NumberOf(e.mark)))
            /\ \A cue \in DOMAIN Source :
                 OutsideOf(final.text[cue], UNION {e.from..(e.to - 1) : e \in ReplacedIn(cue)}) =
                 OutsideOf(Source[cue], UNION {e.mark.start..(e.mark.end - 1) : e \in ReplacedIn(cue)})
            /\ Unnumbered(Draft(Source, policy, desk.capsule, SetToSeq(desk.capsule.groups))) = Unnumbered(final.text)

(* l1_suggest.py: whatever the model answers, what is published has every  *)
(* segment once and in order, its anchors cover every segment and each     *)
(* only its own (coverage.py), and its evidence is found to stand, but not *)
(* with a request left out or asked twice.                                 *)
SuggestionsStand ==
    run.state = "published" =>
        LET spans == SegmentSpans(run.text)
            Accepted(requests) == EvidenceStands(run.text, run.blocks, requests, run.suggestions)
        IN  /\ [i \in DOMAIN run.suggestions |-> run.suggestions[i].segment] = [i \in DOMAIN run.text |-> i]
            /\ CoveredSegments(spans, AnchorsOf(run.suggestions)) = DOMAIN run.text
            /\ \A i \in DOMAIN run.suggestions :
                 CoveredSegments(spans, {run.suggestions[i].anchor}) = {run.suggestions[i].segment}
            /\ Accepted(run.requests)
            /\ \A i \in DOMAIN run.requests :
                 /\ ~Accepted(RemoveAt(run.requests, i))
                 /\ ~Accepted(SubSeq(run.requests, 1, i) \o SubSeq(run.requests, i, Len(run.requests)))
=============================================================================
