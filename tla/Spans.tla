------------------------------- MODULE Spans --------------------------------
(***************************************************************************)
(* domain/pii.py and domain/manual_pseudonymisation.py: the places a human *)
(* marks in a text, the capsule that collects marks and groups them by the *)
(* person, place or thing they name, and the draft made from it.           *)
(*                                                                         *)
(* A text is a sequence of segments, a segment a sequence of characters.   *)
(* The id of a mention is a digest of its place and type, so that a mark   *)
(* is its own mention; all marks are of one text.                          *)
(***************************************************************************)
EXTENDS Integers, SequencesExt

CONSTANTS
    Fold,       \* [Chars -> Chars]: what NFC and casefold make of a character
    Records,    \* the records of the corpus
    Texts       \* [Records -> Seq(Seq(Chars))]: their confirmed texts

Chars == DOMAIN Fold

ASSUME TextsAssumption == \A r \in Records : Texts[r] \in Seq(Seq(Chars))

(* What a policy may do with the marks of a type (project.py asks for one *)
(* of these).                                                              *)
Actions == {"keep", "remove", "coarsen", "pseudonym"}

States == {"OPEN", "RESOLVED", "DEFERRED"}

(* Span: segment, first character (counted from 0), the one after the last *)
(* and the type.                                                           *)
Span(cue, start, end, type) == [cue |-> cue, start |-> start, end |-> end, type |-> type]

Earlier(a, b) ==
    \/ a.cue < b.cue
    \/ a.cue = b.cue /\ a.start < b.start
    \/ a.cue = b.cue /\ a.start = b.start /\ a.end < b.end

(* The marks in one of the orders in which none follows a later one. *)
Sorted(order) == \A i, j \in DOMAIN order : i < j => ~Earlier(order[j], order[i])

InOrder(marks) == CHOOSE order \in SetToSeqs(marks) : Sorted(order)

ForCue(marks, cue) == InOrder({m \in marks : m.cue = cue})

InRange(text, m) == m.cue \in DOMAIN text /\ m.start < m.end /\ m.end <= Len(text[m.cue])

\* Mutant: a mark that begins where another begins is let through
RefuseLaterStarts(marks) ==
    LET order == InOrder(marks)
    IN  \A i \in 1..(Len(order) - 1) :
            order[i].cue = order[i + 1].cue =>
                order[i].end <= order[i + 1].start \/ order[i].start = order[i + 1].start

(* _refuse_overlaps: it compares neighbours of the canonical order only.   *)
RefuseOverlaps(marks) ==
    LET order == InOrder(marks)
    IN  \A i \in 1..(Len(order) - 1) :
            order[i].cue = order[i + 1].cue => order[i].end <= order[i + 1].start

(* SpanSet.bind *)
Bound(text, marks) == (\A m \in marks : InRange(text, m)) /\ RefuseOverlaps(marks)

-----------------------------------------------------------------------------
(* A capsule holds the marks, the base they began as, the overlay of what  *)
(* the human changed since, each [old, new] with at most one mark a side,  *)
(* and the groups.  (The ids of the groups are random and say nothing.)    *)
Capsule(base, overlay, spans, groups) ==
    [base |-> base, overlay |-> overlay, spans |-> spans, groups |-> groups]

Group(type, mentions, state) == [type |-> type, mentions |-> mentions, state |-> state]

(* validate, one change of the overlay: old must be there, new must not.   *)
Amended(text, at, change) ==
    LET kept == at.marks \ change.old
    IN  [stands |-> /\ at.stands
                    /\ change.old \cup change.new # {}
                    /\ change.old \subseteq at.marks
                    /\ Bound(text, change.new)
                    /\ change.new \cap kept = {},
         marks |-> kept \cup change.new]

Replayed(text, c) ==
    FoldLeft(LAMBDA at, change : Amended(text, at, change), [stands |-> TRUE, marks |-> c.base], c.overlay)

(* validate *)
Valid(text, policy, c) ==
    /\ Bound(text, c.base)
    /\ LET replayed == Replayed(text, c) IN replayed.stands /\ replayed.marks = c.spans
    /\ Bound(text, c.spans)
    /\ \A g \in c.groups :
          /\ g.mentions # {} /\ g.mentions \subseteq c.spans
          /\ g.type \in DOMAIN policy /\ g.state \in States
          /\ \A m \in g.mentions : m.type = g.type
          /\ \A h \in c.groups \ {g} : g.mentions \cap h.mentions = {}
    /\ UNION {g.mentions : g \in c.groups} = c.spans

(* counts: what is still open. *)
OpenGroups(c) == {g \in c.groups : g.state # "RESOLVED"}

-----------------------------------------------------------------------------
Slice(segment, from, to) == SubSeq(segment, from + 1, to)

Label(type, number) == <<"name", type, number>>

(* What stands for a mark, by the action its type has in the policy. *)
Replacement(text, action, m, label) ==
    CASE action = "keep" -> Slice(text[m.cue], m.start, m.end)
      [] action = "remove" -> << >>
      [] action = "coarsen" -> << <<"rule", m.type>> >>
      [] action = "pseudonym" -> <<label>>

(* render, the label of a mark: its group's place among those of its type. *)
DraftLabel(groups, m) ==
    LET at == SelectInSeq(groups, LAMBDA g : m \in g.mentions)
    IN  Label(m.type, Cardinality({i \in 1..at : groups[i].type = m.type}))

Replaced(segment, m, value) ==
    Slice(segment, 0, m.start) \o value \o Slice(segment, m.end, Len(segment))

(* render: from the last mark of a segment to the first. groups is the     *)
(* order the random ids happen to have.                                    *)
Draft(text, policy, c, groups) ==
    [cue \in DOMAIN text |->
        FoldLeft(LAMBDA segment, m :
                     Replaced(segment, m, Replacement(text, policy[m.type], m, DraftLabel(groups, m))),
                 text[cue], Reverse(ForCue(c.spans, cue)))]
=============================================================================
