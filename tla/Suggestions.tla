----------------------------- MODULE Suggestions ----------------------------
(***************************************************************************)
(* application/l1_suggest.py and coverage.py: the segments of a confirmed  *)
(* text go to the model in blocks; an answer that leaves segments out is   *)
(* asked for once more, for these only; every suggestion is anchored on    *)
(* the whole of its segment; all blocks are published or none; and what    *)
(* was published is only used again after its evidence was worked through. *)
(*                                                                         *)
(* Segments are named by their place. An answer is the sequence of the     *)
(* segments its rows name: the codes themselves are left out.              *)
(***************************************************************************)
EXTENDS Integers, SequencesExt

CONSTANTS BlockSizes     \* the block sizes the model's parameters may have

ASSUME BlockSizesAssumption == BlockSizes \subseteq Nat \ {0}

(* What is no JSON of this form, or has a code the codebook lacks. *)
Unreadable == <<0>>

(* run_l1_suggest: the blocks of the plan. *)
Blocks(text, size) ==
    LET n == Len(text)
    IN  [b \in 1..((n + size - 1) \div size) |->
            LET first == (b - 1) * size
                last == IF b * size < n THEN b * size ELSE n
            IN  [i \in 1..(last - first) |-> first + i]]

Counted(rows, segment) == Cardinality({i \in DOMAIN rows : rows[i] = segment})

Missing(rows, expected) == SelectSeq(expected, LAMBDA s : Counted(rows, s) = 0)

NothingForeign(rows, expected) ==
    /\ ToSet(rows) \subseteq ToSet(expected)
    /\ \A s \in ToSet(rows) : Counted(rows, s) = 1

(* parse_answer: every expected segment exactly once. *)
Complete(rows, expected) == NothingForeign(rows, expected) /\ ToSet(expected) \subseteq ToSet(rows)

(* _parse_original: some are missing, nothing else is wrong. *)
Partial(rows, expected) ==
    rows # << >> /\ NothingForeign(rows, expected) /\ ~Complete(rows, expected)

-----------------------------------------------------------------------------
(* _segment_spans: the segments stand in the text joined by a line feed. *)
SegmentSpans(text) ==
    LET start[i \in DOMAIN text] == IF i = 1 THEN 0 ELSE start[i - 1] + Len(text[i - 1]) + 1
    IN  [i \in DOMAIN text |-> <<start[i], start[i] + Len(text[i])>>]

(* anchor_suggestions: a segment without text cannot be anchored. *)
Anchorable(text, rows) == \A i \in DOMAIN rows : text[rows[i]] # << >>

Anchored(text, rows) ==
    [i \in DOMAIN rows |-> [segment |-> rows[i], anchor |-> SegmentSpans(text)[rows[i]]]]

(* _complete_block: the rows of both answers, each segment once, in order. *)
BlockStands(text, rows, expected) == Complete(rows, expected) /\ Anchorable(text, rows)

Ascending(rows) ==
    CHOOSE order \in SetToSeqs(ToSet(rows)) : \A i, j \in DOMAIN order : i < j => order[i] < order[j]

Suggested(text, rows) == Anchored(text, Ascending(rows))

(* _request_record: what was asked (the prompt of a supplement names its   *)
(* segments and the prompt before it) and what came back.                  *)
Request(kind, block, segments, answer) ==
    [kind |-> kind, block |-> block, segments |-> segments, answer |-> answer]

(* covered_segments: an anchor covers every segment it overlaps. *)
CoveredSegments(spans, anchors) ==
    {s \in DOMAIN spans : \E a \in anchors : a[1] < spans[s][2] /\ a[2] > spans[s][1]}

(* _anchors *)
AnchorsOf(suggestions) == {suggestions[i].anchor : i \in DOMAIN suggestions}

-----------------------------------------------------------------------------
(* _validate_evidence, one block: take the original request and, when its  *)
(* answer left segments out, the supplement for exactly these.             *)
Retaken(text, blocks, requests, at, b) ==
    LET Took(i, kind, segments) ==
            /\ i \in DOMAIN requests
            /\ requests[i] = Request(kind, b, segments, requests[i].answer)
        original == at.cursor
        rows == requests[original].answer
        missing == Missing(rows, blocks[b])
        added == requests[original + 1].answer
        whole == Complete(rows, blocks[b])
        all == IF whole THEN rows ELSE rows \o added
    IN  IF ~at.stands \/ ~Took(original, "original", blocks[b]) THEN [at EXCEPT !.stands = FALSE]
        ELSE IF ~whole /\ ~(/\ Partial(rows, blocks[b])
                            /\ Took(original + 1, "supplement", missing)
                            /\ Complete(added, missing))
        THEN [at EXCEPT !.stands = FALSE]
        ELSE IF ~BlockStands(text, all, blocks[b]) THEN [at EXCEPT !.stands = FALSE]
        ELSE [stands |-> TRUE, cursor |-> original + (IF whole THEN 1 ELSE 2),
              suggestions |-> at.suggestions \o Suggested(text, all)]

\* Mutant: nobody looks for requests left over
EvidenceStandsSoFar(text, blocks, requests, suggestions) ==
    LET end == FoldLeft(LAMBDA at, b : Retaken(text, blocks, requests, at, b),
                        [stands |-> TRUE, cursor |-> 1, suggestions |-> << >>], [b \in DOMAIN blocks |-> b])
    IN  end.stands /\ end.suggestions = suggestions

(* _validate_evidence *)
EvidenceStands(text, blocks, requests, suggestions) ==
    LET end == FoldLeft(LAMBDA at, b : Retaken(text, blocks, requests, at, b),
                        [stands |-> TRUE, cursor |-> 1, suggestions |-> << >>], [b \in DOMAIN blocks |-> b])
    IN  end.stands /\ end.cursor = Len(requests) + 1 /\ end.suggestions = suggestions

-----------------------------------------------------------------------------
VARIABLE run     \* the last run of l1.suggest: its text, its blocks, how far it is and what it asked

NoRun == [state |-> "none"]

Asking == run.state \in {"original", "supplement"}

Begun(text, size) ==
    [text |-> text, blocks |-> Blocks(text, size), block |-> 1, rows |-> << >>, missing |-> << >>,
     requests |-> << >>, suggestions |-> << >>, state |-> "original"]

(* What may come back: any rows of segments the text has or has not. *)
Answers == {Unreadable} \cup BoundedSeq(DOMAIN run.text \cup {Len(run.text) + 1}, Len(run.text))

Failed == run' = [NoRun EXCEPT !.state = "failed"]

Expected == IF run.state = "original" THEN run.blocks[run.block] ELSE run.missing

Asked(answer) ==
    Append(run.requests, Request(run.state, run.block, Expected, answer))

(* The block is done: its suggestions join the others, or the run fails. *)
EndBlock(rows, requests) ==
    IF ~BlockStands(run.text, rows, run.blocks[run.block]) THEN Failed
    ELSE run' = [run EXCEPT !.requests = requests,
                            !.suggestions = @ \o Suggested(run.text, rows),
                            !.rows = << >>, !.missing = << >>,
                            !.block = @ + 1,
                            !.state = IF run.block = Len(run.blocks) THEN "answered" ELSE "original"]

(* execute and _parse_original *)
AnswerOriginal(answer) ==
    /\ run.state = "original"
    /\ IF Complete(answer, Expected) THEN EndBlock(answer, Asked(answer))
       ELSE IF Partial(answer, Expected)
       THEN run' = [run EXCEPT !.requests = Asked(answer), !.rows = answer,
                               !.missing = Missing(answer, Expected), !.state = "supplement"]
       ELSE Failed

(* the one supplement of a block is not read as a part *)
AnswerSupplement(answer) ==
    /\ run.state = "supplement"
    /\ IF Complete(answer, Expected) THEN EndBlock(run.rows \o answer, Asked(answer)) ELSE Failed

(* _request_record and execute: the adapter breaks off, or the answer was  *)
(* cut short: nothing is written.                                          *)
BreakOff == Asking /\ Failed

(* l1_object_publication *)
Publish ==
    /\ run.state = "answered"
    /\ run' = [run EXCEPT !.state = "published"]

(* The same run asked for again: what was published is worked through and  *)
(* taken as it is, and the model is not asked.                             *)
Reuse(text, size) ==
    /\ run.state = "published"
    /\ run.text = text /\ run.blocks = Blocks(text, size)
    /\ IF EvidenceStands(text, run.blocks, run.requests, run.suggestions)
       THEN run' = [run EXCEPT !.state = "reused"] ELSE Failed
=============================================================================
