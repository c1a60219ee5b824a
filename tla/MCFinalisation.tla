--------------------------- MODULE MCFinalisation ---------------------------
(* Small instances of the manual work for TLC: the sessions of two humans  *)
(* on one text, the final texts of two records that share the register,    *)
(* and a register that is still to be made.                                *)
EXTENDS Finalisation, TLC

CONSTANTS p1, p2, h1, h2, r1, r2, t1, t2, x1, x2

Bound(session, save, open, act, recover, fail, edit, text, retire, decide) ==
    [session |-> session, save |-> save, open |-> open, act |-> act, recover |-> recover, fail |-> fail,
     edit |-> edit, text |-> text, retire |-> retire, decide |-> decide]

Observed == PolicySeen(NoView(Humans), x1)

(* An act done as its command would do it, with nobody in between. *)
After(v, r, phase, actor, made) ==
    LET c == [session |-> 0, revision |-> 1, previous |-> 0, actor |-> actor,
              basis |-> Basis(v, r, phase), open |-> FALSE]
        saved == IF phase = "pseudonymise" THEN v ELSE Checkpointed(v, r, phase, c)
        plan == [rec |-> r, phase |-> phase, basis |-> Basis(v, r, phase), actor |-> actor,
                 checkpoint |-> IF phase = "pseudonymise" THEN Unsaved ELSE c,
                 before |-> NoRegister, after |-> NoRegister, made |-> made, at |-> 0]
    IN  Completed(Prepared(saved, plan), Len(v.plans) + 1)

Texted(v, r) == TextConfirmed(v, r, t1)
Marked(v, r) ==
    After(Texted(v, r), r, "pii.mark", h1, [of |-> Spans, act |-> Len(v.plans) + 1, open |-> FALSE])
Drafted(v, r) ==
    LET m == Marked(v, r)
    IN  After(m, r, "pseudonymise", h1, [of |-> Draft, spans |-> m.facts[r][Spans].sha, policy |-> x1])
Settled(v, r) ==
    After(Drafted(v, r), r, "pseudonymisation.cases", h1,
          [of |-> Cases, act |-> Len(v.plans) + 3, open |-> FALSE])

Acted(v, r, phase, after, made) ==
    Completed(Prepared(v, [rec |-> r, phase |-> phase, basis |-> Basis(v, r, phase), actor |-> h1,
                           checkpoint |-> Unsaved, before |-> v.sources[Registry].sha, after |-> after,
                           made |-> made, at |-> 0]), Len(v.plans) + 1)

Concluded(v, r) ==
    LET reg == v.sources[Registry].sha
        op == Len(v.plans) + 1
        named == [act |-> op, entity |-> op]
        after == Allocate(reg, r, named, op + 1)
        resolved == Acted(v, r, "resolve", reg, named)
        made == Acted(resolved, r, "finalise", after, Rendered(v.own[r][Text].sha, named, after))
    IN  Acted(made, r, "review", after, [of |-> Gate, act |-> op + 2])

Registered(v) == Initialised(InitPrepared(v, Empty))

Scenario(v, bound) == [view |-> v, left |-> bound]

(* two humans over one text, and over its cases *)
Marking == Scenario(Texted(Observed, r1), Bound(3, 2, 0, 0, 0, 1, 0, 0, 0, 0))
Casing == Scenario(Drafted(Observed, r1), Bound(2, 2, 0, 0, 0, 0, 1, 0, 0, 1))
(* two records, one register *)
Sharing == Scenario(Settled(Settled(Registered(Observed), r1), r2), Bound(0, 0, 4, 4, 1, 1, 0, 0, 0, 0))
(* one record, and everything changes under its acts *)
Moving == Scenario(Settled(Registered(Observed), r1), Bound(0, 0, 2, 2, 1, 1, 1, 1, 1, 1))
(* an accepted text, its cases done anew, and a second record *)
Standing == Scenario(Concluded(Settled(Settled(Registered(Observed), r2), r1), r1),
                     Bound(1, 1, 1, 1, 0, 1, 0, 0, 0, 0))
Returning == Scenario(Concluded(Settled(Registered(Observed), r1), r1), Bound(0, 0, 2, 2, 1, 1, 1, 0, 0, 2))
(* a register to be made, with a record waiting for it *)
Founding == Scenario(Settled(Observed, r1), Bound(0, 0, 1, 1, 1, 2, 0, 0, 0, 1))

AllScenarios == {Marking, Casing, Sharing, Moving, Standing, Returning, Founding}
Symmetric == Permutations(Processes)
=============================================================================
