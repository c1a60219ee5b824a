---------------------------- MODULE Confirmation ----------------------------
(***************************************************************************)
(* How a transcript of one record is taken in and confirmed by a human:    *)
(* language preparation (application/transcript_language.py), ingest       *)
(* (application/ingest.py), attestation of a separate full text            *)
(* (application/fulltext.py), confirmation (application/confirmation.py),  *)
(* withdrawal and its undoing (application/decision_actions.py), together  *)
(* with the register acts of InstanceRegistry, each written through        *)
(* OperationRecovery; and the status that replay computes from the journal *)
(* (application/replay.py, application/freshness.py).                      *)
(*                                                                         *)
(* A revision stands for the whole chain of its SRT bytes, its language    *)
(* assignment and its canonical bytes, each a function of the others; the  *)
(* marker of a confirmation is a function of the revision it marks.        *)
(***************************************************************************)
EXTENDS InstanceRegistry

CONSTANTS
    Revisions,      \* transcript revisions of the record
    Fulltexts       \* text files a revision may be said to come from

ASSUME ConfirmationAssumption == None \notin Revisions /\ None \notin Fulltexts

VARIABLE activations    \* activation ids drawn so far; each draw is a new one

allvars == <<vars, activations>>

-----------------------------------------------------------------------------
(* What replay computes for the record.                                    *)

LatestOf(kinds) == Latest(Of(kinds))
ValueAt(i) == IF i = 0 THEN None ELSE journal[i].val

(* transcript.revision: bytes, activation epoch, receipt and source. *)
Revision == ValueAt(LatestOf({"revision"}))
Receipts == {"receipt", "attested"}
RevisionEpoch == LatestOf({"revision"} \cup Receipts)
ReceiptAt == LatestOf(Receipts)
SourceAt == LatestOf({"prepared"})

(* The receipt in force is the latest, of either kind.  One of the segment *)
(* projection was made from the language assignment and the SRT under it,  *)
(* an attestation from the separate full text.                             *)
Attested == ReceiptAt # 0 /\ journal[ReceiptAt].kind = "attested"
InputKind == IF Attested THEN "fulltext" ELSE "prepared"
InputAt == LatestOf({InputKind})
NamedInput == IF Attested THEN journal[ReceiptAt].who ELSE ValueAt(ReceiptAt)

(* freshness._check_refs on the receipt: digest and journal activation of  *)
(* the current source.                                                     *)
RevisionFresh ==
    ReceiptAt # 0 => NamedInput = ValueAt(InputAt) /\ InputAt < ReceiptAt

RevisionUsable ==
    /\ Revision # None
    /\ ReceiptAt # 0 => ValueAt(ReceiptAt) = Revision
    /\ RevisionFresh

(* The withdrawal in effect after the first n events: its digest, or 0. *)
WithdrawalAt(n) ==
    LET last == Latest({i \in Of({"withdraw"}) : i <= n})
    IN  IF \E u \in Of({"undo"}) : last < u /\ u <= n /\ journal[u].ref = last
        THEN 0 ELSE last

Withdrawal == WithdrawalAt(Len(journal))

(* A decision made while a withdrawal is in effect has no effect, unless   *)
(* it is a further withdrawal or the undoing of that one.                  *)
EffectiveDecisions ==
    {i \in Of(Verdicts) :
        \/ journal[i].kind = "withdraw"
        \/ journal[i].kind = "undo" /\ journal[i].ref = WithdrawalAt(i - 1)
        \/ journal[i].kind = "accept" /\ WithdrawalAt(i) = 0}

\* Mutant: once a withdrawal is undone the acceptance before it counts again
DecisionAtAcceptance ==
    LET accepts == {i \in EffectiveDecisions : journal[i].kind = "accept"}
    IN  IF accepts # {} /\ Withdrawal = 0 THEN Latest(accepts) ELSE Latest(EffectiveDecisions)

DecisionAt == Latest(EffectiveDecisions)
Accepted == DecisionAt # 0 /\ journal[DecisionAt].kind = "accept"

Marker == ValueAt(LatestOf({"marker"}))

DecisionFresh ==
    Accepted => journal[DecisionAt].val = Revision /\ RevisionEpoch <= DecisionAt

(* transcript.confirmed is READY: bound, fresh, decided on its bytes, and  *)
(* what it depends on is usable.                                           *)
ConfirmedUsable ==
    /\ Marker # None
    /\ Of({"anchor"}) # {}
    /\ DecisionFresh
    /\ RevisionUsable
    /\ Withdrawal = 0
    /\ Accepted
    /\ journal[DecisionAt].val = Marker

-----------------------------------------------------------------------------
(* Planning.                                                               *)

(* plan_language_prepare wants an active instance, which the receipt names. *)
PlanPrepare(p) ==
    \E r \in Revisions, h \in Coders :
        /\ Folds
        /\ Active(h)
        /\ Plan(p, "prepare", [Operation("prepare", r, h, 0, {r}, <<Effect("prepared", r, h, 0)>>)
                      EXCEPT !.current = TRUE])
        /\ UNCHANGED activations

\* Mutant: the bytes are activated before their receipt
PlanIngestSwapped(p) ==
    \E r \in Revisions :
        LET receipt == Latest({i \in Of({"prepared"}) : journal[i].val = r})
        IN  /\ receipt # 0
            /\ Plan(p, "ingest", [Operation("ingest", r, None, receipt, {r},
                            <<Effect("revision", r, None, 0), Effect("receipt", r, None, 0)>>)
                          EXCEPT !.current = TRUE])
            /\ UNCHANGED activations

(* The assignment is rebuilt and held against any receipt of it. *)
PlanIngest(p) ==
    \E r \in Revisions :
        LET receipt == Latest({i \in Of({"prepared"}) : journal[i].val = r})
        IN  /\ receipt # 0
            /\ Plan(p, "ingest", [Operation("ingest", r, None, receipt, {r},
                            <<Effect("receipt", r, None, 0), Effect("revision", r, None, 0)>>)
                          EXCEPT !.current = TRUE])
            /\ UNCHANGED activations

(* plan_fulltext_prepare attests the revision produced last, whatever its  *)
(* state.                                                                  *)
PlanFulltext(p) ==
    \E f \in Fulltexts :
        /\ Revision # None
        /\ Plan(p, "fulltext", Operation("fulltext", Revision, f, 0, {f},
                <<Effect("fulltext", f, None, 0), Effect("attested", Revision, f, 0)>>))
        /\ UNCHANGED activations

(* Human-registry history, including one that came and went. *)
HumanEvents == Of({"registered", "retired"})

(* The actor is named, or is the only active human.  The plan keeps what   *)
(* the preview was built from.                                             *)
Seen(h, automatic) ==
    [actor |-> StateOf(h),
     humans |-> IF automatic THEN HumanEvents ELSE None,
     revision |-> LatestOf({"revision"}),
     confirmation |-> <<LatestOf({"marker"}), LatestOf(Verdicts)>>]

PlanConfirm(p) ==
    \E h \in Coders, automatic \in BOOLEAN :
        /\ Folds
        /\ Active(h)
        /\ automatic => ActiveHumans = {h}
        /\ Revision # None
        /\ \E i \in Of({"receipt"}) : journal[i].val = Revision
        /\ activations' = activations + 1
        /\ Plan(p, "confirm", [Operation("confirm", Revision, h, activations', {MarkerObject(Revision)},
                        <<Effect("marker", Revision, None, 0),
                          Effect("accept", Revision, h, activations')>>)
                      EXCEPT !.seen = Seen(h, automatic)])

-----------------------------------------------------------------------------
(* Writing.                                                                *)

(* write_language_prepare, before the lock: the latest receipt may be the   *)
(* planned one already.                                                    *)
PreparedAlready(o) == \E i \in {SourceAt} \ {0} : Payload(journal[i]) = o.effects[1]

CheckPrepare(p) ==
    /\ pc[p] = "planned"
    /\ op[p].cmd = "prepare"
    /\ \/ PreparedAlready(op[p]) /\ End(p, "NULLDURCHGANG")
       \/ ~PreparedAlready(op[p]) /\ Goto(p, "enter") /\ UNCHANGED report
    /\ UNCHANGED <<journal, objects, wlock, op, left, activations>>

(* write_b3b_ingest_srt, before the lock: a revision that is current but   *)
(* no longer fresh is written once more; one that is fresh is left alone.  *)
CheckIngest(p) ==
    LET r == op[p].intent.val
        renew == Revision # None /\ ~RevisionFresh
    IN  /\ pc[p] = "planned"
        /\ op[p].cmd = "ingest"
        /\ \/ /\ Revision = r
              /\ ~renew
              /\ End(p, IF \E i \in Of({"receipt"}) : journal[i].val = r
                        THEN "NULLDURCHGANG" ELSE "STOP")
              /\ UNCHANGED op
           \/ /\ Revision # r \/ renew
              /\ Goto(p, "enter")
              /\ op' = [op EXCEPT ![p].renew = renew]
              /\ UNCHANGED report
        /\ UNCHANGED <<journal, objects, wlock, left, activations>>

(* write_fulltext_prepare, before the lock: any attestation of these two   *)
(* counts, whatever has come after it.                                     *)
CheckFulltext(p) ==
    /\ pc[p] = "planned"
    /\ op[p].cmd = "fulltext"
    /\ IF \E i \in Of({"attested"}) : Payload(journal[i]) = op[p].effects[2]
       THEN End(p, "NULLDURCHGANG")
       ELSE Goto(p, "enter") /\ UNCHANGED report
    /\ UNCHANGED <<journal, objects, wlock, op, left, activations>>

(* write_confirmation checks nothing before the lock. *)
AnswerConfirm(p) ==
    /\ pc[p] = "planned"
    /\ op[p].cmd = "confirm"
    /\ Goto(p, "enter")
    /\ UNCHANGED <<journal, objects, wlock, op, report, left, activations>>

(* _checked_intent, under the lock. *)
OwnRetry(o) ==
    /\ Marker = o.intent.val
    /\ \E i \in {LatestOf(Verdicts)} \ {0} : Payload(journal[i]) = o.effects[2]

\* Mutant: the revision's bytes are compared, not the event that activated them,
\* and the state of the confirmation is not compared at all
StaleBytesOnly(o) ==
    \/ ~Active(o.intent.who)
    \/ StateOf(o.intent.who) # o.seen.actor
    \/ Revision # o.intent.val

Stale(o) ==
    \/ ~Active(o.intent.who)
    \/ StateOf(o.intent.who) # o.seen.actor
    \/ o.seen.humans # None /\ HumanEvents # o.seen.humans
    \/ LatestOf({"revision"}) # o.seen.revision
    \/ /\ <<LatestOf({"marker"}), LatestOf(Verdicts)>> # o.seen.confirmation
       /\ ~OwnRetry(o)

(* A register that does not fold raises past _StaleConfirmation. *)
Refusal(o) ==
    CASE ~Folds -> "STOP"
      [] Folds /\ Stale(o) -> "STALE"
      [] OTHER -> None

EnterConfirm(p) ==
    /\ op[p].cmd = "confirm"
    /\ Enter(p, Refusal(op[p]))
    /\ UNCHANGED activations

(* The other intents are built from the plan alone and refuse nothing. *)
EnterAs(p, cmd) == op[p].cmd = cmd /\ Enter(p, None) /\ UNCHANGED activations

EnterPrepare(p) == EnterAs(p, "prepare")
EnterIngest(p) == EnterAs(p, "ingest")
EnterFulltext(p) == EnterAs(p, "fulltext")

LeaveTranscript(p) ==
    /\ op[p].cmd \in {"prepare", "ingest", "fulltext"}
    /\ Leave(p, "idle", "WRITTEN")
    /\ UNCHANGED activations

(* After the lock the binding evidence is added if no exact one is there.  *)
LeaveConfirm(p) ==
    /\ op[p].cmd = "confirm"
    /\ Leave(p, "anchor", "none")
    /\ UNCHANGED activations

\* Mutant: the evidence is added only when the activation was found in effect
AnchorInNullOnly(p) ==
    /\ pc[p] = "anchor"
    /\ journal' = IF Of({"anchor"}) # {} \/ op[p].wrote THEN journal
                  ELSE Append(journal, Effect("anchor", None, None, 0))
    /\ End(p, IF op[p].wrote THEN "WRITTEN" ELSE "NULLDURCHGANG")
    /\ UNCHANGED <<objects, wlock, op, left, activations>>

Anchor(p) ==
    /\ pc[p] = "anchor"
    /\ journal' = IF Of({"anchor"}) # {} THEN journal
                  ELSE Append(journal, Effect("anchor", None, None, 0))
    /\ End(p, IF op[p].wrote THEN "WRITTEN" ELSE "NULLDURCHGANG")
    /\ UNCHANGED <<objects, wlock, op, left, activations>>

(* write_action: one act under both locks, no plan and no preview. *)
Act(p, verdict, ref) ==
    \E h \in Coders :
        /\ pc[p] = "idle"
        /\ wlock = None
        /\ Folds
        /\ Active(h)
        /\ Marker # None
        /\ Spend("act")
        /\ journal' = Append(journal, Effect(verdict, Marker, h, ref))
        /\ UNCHANGED <<objects, wlock, pc, op, report, activations>>

Withdraw(p) == Act(p, "withdraw", 0)

Undo(p) == Withdrawal # 0 /\ Act(p, "undo", Withdrawal)

-----------------------------------------------------------------------------
ConfirmationInit == Init /\ activations = 0

(* What a writer does on its own once its plan was confirmed. *)
Work(p) ==
    \/ EnterConfirm(p) \/ EnterPrepare(p) \/ EnterIngest(p) \/ EnterFulltext(p)
    \/ LeaveTranscript(p) \/ LeaveConfirm(p) \/ Anchor(p)
    \/ Execute(p) /\ UNCHANGED activations
    \/ (EnterRegistry(p) \/ LeaveRegistry(p)) /\ UNCHANGED activations

Answer(p) ==
    \/ CheckPrepare(p) \/ CheckIngest(p) \/ CheckFulltext(p) \/ AnswerConfirm(p)
    \/ CheckRegistry(p) /\ UNCHANGED activations

ConfirmationNext ==
    \E p \in Processes :
        \/ (PlanRegister(p) \/ PlanRetire(p)) /\ UNCHANGED activations
        \/ PlanPrepare(p) \/ PlanIngest(p) \/ PlanFulltext(p) \/ PlanConfirm(p)
        \/ Answer(p) \/ Work(p)
        \/ Withdraw(p) \/ Undo(p)
        \/ (Abort(p) \/ Kill(p) \/ Raise(p)) /\ UNCHANGED activations

ConfirmationSpec == ConfirmationInit /\ [][ConfirmationNext]_allvars

(* A writer that runs is scheduled, and flock serves its waiters.  Nobody  *)
(* has to plan, to answer a prompt, or to die.                             *)
FairConfirmationSpec ==
    /\ ConfirmationSpec
    /\ \A p \in Processes : WF_allvars(Work(p)) /\ SF_allvars(pc[p] = "enter" /\ Work(p))

-----------------------------------------------------------------------------
(* What disturbs a confirmation: another revision or receipt of it, a      *)
(* withdrawal, and another source of what the receipt in force names.      *)
Disturbing == {"revision", "withdraw", "undo", InputKind} \cup Receipts

(* The record's confirmation is usable only on the strength of a decision  *)
(* on exactly the current revision, made after everything that could have  *)
(* changed it.  In particular a revision that comes back after another one *)
(* does not bring its old confirmation back (replay, freshness).           *)
UsableMeansUndisturbed ==
    ConfirmedUsable =>
        \E d \in Of({"accept"}) :
            /\ journal[d].val = Revision
            /\ \A i \in Of(Disturbing) : i < d

(* A decision is recorded only while everything its preview was built from *)
(* still stands: the revision event, the actor's registration, with        *)
(* automatic choice the whole human register, and the confirmation, where  *)
(* only this operation's own marker has come in between (_checked_intent,  *)
(* whose check is older than the step that records the decision).          *)
DecidesNow(p) ==
    /\ pc[p] = "effect"
    /\ Len(journal') > Len(journal)
    /\ journal'[Len(journal')].kind = "accept"

DecidedAsSeen ==
    [][\A p \in Processes : DecidesNow(p) =>
          LET o == op[p]
          IN  /\ Active(o.intent.who)
              /\ StateOf(o.intent.who) = o.seen.actor
              /\ o.seen.humans # None => HumanEvents = o.seen.humans
              /\ LatestOf({"revision"}) = o.seen.revision
              /\ LatestOf(Verdicts) = o.seen.confirmation[2]
              /\ \A i \in Of({"marker"}) :
                     i > o.seen.confirmation[1] => journal[i].by = o.intent]_allvars

(* The effects of an operation stand in the order its intent declares,     *)
(* also across interleaved, broken off and repeated operations: revision   *)
(* bytes are activated right on their own receipt, and a decision comes    *)
(* after the marker it decides on.  One activation id is decided once,     *)
(* however often its plan is handed to the writer again (own_retry).       *)
EffectsInOrder ==
    /\ \A i \in Of({"revision"}) :
          LET r == Latest({k \in Of({"receipt"}) : k < i})
          IN  r # 0 /\ journal[r].val = journal[i].val
    /\ \A i \in Of({"accept"}) :
          \E k \in Of({"marker"}) : k < i /\ journal[k].val = journal[i].val
    /\ \A i, j \in Of({"accept"}) : journal[i].ref = journal[j].ref => i = j

(* confirmation.py:297 and :312: a confirmation reported as written or as  *)
(* already in effect is in effect, as long as nothing has disturbed it, it *)
(* was not made during a withdrawal, and the revision itself is usable.    *)
Confirmed(p) == op[p].cmd = "confirm" /\ report[p] \in {"WRITTEN", "NULLDURCHGANG"}

StillStands(p) ==
    /\ RevisionUsable
    /\ Withdrawal = 0
    /\ \E d \in Of({"accept"}) :
          /\ journal[d].ref = op[p].intent.ref
          /\ \A i \in Of(Disturbing) : i < d

WrittenIsEffective ==
    \A p \in Processes : Confirmed(p) /\ StillStands(p) => ConfirmedUsable

(* The same where the revision was not confirmed, superseded by another    *)
(* confirmed one, and has come back: this holds.                           *)
WrittenIsEffectiveUnlessBack ==
    \A p \in Processes :
        Confirmed(p) /\ StillStands(p) /\ Marker = op[p].intent.val => ConfirmedUsable

(* Liveness: a writer whose plan was confirmed comes to its end, whoever   *)
(* else works, fails or dies meanwhile.                                    *)
WriterEnds == \A p \in Processes : pc[p] \in Working ~> pc[p] \in {"idle", "planned"}
=============================================================================
