------------------------- MODULE OperationRecovery -------------------------
(***************************************************************************)
(* execute_intent (application/operation_recovery.py): how a writer puts   *)
(* an operation of several events on record.  Under the workspace lock it  *)
(* stores the operation's objects and its retry intent, records the        *)
(* intent, and then appends one effect after the other, each unless it is  *)
(* a duplicate, so that an operation broken off anywhere can be run again. *)
(*                                                                         *)
(* The journal is taken here as what Journal.tla shows it to be: one log,  *)
(* appended to atomically.  A digest of an event is its position.  Modules *)
(* that EXTEND this one say which operations are planned, what is checked  *)
(* before they are written, and what follows.                              *)
(***************************************************************************)
EXTENDS Integers, Sequences, FiniteSets, FiniteSetsExt

CONSTANTS
    Processes,      \* processes of ohpipe on one workspace
    Budgets,        \* bound: how often the commands are planned and faults happen,
                    \* and whether one process is alone
    None            \* no value

Items ==
    {"registry", "prepare", "ingest", "fulltext", "confirm", "act", "fault", "alone"}

Reports == {"none", "WRITTEN", "NULLDURCHGANG", "STALE", "STOP", "ABORTED"}

ASSUME ProcessesAssumption ==
    None \notin Processes \cup Reports /\ Budgets \subseteq [Items -> Nat]

VARIABLES
    journal,    \* the events, in order
    objects,    \* addresses in the content store
    wlock,      \* holder of the workspace write lock, or None
    pc,         \* control state of each process
    op,         \* the operation a process has planned, or NoOperation
    report,     \* how its last operation ended
    left        \* what is left of the budget this behaviour has

vars == <<journal, objects, wlock, pc, op, report, left>>

(* An event, and the same event as a planned effect (by = None).  by is    *)
(* the operation intent an event belongs to.                               *)
Stamp(effect, intent) == [effect EXCEPT !.by = intent]
Payload(e) == [e EXCEPT !.by = None]

Effect(kind, val, who, ref) ==
    [kind |-> kind, val |-> val, who |-> who, ref |-> ref, by |-> None]

(* Two events of one kind, record, artifact, target and kind of receipt. *)
Verdicts == {"accept", "withdraw", "undo"}
SameSlot(e, f) == e.kind = f.kind \/ {e.kind, f.kind} \subseteq Verdicts

Positions == 1..Len(journal)
Latest(S) == IF S = {} THEN 0 ELSE Max(S)
Of(kinds) == {i \in Positions : journal[i].kind \in kinds}

(* The store addresses an event names. *)
MarkerObject(val) == [marker |-> val]
Addresses(e) ==
    CASE e.kind = "intent" -> {e.by}
      [] e.kind = "marker" -> {MarkerObject(e.val)}
      [] e.kind \in {"prepared", "receipt", "revision", "fulltext"} -> {e.val}
      [] e.kind = "attested" -> {e.val, e.who}
      [] OTHER -> {}

Working == {"enter", "objects", "intent", "latest", "effect", "verify", "anchor"}

Operation(cmd, val, who, ref, objs, effects) ==
    [cmd |-> cmd,
     intent |-> [cmd |-> cmd, val |-> val, who |-> who, ref |-> ref],
     objs |-> objs,
     effects |-> effects,
     current |-> FALSE, renew |-> FALSE,    \* current_effects, renew_effects
     seen |-> None,                         \* what the preview was built from
     next |-> 1, last |-> 0,                \* the next effect; latest.seq
     wrote |-> FALSE]                       \* some event was new

NoOperation == Operation("none", None, None, 0, {}, << >>)

Init ==
    /\ journal = << >>
    /\ objects = {}
    /\ wlock = None
    /\ pc = [p \in Processes |-> "idle"]
    /\ op = [p \in Processes |-> NoOperation]
    /\ report = [p \in Processes |-> "none"]
    /\ left \in Budgets

Spend(item) == left[item] > 0 /\ left' = [left EXCEPT ![item] = @ - 1]

Goto(p, l) == pc' = [pc EXCEPT ![p] = l]
End(p, r) == pc' = [pc EXCEPT ![p] = "idle"] /\ report' = [report EXCEPT ![p] = r]

(* A preview is built from the journal as it is read now, without a lock,  *)
(* and shown.  What the human answers comes later, or never.               *)
Plan(p, item, o) ==
    /\ pc[p] = "idle"
    /\ left["alone"] = 1 => \A q \in Processes \ {p} : op[q] = NoOperation
    /\ Spend(item)
    /\ op' = [op EXCEPT ![p] = o]
    /\ report' = [report EXCEPT ![p] = "none"]
    /\ Goto(p, "planned")
    /\ UNCHANGED <<journal, objects, wlock>>

Abort(p) ==
    /\ pc[p] = "planned"
    /\ End(p, "ABORTED")
    /\ UNCHANGED <<journal, objects, wlock, op, left>>

\* Mutant: a stale plan is refused without giving the lock back
EnterKeepsLock(p, refusal) ==
    /\ pc[p] = "enter"
    /\ wlock = None
    /\ wlock' = p
    /\ \/ refusal = None /\ Goto(p, "objects") /\ UNCHANGED report
       \/ refusal # None /\ End(p, refusal)
    /\ op' = [op EXCEPT ![p].next = 1, ![p].wrote = FALSE]
    /\ UNCHANGED <<journal, objects, left>>

(* The workspace lock is taken and the intent built.  An intent_factory    *)
(* that refuses the plan raises, which gives the lock back at once.        *)
Enter(p, refusal) ==
    /\ pc[p] = "enter"
    /\ wlock = None
    /\ \/ refusal = None /\ wlock' = p /\ Goto(p, "objects") /\ UNCHANGED report
       \/ refusal # None /\ End(p, refusal) /\ UNCHANGED wlock
    /\ op' = [op EXCEPT ![p].next = 1, ![p].wrote = FALSE]
    /\ UNCHANGED <<journal, objects, left>>

\* Mutant: only the intent is stored before it is recorded
PutIntentOnly(p) ==
    /\ pc[p] = "objects"
    /\ objects' = objects \cup {op[p].intent}
    /\ Goto(p, "intent")
    /\ UNCHANGED <<journal, wlock, op, report, left>>

(* pre_intent_objects, then the intent's own bytes. *)
PutObjects(p) ==
    /\ pc[p] = "objects"
    /\ objects' = objects \cup op[p].objs \cup {op[p].intent}
    /\ Goto(p, "intent")
    /\ UNCHANGED <<journal, wlock, op, report, left>>

NextEffect(o) == IF o.current THEN "latest" ELSE "effect"

\* Mutant: the intent is recorded once per kind, the default duplicate rule
RecordIntentOncePerKind(p) ==
    LET known == Of({"intent"}) # {}
    IN  /\ pc[p] = "intent"
        /\ journal' = IF known THEN journal
                      ELSE Append(journal, Stamp(Effect("intent", None, None, 0), op[p].intent))
        /\ op' = [op EXCEPT ![p].wrote = ~known]
        /\ Goto(p, NextEffect(op[p]))
        /\ UNCHANGED <<objects, wlock, report, left>>

RecordIntent(p) ==
    LET known == \E i \in Of({"intent"}) : journal[i].by = op[p].intent
    IN  /\ pc[p] = "intent"
        /\ journal' = IF known THEN journal
                      ELSE Append(journal, Stamp(Effect("intent", None, None, 0), op[p].intent))
        /\ op' = [op EXCEPT ![p].wrote = ~known]
        /\ Goto(p, NextEffect(op[p]))
        /\ UNCHANGED <<objects, wlock, report, left>>

(* The latest event of the effect's slot is looked up without the          *)
(* journal's lock; only current_effects compares with it.                  *)
ReadLatest(p) ==
    LET o == op[p]
    IN  /\ pc[p] = "latest"
        /\ op' = [op EXCEPT ![p].last =
                     Latest({i \in Positions : SameSlot(journal[i], o.effects[o.next])})]
        /\ Goto(p, "effect")
        /\ UNCHANGED <<journal, objects, wlock, report, left>>

\* Mutant: no effect is ever taken for a duplicate
NeverDuplicate(o) == FALSE

DuplicateEffect(o) ==
    \E i \in Positions :
        /\ ~o.renew
        /\ Payload(journal[i]) = o.effects[o.next]
        /\ o.current => i = o.last

AppendEffect(p) ==
    LET o == op[p]
    IN  /\ pc[p] = "effect"
        /\ journal' = IF DuplicateEffect(o) THEN journal
                      ELSE Append(journal, Stamp(o.effects[o.next], o.intent))
        /\ op' = [op EXCEPT ![p].next = o.next + 1,
                            ![p].wrote = o.wrote \/ ~DuplicateEffect(o)]
        /\ Goto(p, IF o.next = Len(o.effects) THEN "verify" ELSE NextEffect(o))
        /\ UNCHANGED <<objects, wlock, report, left>>

(* journal.verify, store.verify of the intent, and out of the lock.        *)
Leave(p, then, r) ==
    /\ pc[p] = "verify"
    /\ wlock' = None
    /\ Goto(p, then)
    /\ report' = [report EXCEPT ![p] = r]
    /\ UNCHANGED <<journal, objects, op, left>>

(* A process is killed anywhere: its locks go, its plan is lost.           *)
Kill(p) ==
    /\ pc[p] # "idle"
    /\ Spend("fault")
    /\ wlock' = IF wlock = p THEN None ELSE wlock
    /\ Goto(p, "idle")
    /\ op' = [op EXCEPT ![p] = NoOperation]
    /\ report' = [report EXCEPT ![p] = "none"]
    /\ UNCHANGED <<journal, objects>>

(* A step raises: the locks are given back on the way out, and a caller    *)
(* that still holds the plan may hand it to the writer again.              *)
Raise(p) ==
    /\ pc[p] \in Working
    /\ Spend("fault")
    /\ wlock' = IF wlock = p THEN None ELSE wlock
    /\ Goto(p, "planned")
    /\ UNCHANGED <<journal, objects, op, report>>

(* The part of execute_intent that is the same for every operation. *)
Execute(p) ==
    \/ PutObjects(p) \/ RecordIntent(p) \/ ReadLatest(p) \/ AppendEffect(p)

-----------------------------------------------------------------------------
(* No event names bytes that are not in the store, and no effect stands in *)
(* the journal whose intent does not stand before it: whatever breaks off, *)
(* recovery finds the intent and its bytes (domain/operation.py            *)
(* classify_recovery works from the intent on record).                     *)
NothingDangling ==
    \A i \in Positions :
        /\ Addresses(journal[i]) \subseteq objects
        /\ journal[i].by # None =>
              \E k \in 1..i : journal[k].kind = "intent" /\ journal[k].by = journal[i].by
=============================================================================
