-------------------------- MODULE InstanceRegistry --------------------------
(***************************************************************************)
(* The register of coding instances (domain/instance.py) and the two acts  *)
(* that write it (application/instance_registry.py).  The register is a    *)
(* fold of the journal that raises on the first contradiction, and every   *)
(* act and every reader starts by folding it.                              *)
(***************************************************************************)
EXTENDS OperationRecovery

CONSTANTS
    Coders,         \* coder_id values, all of them human instances
    Labels,         \* what an id is bound to: source, label, model, parameters
    References      \* what a human may give as the reference of an act, numbered

ASSUME RegistryAssumption ==
    /\ None \notin Coders /\ None \notin Labels
    /\ References \subseteq Nat

Registrations(c) == {i \in Of({"registered"}) : journal[i].who = c}
Retirements(c) == {i \in Of({"retired"}) : journal[i].who = c}

(* from_events raises: an id bound again to something else, or bound again *)
(* after its retirement, or retired without being known.  The reference of *)
(* an act is no part of what is compared here (Instance.public_view).      *)
Contradiction(c) ==
    \/ \E i, j \in Registrations(c) : i < j /\ journal[i].val # journal[j].val
    \/ \E k \in Retirements(c), j \in Registrations(c) : k < j
    \/ \E k \in Retirements(c) : \A i \in Registrations(c) : k < i

Folds == \A c \in Coders : ~Contradiction(c)

Known(c) == Registrations(c) # {}
Retired(c) == Retirements(c) # {}
Active(c) == Known(c) /\ ~Retired(c)
ActiveHumans == {c \in Coders : Active(c)}
Binding(c) == journal[Min(Registrations(c))].val

(* event_digest of an active instance: the act that registered it first. *)
StateOf(c) == Min(Registrations(c))

-----------------------------------------------------------------------------
(* plan_register folds the register and validates the fields, no more.     *)
(* The payload carries the reference, and so do the intent and every       *)
(* comparison that execute_intent makes.                                   *)
PlanRegister(p) ==
    \E c \in Coders, l \in Labels, r \in References :
        /\ Folds
        /\ Plan(p, "registry", Operation("register", l, c, r, {}, <<Effect("registered", l, c, r)>>))

PlanRetire(p) ==
    \E c \in Coders, r \in References :
        /\ Folds
        /\ Active(c)
        /\ Plan(p, "registry", Operation("retire", None, c, r, {}, <<Effect("retired", None, c, r)>>))

(* What InstanceRegistry.register and .retire raise, and when they change  *)
(* nothing.                                                                *)
Refused(o) ==
    \/ ~Folds
    \/ o.cmd = "register" /\ Known(o.intent.who)
          /\ (Retired(o.intent.who) \/ Binding(o.intent.who) # o.intent.val)
    \/ o.cmd = "retire" /\ ~Known(o.intent.who)

Unchanged(o) == IF o.cmd = "register" THEN Known(o.intent.who) ELSE Retired(o.intent.who)

\* Mutant: the answer is not checked against the register again
CheckRegistryNot(p) ==
    /\ pc[p] = "planned"
    /\ op[p].cmd \in {"register", "retire"}
    /\ Goto(p, "enter")
    /\ UNCHANGED <<report, journal, objects, wlock, op, left>>

(* write_instance_plan looks at the register once more, before the         *)
(* workspace lock and not under it.                                        *)
CheckRegistry(p) ==
    /\ pc[p] = "planned"
    /\ op[p].cmd \in {"register", "retire"}
    /\ \/ Refused(op[p]) /\ End(p, "STOP")
       \/ ~Refused(op[p]) /\ Unchanged(op[p]) /\ End(p, "NULLDURCHGANG")
       \/ ~Refused(op[p]) /\ ~Unchanged(op[p]) /\ Goto(p, "enter") /\ UNCHANGED report
    /\ UNCHANGED <<journal, objects, wlock, op, left>>

EnterRegistry(p) ==
    /\ op[p].cmd \in {"register", "retire"}
    /\ Enter(p, None)

LeaveRegistry(p) ==
    /\ op[p].cmd \in {"register", "retire"}
    /\ Leave(p, "idle", "WRITTEN")

RegistryStep(p) ==
    \/ CheckRegistry(p) \/ EnterRegistry(p) \/ LeaveRegistry(p)
    \/ Execute(p)

RegistryNext ==
    \E p \in Processes :
        \/ PlanRegister(p) \/ PlanRetire(p) \/ RegistryStep(p)
        \/ Abort(p) \/ Kill(p) \/ Raise(p)

RegistrySpec == Init /\ [][RegistryNext]_vars

-----------------------------------------------------------------------------
(* instance_registry.py:112: an act that was reported as written has taken *)
(* effect after a full replay.  In particular the register still folds.    *)
WrittenRegisterFolds == (\E p \in Processes : report[p] = "WRITTEN") => Folds

(* However registry acts overlap, break off and are repeated: no id is     *)
(* retired before it was bound, and what is bound again after a retirement *)
(* is told by its payload from every registration before the retirement,   *)
(* so that no repetition of a registration brings a retired id back.  One  *)
(* with another binding, or with another reference, that was checked       *)
(* before the retirement and is written after it does come through (see    *)
(* WrittenRegisterFolds).                                                  *)
RetiredForGood ==
    \A c \in Coders : \A k \in Retirements(c) :
        /\ \E i \in Registrations(c) : i < k
        /\ \A i, j \in Registrations(c) :
              i < k /\ k < j => Payload(journal[i]) # Payload(journal[j])
=============================================================================
