----------------------------- MODULE ManualWork -----------------------------
(***************************************************************************)
(* application/manual_work.py: the sessions in which humans mark a text    *)
(* and work through its cases.  A session reads once, holds nothing while  *)
(* it is open, and is checked again under the locks whenever it saves or   *)
(* publishes.  The locks of the workspace, of the stores and of the        *)
(* journal are taken together and never waited for: one holder.            *)
(***************************************************************************)
EXTENDS ManualEvidence

CONSTANTS
    Processes,
    Humans,
    Texts,
    Policies,
    Scenarios

VARIABLES
    view,       \* what the journal proves
    policy,     \* the policy in the profile file
    head,       \* the head of the register's store
    holder,     \* the process that holds the locks
    job,        \* what each process is about
    left        \* what may still happen (a bound)

vars == <<view, policy, head, holder, job, left>>

Idle == [kind |-> "idle"]

(* Of each kind of event so many more. *)
Spend(item) == left[item] > 0 /\ left' = [left EXCEPT ![item] = @ - 1]

-----------------------------------------------------------------------------
(* snapshot: no finding, no withdrawal, the stores whole, a human at work, *)
(* and everything there that the act needs.                                *)
Unblocked(r) == r \notin view.findings /\ ~Withdrawn(view, r) /\ HeadIsNamed(view, head)
MaySnapshot(r, phase, actor) == Unblocked(r) /\ actor \in view.active /\ HasBasis(view, r, phase)

(* refresh: whoever comes to work observes the policy first, and whoever   *)
(* finds it changed under the locks observes it before giving up.          *)
Refresh ==
    /\ holder = None
    /\ ~(Records \subseteq view.findings)
    /\ policy # view.sources[Policy].sha
    /\ view' = PolicySeen(view, policy)
    /\ UNCHANGED <<policy, head, holder, job, left>>

(* checkpoint_completed: a completed act confirmed exactly this revision. *)
CheckpointCompleted(r, phase, c) ==
    \E i \in view.done : /\ view.plans[i].rec = r /\ view.plans[i].phase = phase
                         /\ view.plans[i].checkpoint = c

(* Session.__init__: a new session, which takes over nobody's unfinished   *)
(* work, or one's own of last time.                                        *)
NewSession(p, r, phase, h) ==
    LET previous == view.checkpoint[r][phase]
    IN  /\ job[p] = Idle
        /\ Spend("session")
        /\ view.sources[Policy].sha # None
        /\ MaySnapshot(r, phase, h)
        /\ previous # Unsaved => previous.actor = h \/ CheckpointCompleted(r, phase, previous)
        /\ phase = "pseudonymise" => Draft \notin Have(view, r)
        /\ job' = [job EXCEPT ![p] =
                     [kind |-> "session", rec |-> r, phase |-> phase, actor |-> h,
                      basis |-> Basis(view, r, phase), previous |-> previous,
                      session |-> left["session"], revision |-> 0, act |-> 0]]
        /\ UNCHANGED <<view, policy, head, holder>>

Resume(p, r, phase, h) ==
    LET previous == view.checkpoint[r][phase]
    IN  /\ job[p] = Idle /\ previous # Unsaved
        /\ Spend("session")
        /\ MaySnapshot(r, phase, h)
        /\ holder = None
        /\ previous.actor = h /\ previous.basis = Basis(view, r, phase)
        /\ policy = previous.basis[Policy].sha
        /\ job' = [job EXCEPT ![p] =
                     [kind |-> "session", rec |-> r, phase |-> phase, actor |-> h,
                      basis |-> previous.basis, previous |-> previous,
                      session |-> previous.session, revision |-> previous.revision, act |-> 0]]
        /\ UNCHANGED <<view, policy, head, holder>>

\* Mutant: whatever has been saved meanwhile
BasisStands(s) ==
    /\ MaySnapshot(s.rec, s.phase, s.actor)
    /\ Basis(view, s.rec, s.phase) = s.basis
    /\ policy = s.basis[Policy].sha

(* _recheck, under the locks, with the policy read once more. *)
SessionStands(s) ==
    /\ MaySnapshot(s.rec, s.phase, s.actor)
    /\ Basis(view, s.rec, s.phase) = s.basis
    /\ policy = s.basis[Policy].sha
    /\ view.checkpoint[s.rec][s.phase] = s.previous

(* save: what the human has made of it; cases may stay open. *)
Save(p, open) ==
    LET s == job[p]
        c == [session |-> s.session, revision |-> s.revision + 1, previous |-> s.revision,
              actor |-> s.actor, basis |-> s.basis, open |-> open]
    IN  /\ s.kind = "session" /\ s.act = 0
        /\ s.phase # "pseudonymise"
        /\ holder = None
        /\ Spend("save")
        /\ SessionStands(s)
        /\ view' = Checkpointed(view, s.rec, s.phase, c)
        /\ job' = [job EXCEPT ![p].previous = c, ![p].revision = @ + 1]
        /\ UNCHANGED <<policy, head, holder>>

(* publish: the revision that was saved and shown.  A draft is made from   *)
(* the marked spans and the policy alone.                                  *)
PublishPrepare(p) ==
    LET s == job[p]
        made == IF s.phase = "pseudonymise"
                THEN [of |-> Draft, spans |-> s.basis[Spans].sha, policy |-> s.basis[Policy].sha]
                ELSE [of |-> Made(s.phase), act |-> Len(view.plans) + 1, open |-> s.previous.open]
        plan == [rec |-> s.rec, phase |-> s.phase, basis |-> s.basis, actor |-> s.actor,
                 checkpoint |-> IF s.phase = "pseudonymise" THEN Unsaved ELSE s.previous,
                 before |-> NoRegister, after |-> NoRegister, made |-> made, at |-> 0]
    IN  /\ s.kind = "session" /\ s.act = 0
        /\ s.phase # "pseudonymise" => s.revision > 0
        /\ holder = None
        /\ SessionStands(s)
        /\ view' = Prepared(view, plan)
        /\ holder' = p
        /\ job' = [job EXCEPT ![p].act = Len(view'.plans)]
        /\ UNCHANGED <<policy, head, left>>

PublishComplete(p) ==
    /\ job[p].kind = "session" /\ job[p].act # 0
    /\ view' = Completed(view, job[p].act)
    /\ job' = [job EXCEPT ![p] = Idle]
    /\ holder' = None
    /\ UNCHANGED <<policy, head, left>>

(* recover: the first interrupted act of the record, if it still stands;   *)
(* there is no way to end one that does not.                               *)
RecoverManual(r, h) ==
    /\ holder = None
    /\ Open(view, r, P4b) # {}
    /\ LET i == FirstOpen(view, r, P4b)
           act == view.plans[i]
       IN  /\ MaySnapshot(r, act.phase, h)
           /\ act.actor = h
           /\ Basis(view, r, act.phase) = act.basis
           /\ policy = act.basis[Policy].sha
           /\ act.checkpoint # Unsaved => view.checkpoint[r][act.phase] = act.checkpoint
           /\ view' = Completed(view, i)
    /\ UNCHANGED <<policy, head, holder, job, left>>

(* A session is closed or refused. *)
Close(p) ==
    /\ job[p] # Idle /\ holder # p
    /\ job' = [job EXCEPT ![p] = Idle]
    /\ UNCHANGED <<view, policy, head, holder, left>>

(* The process dies or fails at the stores: what is done stays done. *)
Fail(p) ==
    /\ holder = p
    /\ Spend("fail")
    /\ job' = [job EXCEPT ![p] = Idle]
    /\ holder' = None
    /\ UNCHANGED <<view, policy, head>>

-----------------------------------------------------------------------------
(* What others do meanwhile. *)
EditPolicy(x) ==
    /\ policy # x /\ policy' = x
    /\ Spend("edit")
    /\ UNCHANGED <<view, head, holder, job>>

ConfirmText(r, x) ==
    /\ holder = None
    /\ Spend("text")
    /\ view' = TextConfirmed(view, r, x)
    /\ UNCHANGED <<policy, head, holder, job>>

Retire(h) ==
    /\ holder = None
    /\ h \in view.active
    /\ Spend("retire")
    /\ view' = Retired(view, h)
    /\ UNCHANGED <<policy, head, holder, job>>

(* write_action: it asks only whether the journal is consistent. *)
Decide(r, a) ==
    /\ holder = None
    /\ r \notin view.findings
    /\ view.facts[r][a].sha # None
    /\ Spend("decide")
    /\ view' = Decided(view, r, a, IF view.facts[r][a].withdrawn THEN "UNDO" ELSE "WITHDRAW")
    /\ UNCHANGED <<policy, head, holder, job>>

ManualNext ==
    \/ Refresh
    \/ \E p \in Processes, r \in Records, phase \in P4b, h \in Humans :
         NewSession(p, r, phase, h) \/ Resume(p, r, phase, h)
    \/ \E p \in Processes : \/ \E open \in BOOLEAN : Save(p, open)
                            \/ PublishPrepare(p) \/ PublishComplete(p)
                            \/ Close(p) \/ Fail(p)
    \/ \E r \in Records, h \in Humans : RecoverManual(r, h)
    \/ \E x \in Policies : EditPolicy(x)
    \/ \E r \in Records : (\E x \in Texts : ConfirmText(r, x)) \/ (\E a \in Human : Decide(r, a))
    \/ \E h \in Humans : Retire(h)
=============================================================================
