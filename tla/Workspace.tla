----------------------------- MODULE Workspace -----------------------------
(***************************************************************************)
(* The commands on a data root beside one another: init and graph-upgrade, *)
(* which bind the root to the graph of a profile (project.py), continue,   *)
(* and the acts of humans at gates.  Every command names its profile       *)
(* itself, and none of these takes the workspace lock.                     *)
(***************************************************************************)
EXTENDS Continue, Ownership

CONSTANTS
    Scenarios,  \* bound: graphs in use, and how often what may happen
    Torn        \* the content of a binding that was never written

(* What a profile yields is what build_graph makes for it; for the profile *)
(* of a test, any graph the constructor lets pass.                         *)
Yielded(g) ==
    /\ g.steps \in Seq(StepType) /\ GraphOK(g)
    /\ g.profile \in {"sandbox", "model", "manual", "test"}
    /\ g.profile # "test" => g = BuildGraph(g.profile)

ASSUME WorkspaceAssumption ==
    /\ None # Torn
    /\ \A s \in Scenarios :
         /\ s.transfers \in Seq(Transfers)
         /\ \A ids \in s.profiles : \A id \in ids : id \notin {None, Torn} /\ Yielded(Yields(id))

VARIABLES
    binding,    \* graph-contract.json: None, Torn, or the graph it names
    journal,    \* per event, the graph under which it was written
    changes,    \* how often a binding was replaced, or one that could be read taken back
    left        \* what is left of the scenario's budget

bindingVars == <<binding, journal, changes>>
vars == <<recordVars, run, ownershipVars, bindingVars, left>>

Items == {"command", "act", "fall", "fault", "transfer"}
Spend(item) == left[item] > 0 /\ left' = [left EXCEPT ![item] = @ - 1]

(* Two profiles whose graphs agree in their fingerprint but not in their   *)
(* profile id are two contracts.                                           *)
SameContract(i, j) ==
    i = j \/ MatchesContext(GraphOf(j), GraphOf(i).profile, Fingerprint(GraphOf(i)))

BindingState(id) ==
    CASE binding = None -> "unbound"
      [] binding = Torn -> "invalid"
      [] OTHER -> IF SameContract(binding, id) THEN "current" ELSE "mismatch"

(* _graph_binding_or_halt *)
BindingHalt(id, pristineOk) ==
    IF journal = << >> /\ binding = None
    THEN IF pristineOk THEN "none" ELSE "NOT_INITIALISED"
    ELSE CASE BindingState(id) = "invalid" -> "BINDING_INVALID"
           [] BindingState(id) = "unbound" -> "UNBOUND"
           [] BindingState(id) = "mismatch" -> "MISMATCH"
           [] OTHER -> "none"

Init ==
    \E s \in Scenarios :
        /\ left = [item \in Items |-> s[item]]
        /\ \E ids \in s.profiles :
             /\ graphs = [id \in ids |-> Built(Yields(id))]
             /\ have = [id \in ids |-> {}]
             /\ raw = [id \in ids |-> {}]
             /\ plain = [id \in ids |-> {}]
             /\ IF s.bound THEN \E id \in ids : binding = id /\ journal = <<id>>
                ELSE binding = None /\ journal = << >>
        /\ transfers = s.transfers /\ index = s.transfers
        /\ findings = "none"
        /\ run = [p \in s.processes |-> NoRun]
        /\ changes = 0

InUse == DOMAIN have
Active == DOMAIN run

Ends(p, id, report) == run' = [run EXCEPT ![p] = EndedAs([NoRun EXCEPT !.id = id], report)]
Goes(p, at) == run' = [run EXCEPT ![p].at = at]

-----------------------------------------------------------------------------
(* init: checks first, then binds, then rebuilds the index, then makes its *)
(* entry in the journal.                                                   *)
StartInit(p, id) ==
    /\ run[p].at = "idle"
    /\ Spend("command")
    /\ IF BindingHalt(id, TRUE) # "none" THEN Ends(p, id, BindingHalt(id, TRUE))
       ELSE run' = [run EXCEPT ![p] = [NoRun EXCEPT !.at = "bind", !.id = id]]
    /\ UNCHANGED <<recordVars, ownershipVars, bindingVars>>

(* What lies there already is not looked at again.  bind_graph_initially   *)
(* has a root without a journal before it ...                              *)
Bind(p) ==
    /\ run[p].at = "bind"
    /\ Goes(p, IF binding # None THEN "index" ELSE "first")
    /\ UNCHANGED <<recordVars, ownershipVars, bindingVars, left>>

First(p) ==
    /\ run[p].at = "first"
    /\ IF journal = << >> THEN Goes(p, "create") ELSE Ends(p, run[p].id, "STOP")
    /\ UNCHANGED <<recordVars, ownershipVars, bindingVars, left>>

\* Mutant: the binding is created without O_EXCL
CreateOverwriting(p) ==
    /\ run[p].at = "create"
    /\ binding' = Torn /\ Goes(p, "write")
    /\ UNCHANGED <<recordVars, ownershipVars, journal, changes, left>>

(* ... and creates the file exclusively; if somebody was faster, what is   *)
(* there by then must be the same contract ...                             *)
Create(p) ==
    /\ run[p].at = "create"
    /\ \/ binding = None /\ binding' = Torn /\ Goes(p, "write")
       \/ binding # None /\ Goes(p, "compare") /\ UNCHANGED binding
    /\ UNCHANGED <<recordVars, ownershipVars, journal, changes, left>>

Compare(p) ==
    /\ run[p].at = "compare"
    /\ IF BindingState(run[p].id) = "current" THEN Goes(p, "index") ELSE Ends(p, run[p].id, "STOP")
    /\ UNCHANGED <<recordVars, ownershipVars, bindingVars, left>>

(* ... writes it, from where on everybody can read it, unless a replaced   *)
(* one lies at its name by now; and makes file and name durable.           *)
WriteBinding(p) ==
    /\ run[p].at = "write"
    /\ binding' = IF binding = Torn THEN run[p].id ELSE binding
    /\ Goes(p, "sync")
    /\ UNCHANGED <<recordVars, ownershipVars, journal, changes, left>>

SyncBinding(p) ==
    /\ run[p].at = "sync"
    /\ Goes(p, "index")
    /\ UNCHANGED <<recordVars, ownershipVars, bindingVars, left>>

(* If either fails, whatever lies at the name is removed, by whomever it   *)
(* was read or replaced in the meantime.                                   *)
WriteFails(p) ==
    /\ run[p].at \in {"write", "sync"}
    /\ Spend("fault")
    /\ binding' = None
    /\ changes' = IF binding = Torn THEN changes ELSE changes + 1
    /\ Ends(p, run[p].id, "STOP")
    /\ UNCHANGED <<recordVars, ownershipVars, journal>>

Index(p) ==
    /\ run[p].at = "index"
    /\ IF Drift THEN Ends(p, run[p].id, "LEDGER_UNBOUND") /\ UNCHANGED ownershipVars
       ELSE RebuildIndex /\ Goes(p, "enter")
    /\ UNCHANGED <<recordVars, bindingVars, left>>

(* workspace.initialised, once. *)
EnterJournal(p) ==
    /\ run[p].at = "enter"
    /\ journal' = IF journal = << >> THEN <<run[p].id>> ELSE journal
    /\ Ends(p, run[p].id, "INITIALISED")
    /\ UNCHANGED <<recordVars, ownershipVars, binding, changes, left>>

Replacing(id) == [NoRun EXCEPT !.at = "replace", !.id = id]

\* Mutant: a damaged binding is replaced like any other
UpgradeDamaged(p, id, target) ==
    /\ run[p].at = "idle"
    /\ Spend("command")
    /\ IF journal = << >> \/ ~SameContract(target, id) \/ BindingState(id) = "current" THEN Ends(p, id, "STOP")
       ELSE run' = [run EXCEPT ![p] = Replacing(id)]
    /\ UNCHANGED <<recordVars, ownershipVars, bindingVars>>

(* graph-upgrade --to target: the contract the human names must be the one *)
(* the profile yields; a damaged binding is not touched ...                *)
UpgradeHalt(id, target) ==
    CASE journal = << >> -> "NO_WORKSPACE"
      [] journal # << >> /\ ~SameContract(target, id) -> "TARGET"
      [] journal # << >> /\ SameContract(target, id) /\ BindingState(id) = "invalid" -> "BINDING_INVALID"
      [] journal # << >> /\ SameContract(target, id) /\ BindingState(id) = "current" -> "UPGRADED"
      [] OTHER -> "none"

Upgrade(p, id, target) ==
    /\ run[p].at = "idle"
    /\ Spend("command")
    /\ IF UpgradeHalt(id, target) # "none" THEN Ends(p, id, UpgradeHalt(id, target))
       ELSE run' = [run EXCEPT ![p] = Replacing(id)]
    /\ UNCHANGED <<recordVars, ownershipVars, bindingVars>>

(* ... and what lies at the name then is replaced as a whole, also when    *)
(* the sync of the directory fails after it.                               *)
Replace(p) ==
    /\ run[p].at = "replace"
    /\ binding' = run[p].id
    /\ changes' = changes + 1
    /\ \/ Ends(p, run[p].id, "UPGRADED") /\ UNCHANGED left
       \/ Ends(p, run[p].id, "STOP") /\ Spend("fault")
    /\ UNCHANGED <<recordVars, ownershipVars, journal>>

-----------------------------------------------------------------------------
(* cmd_continue up to continue_record: binding, registry, ownership.       *)
ContinueHalt(id) ==
    CASE BindingHalt(id, FALSE) # "none" -> BindingHalt(id, FALSE)
      [] BindingHalt(id, FALSE) = "none" /\ ~RegistryFits(id) -> "REGISTRY_INVALID"
      [] BindingHalt(id, FALSE) = "none" /\ RegistryFits(id) ->
            CASE TransfersInvalid -> "LEDGER_INVALID"
              [] ~TransfersInvalid /\ Drift -> "LEDGER_UNBOUND"
              [] ~TransfersInvalid /\ ~Drift /\ OwnerOf # "ohpipe" -> "OWNERSHIP"
              [] OTHER -> "none"

StartContinue(p, id, confirm) ==
    /\ run[p].at = "idle"
    /\ Spend("command")
    /\ run' = [run EXCEPT ![p] = IF ContinueHalt(id) = "none" THEN Running(id, confirm)
                                 ELSE EndedAs([NoRun EXCEPT !.id = id], ContinueHalt(id))]
    /\ UNCHANGED <<recordVars, ownershipVars, bindingVars>>

(* A handler that wrote leaves an event; it was bound when it began.       *)
Continue(p) ==
    /\ ContinueStep(p)
    /\ journal' = IF have' # have THEN Append(journal, run[p].id) ELSE journal
    /\ UNCHANGED <<ownershipVars, binding, changes, left>>

(* A human's command at a gate, taken as one step; it checks the binding   *)
(* like every other.                                                       *)
Act(id) ==
    /\ Spend("act")
    /\ BindingHalt(id, FALSE) = "none"
    /\ \E s \in StepsOf(GraphOf(id)) : Decide(id, s)
    /\ journal' = Append(journal, id)
    /\ run' = Disturbed
    /\ UNCHANGED <<ownershipVars, binding, changes>>

Falls ==
    /\ \/ Spend("fall") /\ \E id \in InUse : \E a \in have[id] : Fall(id, a)
       \/ Spend("fault") /\ \E found \in {"none", "config", "found"} : Report(found)
    /\ run' = Disturbed
    /\ UNCHANGED <<ownershipVars, bindingVars>>

Kill(p) ==
    /\ run[p].at # "idle"
    /\ Spend("fault")
    /\ run' = [run EXCEPT ![p] = NoRun]
    /\ UNCHANGED <<recordVars, ownershipVars, bindingVars>>

(* The operator removes a damaged binding he has secured. *)
RemoveTorn ==
    /\ Spend("fault")
    /\ binding = Torn
    /\ \A p \in Active : run[p].at # "write"
    /\ binding' = None
    /\ UNCHANGED <<recordVars, run, ownershipVars, journal, changes>>

Outside ==
    /\ Spend("transfer")
    /\ \/ \E from, to \in Runtimes, ref \in TransferReferences, decided \in BOOLEAN :
             Adopt(Transfer(from, to, ref, decided))
       \/ EditIndex(<< >>)
       \/ \E from, to \in Runtimes, ref \in TransferReferences :
             EditIndex(<<Transfer(from, to, ref, TRUE)>>)
    /\ UNCHANGED <<recordVars, run, bindingVars>>

Next ==
    \/ \E p \in Active, id \in InUse :
         \/ StartInit(p, id) \/ \E target \in InUse : Upgrade(p, id, target)
         \/ \E confirm \in BOOLEAN : StartContinue(p, id, confirm)
    \/ \E p \in Active :
         Bind(p) \/ First(p) \/ Create(p) \/ Compare(p)
         \/ WriteBinding(p) \/ SyncBinding(p) \/ WriteFails(p)
         \/ Index(p) \/ EnterJournal(p) \/ Replace(p) \/ Continue(p) \/ Kill(p)
    \/ \E id \in InUse : Act(id)
    \/ Falls \/ RemoveTorn \/ Outside

WorkspaceSpec == Init /\ [][Next]_vars

-----------------------------------------------------------------------------
(* Whoever races whom to set up a root: until a human upgrades it, or an   *)
(* init whose sync fails takes back what others could read, all that is    *)
(* written after the first entry is written under one contract.            *)
OneContract ==
    changes = 0 =>
        \A i, j \in 2..Len(journal) : SameContract(journal[i], journal[j])

(* A binding that names a contract is replaced only by a graph-upgrade and *)
(* removed only by the init that created the file and could not make it    *)
(* durable; a damaged one becomes one that names a contract only by the    *)
(* init that is writing it or by an upgrade that began before it was       *)
(* there: no other command overwrites what somebody has to look at.        *)
BindingDiscipline ==
    [][/\ binding \in InUse /\ binding' # binding =>
            \E p \in Active :
                /\ run'[p].at = "idle"
                /\ \/ run[p].at = "replace" /\ binding' = run[p].id
                   \/ run[p].at \in {"write", "sync"} /\ binding' = None
       /\ binding = Torn /\ binding' \in InUse =>
            \E p \in Active : run[p].at \in {"write", "replace"} /\ binding' = run[p].id
       /\ binding = Torn => \A p \in Active : run'[p].at = "replace" => run[p].at = "replace"]_vars

(* Nobody gives himself a record by naming a reference or by editing       *)
(* cutover.json: unless the profile makes ohpipe the owner from the start, *)
(* continue begins only on a record that some transfer with a decision on  *)
(* record handed to it.                                                    *)
OnlyWhatWasHandedOver ==
    [][\A p \in Active :
          DefaultRuntime # "ohpipe" /\ run[p].at = "idle" /\ run'[p].at = "view" =>
              \E i \in DOMAIN transfers : transfers[i].decided /\ transfers[i].to = "ohpipe"]_vars
=============================================================================
