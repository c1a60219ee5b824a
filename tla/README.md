# Formal models of ohpipe

ohpipe keeps a corpus of oral-history transcripts.  Nothing in it is a mutable
record: every fact is an event in one append-only journal, every byte string
lives in a content-addressed store, and the state of a record is what `replay`
computes from the journal.  Several processes (a researcher's commands, a
second terminal, a script) may work on one workspace at the same time, humans
answer previews minutes after they were built, and any process can be killed
between two writes.  The models in this directory are about that: what the
journal, the store and the operations that write several events promise when
processes interleave, break off, are repeated, or lose power.

Paths below are relative to the package, `src/src/ohpipe/`.

## 1. Inventory

| Component | State | Operations | Interacts with | What is hard | What makes it correct |
|---|---|---|---|---|---|
| Event journal (`journal.py`) | the JSONL file, the lock file, per object the remembered head `_kopf` and `_groesse_nach_schreiben` | `append`, `append_once`, `transaction`, iteration, `verified_events`, `head` | everything that writes; unlocked readers | two processes taking one head, a remembered head that is stale, torn and short writes, a kill under the lock, loss of power before fsync | readable lines are one chain; once-only events occur once; an acknowledged event is not lost silently; the lock is served |
| Content store (`store.py`) | the directory `objects/` and its temporary files | `put`, `verify`, `open_verified`, the audit | every writer stores bytes before it names them | two puts of the same bytes, a crash between the five steps, replaced or rotten files | a torso never has the final name; no overwriting; published names survive; readers get the bytes they ask for |
| Workspace lock (`workspace_lock.py`) | an flock in `_governance` | taken around operations of several events | operation recovery, gates, actions | death of the holder, lock order with the journal | one multi-event operation at a time |
| Operation recovery (`application/operation_recovery.py`, `domain/operation.py`) | retry intents in store and journal | `execute_intent`, `recovery_report`, `classify_recovery` | register, preparation, ingest, confirmation | a crash between any two of objects, intent, effects; a plan written twice | intent before effects, bytes before names, nothing twice |
| Instance register (`domain/instance.py`, `application/instance_registry.py`) | a fold of `registered`/`retired` events | register, retire | actors of every human act | check before the lock; contradictory acts make every fold raise | an id has one binding and never returns; the register folds |
| Language preparation and ingest (`application/transcript_language.py`, `application/ingest.py`) | sources and revision of a record | prepare, ingest of an SRT revision | confirmation, freshness | a revision that is superseded and comes back; renewal decided before the lock | a revision is activated on its own receipt |
| Confirmation (`application/confirmation.py`) | marker, decision, binding evidence | plan, preview, answer, write | register, revision, actions | everything may change between preview and answer | a decision is recorded only on what the preview showed |
| Withdrawal and undo (`application/decision_actions.py`) | decisions | withdraw, undo | replay | undo must name the withdrawal in effect | a withdrawal stays until it is undone |
| Replay and freshness (`application/replay.py`, `application/freshness.py`) | none: a function of the journal | `replay`, `evaluate` | every command | the same bytes current again by a later event; inheritance; epochs | usable means decided on exactly what is current now |
| Step graph, states, status (`domain/step.py`, `domain/state.py`, `application/status.py`) | none | building a profile's graph, topological order, planning, the egress check | continue, replay, graph binding | gates on *every* path, a block that is wired in between existing steps | no model output and no unreviewed text leaves, whatever runs in whatever order |
| Continue (`application/steps.py`) | none of its own | loop over handlers | all steps | a view that the previous handler, or somebody else, changed | it does what the plan foretold, never more, and names the rest |
| Gates and derivations (`application/gate.py`, `review.py`, `confirmed_text.py`, `catalog.py`, ...) | four receipts of a gate, three of a derivation | `write_gate`, `write_derivation` | store, journal, register | a derivation takes neither the workspace lock nor one journal lock | nothing usable whose sources moved; whatever broke off can be carried on |
| L1 suggestions and coverage (`application/l1_*.py`, `coverage.py`, `codebook.py`) | request blocks, publications | suggest, supplement, publish, reuse | model adapters, store | a model that answers in part, or late; a publication that fails after the link | every segment coded once and anchored on itself; evidence that can be worked through again; a journalled address that lasts |
| Export and local publication (`application/export.py`, `local_publish.py`) | bundles | export, publish | gates | the upstream moves while a bundle is built | only what is approved at that moment is published |
| Manual pseudonymisation (`application/manual_work.py`, `protected_store.py`, ...) | sessions, checkpoints, protected store | open, resume, edit, save, publish, recover | finalisation | two humans on one text; an act that breaks off; any order of edits | no edit leaves what publishing refuses; nobody's unpublished work is replaced |
| Finalisation (`application/finalisation.py`, `registry_store.py`, ...) | protected store, register with its head, journal | init, resolve, finalise, review, recover | manual work | head and journal are written one after the other; two records share one register | head and journal never part beyond repair; a number is one person's for good; an accepted text is what its sources make of it |
| Workspace, profile, graph binding (`project.py`, `storage_integrity.py`) | workspace files, binding | init, bind, upgrade | all | an initial binding broken off half way, or taken back after others have read it; inits and upgrades that race | one contract until a human upgrades the root or a binding is taken back |
| Ownership and authority (`policies/ownership.py`, `authority.py`) | cutover file, adoption events | fold of transfers, index, drift | init, continue, status | a projection that lags behind the journal, or was edited | only a transfer with a decision on record hands a record over |
| Policies, transcript domain, event catalogue, adapters, command line | none or pure | parsing, validation, tables, wording | | sequential | |

`PROJECT.json` lists every component with its sources and how far it is
modelled, and under `hazards` each place where something can go wrong that a
test would hardly reach.

## 2. Plan

1. **Done.** `EventLog` (abstract), `Journal` (implements it), `JournalProofs`, and
   on top of it `JournalPromises`: nothing is lost silently, and the refinement.
2. **Done.** `ContentStore`, with the second way into the store that
   `application/l1_publication.py` takes; `ContentStoreProofs`.
3. **Done.** `OperationRecovery`, extended by `InstanceRegistry`, extended by
   `Confirmation`: the operations of several events and the part of replay that
   decides a record's revision and confirmation, full texts included;
   `ConfirmationProofs`.
4. **Done.** `StepGraph`; `Continue` on top of it; `Ownership`; `Workspace`, which
   composes them with `init` and `graph-upgrade` on one data root; `WorkspaceProofs`.
5. **Done.** `Evidence` (replay and freshness of a whole chain), `Commands` (what
   each command plans and writes), `Workflow` (several commands beside humans);
   `WorkflowProofs`.
6. **Done.** `ManualEvidence`, `ManualWork`, `Finalisation`: sessions,
   checkpoints, one register for all records, interruption and recovery;
   `FinalisationProofs`.
7. **Done.** `Spans`, `Register`, `Suggestions`, composed by `Pseudonymisation`:
   what those acts say, place by place, and what the model codes of the result;
   `PseudonymisationProofs`.
8. **Left.** More code: the files of `local_publish.py` and of the protected store, which follow the
   protocol of `ContentStore`; and `consumer_publication`, the locks with which
   readers of the final text keep finalisation out.

## 3. Modules

### EventLog, Journal, MCJournal, JournalProofs, JournalPromises

A *writer* is a `Journal` object in its own process.  `file` is the JSONL file
as a sequence of chunks: the body of an event, a newline, or a piece of a body
that was cut off (`half`, or `split` inside a multi-byte character).  Its length
stands for `st_size`.  `durable` is the prefix that survives a loss of power.
`kopf` and `groesse` are `_kopf` and `_groesse_nach_schreiben`, `snap` the events
of a `_JournalTransaction`, `ev` the event being written.

| Code | Action |
|---|---|
| `append`, `append_once`, `transaction`, up to the lock | `BeginAppend`, `BeginAppendOnce`, `BeginTransaction` |
| `_exclusive` | `Lock`, `Release` |
| `transaction`: read and verify | `Verify` |
| the duplicate loop | `Scan` |
| `_head_locked` | `TakeHead` |
| `os.write` | `StartWrite`, `FinishWrite` (readers can see the middle), `ShortWrite` |
| `os.fsync`, remember the head, return | `Sync` |
| `verified_events` of a reader without the lock | `Read` |
| exception of write or fsync, kill, loss of power | `OsError`, `Kill`, `PowerLoss` |

A digest is the sequence of contents it commits to: SHA-256 (or HMAC) is taken
to be injective, and `compute_digest` of an unchanged line always agrees.
A duplicate rule tells payloads apart by one value.  `EventLog` forgets files,
locks, heads and digests: contents are published at the end, once-only contents
once, and a position that was returned stays valid.  `Journal` implements it
with `DurableLog` and `AckedPositions` as refinement mapping.

### ContentStore, MCContentStore, ContentStoreProofs

One action per system call of `put` (`CreateTemp`, `WriteSome`, `FsyncFile`,
`Publish`, `Exists`, `DropTemp`, `UnlinkTemp`, `FsyncDir` and their failures) and
of `open_verified` (`Open`, `VerifyOpened`, `ReadVerified`, `CloseRead`).  A
content is its own address.  An inode holds a number of blocks of a content, of
which some are synced; `dir` is the directory as processes see it, `durable` as
it is on the disk.  `PowerLoss` keeps any mixture of both and any amount of
unsynced blocks.  `Rot` and `Swap` are the world outside: bytes that change in
place, and another file under a published name.  `calls` is a history of ended
puts; a loss of power drops the failed ones from it, since what they left behind
need not be durable.  The directory `objects/` exists.

A *publisher* puts by `l1_object_publication`: it shares the steps up to the link,
syncs the directory on either path, hashes what lies under the address, hands
over to its caller, whose events name the address (`Record`), and only then
takes its temporary name away (`Discard`, `LastSync`).  Whatever raises before
that, the caller included, leads to the same cleaning (`PublicationFails`), which
may fail itself and says so (`CleaningFails`).  Both syncs of the directory forgive a
file system that cannot do them (`SyncIgnored`, `LastSyncIgnored`); the second leaves
the report as it is, so that the history tells a cleaning whose removal is on the
disk (`cleaned`) from one whose is not (`unswept`), and `PowerLoss` drops the latter
like the failed puts.

### OperationRecovery, InstanceRegistry, Confirmation, ConfirmationProofs, MCRegistry, MCConfirmation

`OperationRecovery` is `execute_intent`: `Plan` (preview, without locks), `Abort`,
`Enter` (workspace lock, and the check that the intent factory makes under it),
`PutObjects`, `RecordIntent`, `ReadLatest`, `AppendEffect`, `Leave`, and `Kill` and
`Raise` at any point.  After `Raise` the caller still holds the plan and may
write it again; after `Kill` the plan is gone.  The journal is taken as what
`Journal` shows it to be, one log that is appended to atomically, and the digest
of an event is its position.

`InstanceRegistry` adds the register as a fold (`Folds`, `Active`, `StateOf`) and
the two acts that write it, with the check *before* the workspace lock
(`CheckRegistry`), where the code has it.  A label stands for everything an id is
registered with.

`Confirmation` adds language preparation, ingest, confirmation, withdrawal and
undo for one record, and the part of replay and freshness that decides
`transcript.revision` and `transcript.confirmed` (`Revision`, `RevisionFresh`,
`WithdrawalAt`, `EffectiveDecisions`, `DecisionFresh`, `ConfirmedUsable`).  A
revision stands for the chain of its SRT bytes, its language assignment and its
canonical bytes, each a function of the others.  `op[p].seen` is what the preview
was built from; `Stale` is `_checked_intent`, with `OwnRetry` as the exception for
the operation's own earlier marker.  `Anchor` is the binding evidence that is
written after the lock.

`fulltext prepare` is the fourth operation on the text: an attestation is a
receipt for the current revision that names a separate full text in place of the
language assignment (`Attested`, `InputKind`, `NamedInput`), so that from then on
the revision goes stale with the full text and not with the assignment.

`left` is a budget, a bound of the model: how often each command is planned and
how often a process fails.  A run is given a set of budgets, its scenarios.

### StepGraph, Continue, Ownership, Workspace, WorkspaceProofs, MCWorkspace

`StepGraph` is `domain/step.py` as operators: steps and contracts as records, the
passes of `topological`, `plan` as a fold of the order, the simple paths of
`check_egress_gates`, the checks of `check_contracts`, the fingerprint, the graphs
the source declares (`DefaultSteps`, `ModelBlock`, `ManualBlock`) and how a profile
makes its own of them (`BuildGraph`).  `MCWorkspace` evaluates what the source
asserts of these graphs as an assumption, `GraphsOfTheSource`.  What the code
computes in a loop (`upstream`, the passes, the plan, the paths) is a function of
the number of rounds, defined by what one round does.

`Continue` is the loop of `continue_record`: `View` looks at the record and picks
the first step that may run or ends with a verdict, `Handle` runs it, `After`
looks whether its products are there.  What is usable is a set of artifacts for
each graph in use, which humans fill (`Decide`) and empty (`Fall`); `raw` and `plain`
follow model output and unreviewed text through the products, as history.

`Ownership` is the fold of the transfers of one record, and the file that indexes
them.  Transfers come from outside: no command of ohpipe writes one.

`Workspace` puts the commands side by side: `init` in the steps in which it can
lose a race or die: its checks (`StartInit`), the look for an entry (`Bind`) and for a
journal (`First`), the exclusive creation (`Create`) or the comparison with what
somebody else created (`Compare`), the bytes, which everybody can read from then on
(`WriteBinding`), their sync and that of the directory (`SyncBinding`), the index and
the journal (`Index`, `EnterJournal`).  A failing write or sync removes what lies at
the name (`WriteFails`), be it read by others or replaced since.  `graph-upgrade`
looks first (`Upgrade`) and replaces then (`Replace`), also when its last sync fails
and it reports an error.  `continue` is as above, beside humans and other programs.
None of them takes the workspace lock, as in the code.  `changes` is a history: how
often a binding was replaced, or one that could be read taken back.

### Evidence, Commands, Workflow, WorkflowProofs, MCWorkflow

The journal of a record is kept as its left fold: `view` is what `replay` holds
after the events so far, and there is one operator for each kind of event
(`Produced`, `Receipted`, `DecisionRecorded`, `Anchored`, `Observed`).  `Stale`,
`Check_refs` and `IsUsable` are `freshness.py` and the three axes of an artifact's
state; `Have` is `RecordView.have`.  An artifact's bytes are what they were made
from (`Content`), so that two productions are equal when their inputs are; only a
model's answers differ from run to run.

`Commands` says what each command plans and which events it writes in which
order (`Plan`, `Todo`), and when it leaves one out as a duplicate (`Repeats`, `Skip`).

`Workflow` runs two commands at a time.  `Begin` plans, without locks; a gate, an
export, an ingest and a confirmation then take the workspace lock and check the
plan again (`Enter`); a derivation and a model run hold nothing, and work a
duplicate predicate out (`Look`) before the append that uses it (`Write`).  `Stop` is
a refused prompt, a failing model, an exception or a kill at any point.
Beside them humans withdraw and undo, deliver another source and edit the
metadata file.  `source` stands for the SRT bytes with their language assignment.
Decisions and model runs carry the time of their plan, `clock`.  Publishing
always has a target.

The chains of `MCWorkflow` are the default graph with stages left out that work
like their neighbours: the catalogue from the text to the bundle, and the first
half with the coverage.  `Workflow` itself starts from any journal that is `Sound`,
over any chain that is `ChainIsBound`; `MCWorkflow` gives it journals that commands
done one after the other have made (`Straight`).

### ManualEvidence, ManualWork, Finalisation, FinalisationProofs, MCFinalisation

`ManualEvidence` is the fold of the `p4b.*` and `p4c.*` events: an act is *prepared*
on a basis (every input with its bytes and its activation), has no effect before
it is *completed*, and its completion counts only while all of its basis stands
(`Believed`).  An event the fold does not believe is a finding, which stops the
record for good.  `NoRegister` and `Unsaved` say that there is no register and no
checkpoint yet.

`ManualWork` is the sessions of `manual_work.py`: they read once, hold nothing while
they are open, and are checked again whenever they save or publish
(`SessionStands`).  `Finalisation` adds the register: `p4c init`, resolving, finalising
and accepting as acts of a `Work`, each a chain of prepared event, moved head and
completed event that can break off between any two; and `recover`, act by act.

The report and the final text are one artifact here, the confirmed text and its
revision one source.  All names are of one type with a policy that
pseudonymises, and every record names one person: what allocation does with
types, actions and surfaces is `Register`'s matter.  The locks of workspace, stores
and journal are taken together and never waited for: one `holder`.

### Spans, Register, Suggestions, Pseudonymisation, PseudonymisationProofs, MCPseudonymisation

`Spans` is the text a human marks: places, their canonical order, the overlap
check that compares neighbours only, the capsule with base, overlay and groups,
its validation and the draft made from right to left.  A mention's id is a digest
of its place and type, so a mark is its own mention; group ids are random, so
groups are a set and their order any.  `Register` is allocation, surfaces and the
final text from left to right with its report.  `Suggestions` is the run of
`l1.suggest` on a text: blocks, answers, the one supplement, anchors, and
`_validate_evidence` (`Retaken`), which works the requests through again.

`Pseudonymisation` runs them one record after the other: edits in any order
(`Add`, `Exclude`, `Merge`, `Split`, `Judge`), an answer for every group, the
register, the final text, and the model's answers to it, whatever they are.
One desk at a time: concurrency is `Finalisation`'s.  Who is planned is enrolled in
the order of the ids, as `allocate` does it, by a function over the ids
(`AllEnrolled`), so that the proofs can follow it.  For the same reason the canonical
order is one of the sequences of all marks that are `Sorted`, and the rows of a block
are put in order by a choice of the same kind (`Ascending`).  One place of the
instance ends outside of its segment: to mark it is always refused.

### Mutants

A definition whose comment begins with *Mutant* is the definition after it with
one plausible bug (a lock per process, no fsync, a stale check on bytes only, a
swapped order).  No specification uses it.  `PROJECT.json` says which property
each one must violate: that the property is violated shows that it says
something about the code.

## 4. Runs

| Run | Instance | States | Shows |
|---|---|---|---|
| `journal` | 2 writers, 1 reader, 3 operations, 2 faults of any kind, every cut | 1.4 M | `TypeOK`; `ReadableIsChain`; `RememberedHeadIsHead`; `NoSilentLoss`: an event whose append returned is on the durable part of the file, or the journal is visibly broken; `ReadersAdvance`: verified snapshots only extend each other |
| `journal_once` | 2 writers, 2 payloads, 2 operations (each up to two events), 2 faults, torn lines | 167 k | `ImplementsEventLog`: what a writer was told stays so, and once-only contents are there once; `WantedIsServed` |
| `store` | 1 put and 1 L1 publication at a time, 1 reader, 1 content of 2 blocks, 3 puts, 2 faults of any kind | 663 k | `NamedIsWhole`, `PublishedIsDurable`, `NeverOverwritten`, `FailedLeavesTrace`, `ReaderGetsAddress` |
| `registry_race` | 2 registrations of one id | | **violation** of `WrittenRegisterFolds` |
| `confirmation` | 2 processes, 2 coders, 2 labels, 2 revisions, 2 full texts, eight scenarios | 193 k | `NothingDangling`, `EffectsInOrder`, `WrittenIsEffectiveUnlessBack`, `UsableMeansUndisturbed`, `DecidedAsSeen` |
| `confirmation_back` | there and back again with 3 confirmations | | **violation** of `WrittenIsEffective` |
| `confirmation_live` | 2 processes, 2 confirmations, or 4 register acts on 1 id with 2 bindings and 2 references; 1 fault | 315 k | `WriterEnds`, `RetiredForGood` |
| `workspace` | every graph of four steps that begins with a model (1152) and the three of the source, each beside humans; a root to be bound to one of 2 contracts, 2 commands at a time with 2 faults, and 3 with 1, 4 commands and a human act; hand-overs of a record | 1.7 M | `NothingUnreviewedLeaves`, `NoDirectEdge`, `PendingIsNamed`, `PlanIsRun`, `OneContract`, `BindingDiscipline`, `OnlyWhatWasHandedOver` |
| `workflow` | 2 processes, 2 texts, 2 metadata files, six scenarios | 584 k | `WorkflowTypeOK`, `UsableIsGrounded`, `NoDeadEnd`, `PublishedWasApproved` |
| `workflow_first` | a record's first text, with 3 plans, 2 deliveries and 1 failure | | **violation** of `IngestIsEffective` |
| `finalisation` | 2 processes, 2 humans, 2 records, 2 texts, 2 policies, seven scenarios | 574 k | `NothingRejected`, `HeadIsExplained`, `NamesAreStable`, `ApprovedIsTrue`, `NoSilentTakeover` |
| `pseudonymisation` | 2 records of up to three segments, 6 and 2 places, 3 policies, 2 block sizes, two courses of work | 220 k | `EditsStand`, `SettledByHand`, `RegisterServes`, `ReportIsTrue`, `SuggestionsStand` |

**Bounds.**  The chain and head properties are about one head taken twice: two
writers and three operations let a writer return with a remembered head after
another one has written, and two faults let one process break the file and
another one meet the break.  A transaction of two contents is the shortest in
which the transaction's own list matters.  In the store a put and a publication
meet at one name, a third meets the leftovers, two blocks are enough for
a short write and for a torn file, and two faults are a failure followed by a
loss of power; two contents never meet at a name.

The scenarios of `confirmation` are: a withdrawal and its undoing around two
confirmations; the actor retires meanwhile; a second revision is taken in
between preview and answer; two humans come and go while an actor is chosen
automatically; three ingests of two revisions; there and back again; two
attestations around two ingests; and an attestation beside a confirmation.  The
there-and-back sequence needs three preparations and three ingests, which one
process does alone: its hazard is the order of operations and not their
interleaving.  Retirements, withdrawals and ingests are done with one failure at
any point, the longer scenarios without.

`workspace` takes graphs of four steps so that two steps of any kind stand
between or beside the model and the egress: paths with and without a gate, and
gates in front of the model.  The graphs of the source run through with one fall, nine
human acts and one finding.  A root is set up by
three commands at once since it takes
three for one contract to follow another without an upgrade: an `init` that binds
and fails to make it durable, one that has read that binding and gone on, and one
that looked before all this and creates the file anew; and two faults among two
commands for a torn binding that is left behind and removed by hand.
`confirmation_live` gives an id two references, so that two registrations of one
binding are two payloads; four acts are two registrations, a retirement and a
repetition.  Elsewhere one reference is enough.  `workflow` begins its scenarios in the middle (`made`
steps of a chain done without a hitch, by the same operators): what matters is
two commands that overlap, one act or edit in between, and one command that is
repeated.  `finalisation` does the same: marking and casework of two humans, two
records that share a register, one record under which everything moves, an
accepted text whose cases are done anew, a withdrawal that is undone, and a
register still to be made with a record waiting.  One failure hits any point;
recovery is tried once or twice and may fail as well.  `pseudonymisation` edits
one record five times, or three records' worth of marks three times with the
register carried on; two spellings that fold to one surface, marks that overlap,
touch, and contain one another, a segment that is replaced altogether.

**Symmetry** permutes processes, coders, labels, revisions, full texts and contents; no
definition distinguishes them, and runs with liveness use none.

**Deadlock** is checked in `journal`, where a reader can always read.  Elsewhere
the budget of operations and faults is finite, a model bound, and a behaviour
that has used it up stops (in `pseudonymisation` the plan of work); these
configurations say `CHECK_DEADLOCK FALSE`.
That nobody waits forever is what the liveness runs show.

**Fairness.**  `FairSpec` and `FairConfirmationSpec` assume that a process inside
an operation is scheduled (weak fairness of its steps: there is no waiting
inside the critical sections, and no terminal input, see the comments at
`journal.py:566` and `application/operation_recovery.py:58`), and that a process
waiting for a lock that is released again and again gets it (strong fairness of
taking the lock: `flock` without `LOCK_NB` queues its waiters in the kernel).
Nobody is assumed to plan a command, to answer a prompt, or not to fail.

## 5. Proofs

`JournalProofs` holds for every set of writers and readers, all kinds and
payloads, every bound and every combination of faults and cuts.  It assumes what
`Journal` assumes of its constants: the three ways of writing have different
kinds, cuts and faults are those that are modelled, bounds are natural numbers,
and `None` is not a writer.

* `TypeCorrect`: `Spec => []TypeOK`, from an inductive `TypeInv` that ties each
  control state to what it needs: whoever is about to write has an event, and
  whoever is about to look at its next content has one left.
* `OneAtATime`: at most one writer is inside the critical section.
* `ChainCorrect`: `Spec => []ReadableIsChain`.
* `HeadCorrect`: `Spec => []RememberedHeadIsHead`.

`ReadableIsChain` is not inductive: a step that writes a line keeps it only if
the event continues the file as it is at that moment.  `SafeInv` therefore adds
`LockInv` (who is in the critical section holds the lock, so nobody else
writes), `WriteInv` (the event of a writer in `write` or `writing` continues the
file, or the file without the started line, and after the write it is the head),
and `CacheInv` (a remembered head whose size fits is the head of the file, and
none fits while a line is being written).  The chain itself is stated of a file,
`ChainTo(f)`, with two lemmas that carry the argument: a prefix of a chain is a
chain (`PrefixChain`, for the loss of power), and appending an event that
continues a file, or anything that is no event, gives a chain (`ExtendChain`).
There is one lemma per action.  The guard `Parses(file)` in these invariants is
needed: after a short write the remembered head belongs to no readable file.

`JournalPromises` goes on from there, under the same assumptions.

* `AcknowledgedSurvives`: `Spec => []NoSilentLoss`, for every combination of faults.
  No step touches what is durable, a loss of power included (`Grows`); a line that is
  still being written lies beyond it (`KeptInv`); and as long as the durable part
  can be read, it has a line for every acknowledged event (`AckInv`).  That is said
  of the durable part alone, since a later torn line makes the whole file unreadable
  and a loss of power may take just that line away again.
* `JournalImplementsLog`: `Spec => ImplementsEventLog` if `CutsShow`, that is, if no
  write is cut right before its newline and no short write is taken for a whole one.
  The condition is needed, and says what the code leaves open: in either case a line
  is torn although the next writer does not see it, and a position that was returned
  is not the position of its event.  `LogInv` adds to the above that a file is
  bodies and newlines in turn but for the piece at its end (`EvenInv`, `Formed`),
  that no once-only content has two lines (`Distinct`), that acknowledged positions
  are taken (`TakenInv`), and what each writer has found out so far (`Task`).  Then
  each action is a step of `EventLog` or a stutter.
* `SnapshotsAdvance`: `Spec => ReadersAdvance`, for every combination of faults.  What a
  reader was shown stays in the file line by line (`ViewInv`), although the last line may
  be one that is still being written: it is shown only if it is the whole event, and the
  rest of the write puts that same event there (`WriteInv`, `LinesStay`).  A loss of power
  ends every reader together with what it was shown.

`ConfirmationProofs` holds for every set of processes, coders, labels, revisions
and full texts, and every bound.  It assumes what `OperationRecovery` assumes of
its constants: `None` is no process and no report, and budgets are numbers.  It covers
the whole of `ConfirmationSpec`, the register and `execute_intent` included.

* `NothingDangles`: `NothingDangling`, from `ProvidedInv`: the bytes that a plan names
  are in the store, and its intent is on record, from the step on that follows
  the one that put them there.
* `EffectsStandInOrder`: `EffectsInOrder`.  What makes it inductive is what a process
  between two effects may count on (`FirstEffectInv`: the receipt it wrote or skipped
  is the one in force, the marker is on record), and that an activation id
  belongs to one plan, whose decision, written again, is a duplicate (`TicketsInv`).
* `UsableIsUndisturbed`: `UsableMeansUndisturbed`, from the order above and `UndoneInv`:
  an undo names the withdrawal that was in effect when it was written.
* `DecisionsAsSeen`: `DecidedAsSeen`, from `SeenInv`: what was checked under the lock
  still stands at each later step of the operation, except for its own marker.
* `RetiredStaysRetired`: `RetiredForGood`, from `RegisterInv`.  The check before the
  lock is stale by the time the effect is written; what saves an id from a repeated
  registration is that it would be the same event again, and the duplicate rule
  skips it.  A registration that differs in its binding or in its reference is no
  duplicate and is written, after a retirement as well (section 6); the theorem
  claims nothing of it.

* `ReportedIsEffective`: `WrittenIsEffectiveUnlessBack`.  Three invariants join those above:
  a preview names the revision event it was built from, on whose bytes the plan is
  (`PreviewInv`); a decision is on the revision that was activated last before it
  (`DecisionsInv`, which follows from `PreviewInv` and `SeenInv` at the step that records it);
  and whoever reported a confirmation left binding evidence behind (`ReportedInv`).  The
  decision that counts may then be a later one than the one reported, but since nothing
  disturbing lies between them both are on the current revision.

Two ideas carry all six.  The steps are sorted by what they do rather than by
the command they belong to (`Plans`, `Checks`, `Enters`, `Leaves`, `Acts`, `Stops`, and the
shared steps of `execute_intent`), so that an invariant is shown once for each sort
and not once for each command; and while the lock is held nobody but its
holder appends, except for binding evidence (`Anchor`), which disturbs none of them.  And a plan is a
function of its intent (`WellPlanned`), so that two processes that hold the same
intent agree on everything else.  `BaseInv` is the types of all this and the
controls; the budget has no type there, and the report only where `ReportedInv` needs it.

`ContentStoreProofs` holds for every set of putters, publishers, readers and
contents, every number of blocks, every bound and every combination of faults.
It assumes what `ContentStore` assumes: there is at least one block, the faults are
those that are modelled, and no temporary name is the name of an object
(`NamesAssumption`; one begins with a dot, the other is a hexadecimal digest).

* `WholeCorrect`, `DurableCorrect`, `ReaderCorrect`: `NamedIsWhole`, `PublishedIsDurable`
  and `ReaderGetsAddress` always hold.
* `NeverOverwrites`: `Spec => NeverOverwritten`, of every step, loss of power included.
* `TraceCorrect`: `FailedLeavesTrace` always holds.  Of a publication that reports that
  it has cleaned up it says that nobody sees its temporary file again, and after a
  loss of power only where the last sync of the directory was one that the file
  system did.

None of them is inductive.  `StoreInv` says of *both* directories, the seen one and
the one on the disk, that what lies under an address is whole and synced
(`WholeInv`), since a loss of power may bring back either; that the two agree on
every object the disk has (`AgreeInv`); what each putter has behind it at each of
its steps (`PutInv`), such as that a file about to be linked is on the disk; and the
same of ended calls and of readers (`CallInv`, `ReadInv`).  `TypeInv`, under it,
numbers the inodes without a gap, so that a new file is a new file.  The argument
goes by what no step but a loss of power does, `Steady`: a file only grows or stops
being ours, an object keeps its name, the disk keeps up or stays as it is.  That
is shown once per action, and every invariant follows from it for everybody but
the putter whose step it is; that one has a lemma of its own (`PutOwn`), and so
has the loss of power (`StorePower`).  `TraceInv` adds that a temporary file
belongs to one put, alive or failed (`OwnInv`): that is why nobody takes away the
trace of another.

`WorkspaceProofs` holds for every set of processes, every set of profiles and
graphs in use, and every budget.  `WorkspaceAssumption` says of a profile what the
code makes sure of: its graph is what `build_graph` makes, or for the profile of a
test any graph that `Step.__post_init__` and the constructor of `StepGraph` let pass
(`Yielded`), and none of them is the mark of an absent or torn binding.  Transfers
may be anything that `Transfer` can hold.

* `ContinueInvariant`: `WorkspaceSpec => []ContinueInv`, on which the next four rest.
* `NothingUnreviewed`, `NoEdgeAround`, `EverythingNamed`, `PlanForetells`:
  `NothingUnreviewedLeaves`, `NoDirectEdge`, `PendingIsNamed` and `PlanIsRun` always hold.
* `OneContractHolds`, `BindingIsDisciplined`: `OneContract`, and `BindingDiscipline` of
  every step.  Neither promises that a binding that others have read stays: an `init`
  whose sync fails takes it back, and an upgrade replaces what lies there by then.
  They say that nothing else does, and that one contract is written under until one
  of the two has happened.
* `OwnedOnlyByDecision`: `OnlyWhatWasHandedOver`, of every step.

`check_egress_gates` looks at paths from a model step to an egress, while what
leaves depends on what was usable when.  `RawSound`, in `ContinueInv`, is the bridge:
an artifact that carries model output has a walk from a model step to its producer
with no gate behind the first step (`TaintSpreads`: one that would meet itself is cut
short).  Such a walk is one of the paths the search finds (`WalkIsPath`), and its
first step lies upstream of its last (`WalkStartsUpstream`), so that a clean verdict
leaves nothing for `raw` to reach.  The other half of the property, a graph that is refused and in
which model output does leave once everything is usable, needs that every egress
makes something, which is its antecedent; a path over a step that makes nothing
carries nothing.  For `PlanIsRun`, `OnPlan` says of a run that nobody has disturbed
that what is usable is what was there when the plan was made and what the steps
executed so far make.  That an order without a cycle puts what a step needs before
it (`TopologicalOrdered`) gives the rest: the next pending step is the next of the
plan (`NextIsPlanned`), and none is left over at the end (`AllPlannedDone`).  `BindInv`
says that one `init` at most has created the binding and is still busy with it, so
that what lies at the name while it is cannot be absent, and that until a binding
is replaced or taken back what is on record and what is in its loop has the
contract of the binding.

`WorkflowProofs` holds for every set of processes, texts and metadata files, every
chain and every budget.  `WorkflowAssumption` says of a chain what the contracts of
`domain/step.py` say of every step that has a command (`StepsAreBound`): an artifact
whose provenance must be proved has a receipt; humans decide, and besides them only
what leaves the system asks for a decision; an export takes the approval and nothing
else; gates, exports and the metadata draft take in exactly what they require;
nothing rests on what has left the system; and a model rests on the text and the
one gate that confirmed it.  The order lists each artifact once and behind all it
takes in (`ChainIsBound`).  `analysis.summarise`, which rests on more, and the steps
behind it have no command, and a chain with them is not one of ohpipe's commands;
`SandboxIsBound` in `MCWorkflow` has TLC confirm the assumption of the whole rest of
the sandbox graph, as `Chain` derives it.  And it says of the journal of a scenario
that it is `Sound` and `Sourced`: evidence names what it is about and is dated, only
what a kind of step writes has a receipt, and a bundle whose receipt nothing has
overtaken is what its approval makes of it and inherits (`Inherited`).  The empty
journal is (`NothingIsSound`), and by the invariance proofs every one that the
commands have made.

* `WorkflowInvariant`: `Spec => []WorkInv`.
* `EvidenceIsTyped`, `UsableStandsOnWhatIs`: `WorkflowTypeOK` and `UsableIsGrounded` always
  hold.
* `OnlyApprovedIsPublished`: `PublishedWasApproved`, of every step.
* `NoStepIsStuck`: `NoDeadEnd` always holds, provided that `None` is not a content.

`UsableIsGrounded` is about what humans did, the facts of replay about what the
journal says they did.  `ActsAreLinked` holds the two together: an acceptance in
force is the last act on its artifact, and no two acts have one time; `RunsFollow`
says it of model runs and the acceptance they appeal to.  What is usable is a fold
along the order of the graph, so `HaveIsSettled` goes by induction along it: what
lies behind a usable artifact is usable, older, and current.  For what is published
the lock counts: `wlock` is a process's exactly while its next event is one that its
code writes under the lock (`UnderLock`), and `Checked`, what it found when it took the
lock, survives everybody else's steps, because a gate and an export keep the
journal in a transaction, and its own, because the events of an export change
nothing that the approval rests on (`HaveAlike`).

`NoStepIsStuck` carries a command out from whatever the journal has become.  `Carry`
is a function of the events done so far; `CarriedAlong` and its instances for two,
three and four events turn it into so many applications of `Does`.  Through all of
them `Still` holds: what is not the artifact's own stays, and so does what the plan's
inputs were checked against (`CheckStill`).  The heart are `DoesReceipt` and
`DoesDecision`: an event that is left out as a duplicate is left out of an artifact
that is fresh, so the one that is there already answers for the inputs of *this*
plan (`FreshAnswers`); one that is written is newer than all of them.  Each kind of
command has a lemma that joins its events (`IngestWorks` to `ExportWorks`), and what
is `Finished` is usable in the fold (`FinishedIsUsable`, `UsableNear`, because roles come
first in the order).  Three things are true only of journals the commands made, and
are `ReadyInv`, proved invariant beside `WorkInv`: `Sourced` (an ingest that is skipped
must have been about a text that was delivered, a bundle must inherit); no
acceptance is dated after the clock (`Recent`), or a model's receipt would be
refused; and an export under way has planned the bundle its approval makes and,
once it is produced, the record has that one (`JobReady`), without which its receipt
would inherit nothing.

`FinalisationProofs` holds for every set of records, humans, processes, texts and
policies, and every budget.  `FinalisationAssumption` says of a scenario's journal that it
is `Sound`, as the empty one is (`NothingIsSound`) and every one that the acts make,
and that no session has a number that is still to be given out.

* `FinalisationInvariant`: `Spec => []FinInv`.
* `NothingIsRejected`, `HeadIsAlwaysExplained`, `NamesStayStable`, `ApprovedStaysTrue`:
  `NothingRejected`, `HeadIsExplained`, `NamesAreStable` and `ApprovedIsTrue` always hold.
* `NobodyIsTakenOver`: `NoSilentTakeover`, of every step.

None of these is inductive.  `NamesAreStable` compares registers of acts that were
completed long ago: `RegistersGrow` says of all that ever counted that a later one
contains an earlier one and no two have one version, and `WellMade` of every plan on
record, completed or not, that its register is the one before it with the
person of its cases numbered.  `ApprovedIsTrue` needs that a gate which still refers to
what is there was accepted for it (`GateIsTrue`), which must survive that a basis is
withdrawn, comes back, or is renewed with the same bytes: every role is dated, and
an act that renews one makes the gate older than it.  The rest of `FinInv` is about processes: one
of them holds the locks (`OneHolder`), and only while the act it prepared is still
believed (`Believed`); a session has a number of its own, and whoever follows another
human's checkpoint follows a completed one (`SessionOK`).  Each kind of event has one
lemma about what it does to a sound journal, each action one that reduces it to
events.

`PseudonymisationProofs` holds for every text, every policy, every block size, every
number of records, places and edits.  It assumes that a text is a sequence of
segments of characters (`TextsAssumption`), that the numbers of a mark are natural
(`PlacesAssumption`, what `pii.py:180` asks of them), that the actions of a policy are
the four that `project.py:223-229` lets pass (`PoliciesAssumption`), that a block has at
least one segment (`BlockSizesAssumption`) and that records are worked at
(`PlansAssumption`).  `CasesInvariant`, `RegisterAlwaysServes` and `SettledOnlyByHand` use
none of them, `EditsAlwaysStand` only those on places and plans.

* `CasesInvariant`: `Spec => []CasesInv`.
* `RegisterAlwaysServes`: `Spec => []RegisterServes`; `SettledOnlyByHand`:
  `Spec => SettledByHand`.
* `EditsAlwaysStand`: `Spec => []EditsStand`.
* `ReportIsAlwaysTrue`: `Spec => []ReportIsTrue`; `SuggestionsAlwaysStand`:
  `Spec => []SuggestionsStand`.

`RegisterServes` says what the next record may rely on, so its invariant is about
all records before.  `NumbersStand` ties the counter of a type to the numbers given:
all are below it, and the one before it is given to somebody.  Without the second half
`validate_registry`'s "one more than the greatest" would not survive the next
`allocate`.  `EnrolledStands` is one entity, `AllEnrolledStands` the walk over the ids by
`UpTo`.  That an answer is a resolution at all (`AnswerIsSound`) needs that two new
groups never get one id: there are as many ids as new groups and every one is used,
so the assignment is injective (`NewAreApart`, by the library's theorem on
surjections).  For that the groups of a capsule are finite, which every edit keeps
(`AddedKeeps` to `JudgedKeeps`, the same lemmas `SettledOnlyByHand` stands on).  `SaidOK`
is `CandidatesAreRemembered` for every surface, not only for those that are known.

`EditsStand` compares the check of the program, which looks at neighbours in an order,
with what it is for: no two marks share a character.  `NeighboursSuffice` is that
comparison.  It needs an order (`OrderExists`, from a first mark and one mark less),
that the order holds every mark once (`OrderIs`) and that no mark is empty: an empty
one may stand between two that overlap.  `ReplayIs` says that the fold over the overlay
is the walk over it, and `ReplayOneMore` that a change more is replayed on what the
others gave, so `KeptStands` has to look at the last change only, while marks are
collected and afterwards.  The groups part the marks (`GroupsStand`), when marks go
(`WithoutStands`), when one is added (`GroupAdded`) and when one group takes the place
of some (`GroupReplaces`).  `EditsInv` adds to `CasesInv` that marks are places, that an
overlay is a sequence, and that there is none while marks are collected.

`SuggestionsStand` is about what a run leaves, so its invariant (`RunOK`) is about a run
on its way: its blocks cut the segments in order and none is empty (`Cuts`,
`BlocksAre`); what was suggested so far is every segment up to the last cut (`AllTo`);
what was asked so far, worked through as `_validate_evidence` does it, gives exactly that
and ends behind the last request, or behind the last but one when a supplement
is due; and such a supplement asks for what the answer before it left out.
`ProvenTo` says where the walk over the evidence has got to; a request more does not change what
stood before (`RetakenStays`), and `RetakenWhole` and `RetakenCompleted` are the two ways
in which a block is answered.  That no request can be spared or doubled is a fact
about evidence alone: what stands has for every block its original and its
supplement exactly when the original left something out (`AcceptedSettles`), so
with one entry out of place the next one is asked for under a name it does not
have (`NothingToSpare`).  An anchor covers no other segment because segments lie apart
by a line feed (`SpansAre`, `AnchorCovers`).  That it is a text at all that the model
reads is the third part of `SuggestionsInv` (`FinalsOK`), and stands on what a final
text is.

`ReportIsTrue` needs no more of a state than that: what is on the desk are marks of
a record (`OnDesk`), and a resolution answers all of them (`ResolvedIsAssigned`).  The rest
is about texts.  A final text is `Woven`: a piece of the source, what stands for a
mark, and so on, and behind the last mark the rest (`CueIsWoven`, `WovenTextIs`), so an
entry says where its mark's replacement stands (`CueReport`).  Two texts that are
covered at as many places, and agree in between, are the same outside
(`OutsideIsAlike`, from the first place to the last and the rest).  The draft is written
from the other end: before the mark that is being replaced it is the source's still,
behind it everything is done (`ReplacedStep`).  `Drafted` says that it is, but for the
numbers, what the woven text has behind that mark; `WrittenAlike` is one step of
it, and `DraftIsAlike` all of them.

Three ideas are shared by these modules.  Functions over rounds are defined by
recursion, and the library has no induction that can be applied to them here; but
a property of numbers that fails somewhere fails at a least one (`LeastExists`),
which gives induction up to a bound (`UpTo`), and with it that such a function has a
value at each round and what it is (`DefinedByRecursion`).  `WorkInv`, `FinInv`,
`CasesInv` and `SuggestionsInv` (with the walk and the cuts it speaks of computed from
the run) were checked by TLC on the instances of the runs before they were proved.  And where a
proof fails for a good reason, the statement says so now: the antecedent about
steps that make nothing in `NothingUnreviewedLeaves`, that of a profile which gives
ohpipe the record from the start in `OnlyWhatWasHandedOver`, and in `NoDirectEdge` that
the reviewed text is no longer text without a review.

**Only model-checked** are all liveness properties (`WriterEnds`, `WantedIsServed`):
temporal reasoning under fairness is out of the prover's reach, and so is
`ENABLED`.  Every invariant and every action property that a passing run checks is
stated by a theorem.

## 6. What the code does not keep

With a run that shows it:

* **`application/instance_registry.py:89`** checks the register before the
  workspace lock and not under it.  Two overlapping registrations of one id with
  different bindings are both written, and from then on every command that folds
  the register raises (`registry_race`).  So do two of one binding under different
  references with a retirement between them: they are no duplicates of one another
  (the whole payload is compared) although the fold knows no references.
* **`application/confirmation.py:276`** does not pass `current_effects`.  When
  revision A was confirmed, then B, and A comes back and is confirmed again, the
  marker of A is taken for a duplicate of its old event while the decision is
  written.  Replay holds the marker of B, and the confirmation is not in effect
  although it is reported as written (`confirmation_back`).
* **`application/ingest.py:240`** renews evidence that is not fresh, and what has
  no revision yet is neither.  When a first ingest breaks off behind its receipt
  and the source is prepared anew and back again, the next ingest finds that
  receipt, writes the revision only and reports both as written.  The receipt is
  older than the source, so the revision is stale; a second ingest mends it
  (`workflow_first`; `LeftOver` is what `NoDeadEnd` excuses).

Met while modelling.  The models have each of these behaviours, and the
properties leave room for them where they must; none has a run of its own.

*Journal and store.*  When `put` finds its object it returns the address without
the directory fsync that step 5 of the docstring (`store.py:370-383`) asks for
(`store.py:422`, and `registry_store.py:203-212` in the same way).  The process that
linked the name may not have reached its own, and a loss of power then takes an
object whose address was returned; `PublishedIsDurable` leaves this path out.  A short `os.write` is synced, remembered as the head for the
file's size and returned as recorded, although the comment at `journal.py:680` says
that the remembered head stays invalid when a write breaks off.  A kill inside
`os.write` leaves a piece of a line in spite of the comment at `journal.py:675`.  A
line cut inside a multi-byte character surfaces as `UnicodeDecodeError` instead of
`JournalBroken` (`journal.py:352`).  A failing `os.unlink` in `put` leaves the store
as `OSError` (`store.py:421`, `:425`).  A publication reports "eigener Tempalias bereinigt" also
where the last sync of the directory was forgiven (`store.py:250`,
`l1_publication.py:104`); the temporary file may come back with the power.  A
duplicate found by `append_once` is not
synced.

*Text.*  After a crash between the receipt of a new revision and the revision, an
ingest of the current one is reported as done while the record stays stale.
If the current one is then attested and the new one ingested again, its receipt
is skipped as a duplicate and it is activated under the attestation of the
other.  Attesting F1, F2 and F1 again is reported as "bereits bytegleich
wirksam" while F2 is in effect (`application/fulltext.py`).  After an attestation a
newer language preparation no longer makes the revision stale.

*Workspace.*  An `init` that passed its checks while another one binds another
contract reports success with its own (`cli/main.py:622`, `:684`).  One whose sync
fails unlinks a binding that others have read, or that `graph-upgrade` has put there
since (`project.py:640`); another contract may then be bound while a `continue` under
the first is at work.  `graph-upgrade` replaces a binding that became damaged after
its look (`project.py:664`), and when the sync of the directory fails it has replaced
it although it reports an error.  A `continue`
begun under the old contract goes on after `graph-upgrade` has reported success.
A second legitimate hand-over makes the lagging index count as drift, and both
`init` and `continue` stop, although `stale_against` calls that direction harmless
(`policies/ownership.py:402-440`).  Gates write without asking whose record it is
(`require_write` has callers elsewhere only).  A step that `continue` executed itself
and somebody undid at once is neither run again nor named.  `--retry-intent` is
named as the next command by `status_report` and `recovery_report`, and refused by
the command line for every intent.

*Workflow.*  A model's answer that arrives after the marker it appeals to was
accepted again is published with a receipt that replay rejects, and the record
stops for good (`application/replay.py`, `l1_suggest.py:898`).  A derivation that was
withdrawn and undone counts as undecided for good.  `write_export` never looks at
a withdrawal of the bundle itself.

*Manual work and finalisation.*  A resolution that was interrupted, overtaken by a
second one and then completed by `recover` is what the fold holds, while `published`
returns the second.  An interrupted act with a moved head on a record that is
then withdrawn blocks the register for all records until the withdrawal is
undone.  `recover` of manual work aborts nothing: a stale first act makes it raise
for ever.  `recover` by another person than the act's ends that person's act.  After
a kill inside `p4c init` every record is refused until `init` is repeated.
An entity registered without a number is still offered and accepted once the
policy asks for one, and refused when the text is finalised
(`domain/stable_pseudonymisation.py:160`).  A policy that removes a whole segment
leaves a final text that `l1.suggest` can never code.

## 7. Not modelled

*Left out where a component is modelled.*  Journal: checks of paths, links, owners
and descriptors, the key, the directory entry of a new file.  Store: permissions,
link counts, the audit's report, creation of the directory.  Ingest: the generic
path, SRT parsing, the ISO vocabulary.  Actions: ownership, since one runtime
owns the record, except in `Workspace`.  Replay: malformed and foreign payloads,
which no command writes, provisional authority and the codebook's observation.
Gates: the contents of reviews, drafts, anchors and bundles beyond what they were
made from.  Manual work: encryption, and the files of the protected store and of
the register's store, which are there once they are named; only the register's
head is a file of its own.  `consumer_publication`.  Local publication: its files.
Spans: the conversion of offsets between encodings.

*Not modelled at all*, because it is sequential, keeps no state, and is a matter of
tables and formats: the exit contract, the metadata policies, the catalogue of
events and receipts (where an action appends an event the catalogue is taken to
accept it), canonical serialisation, the adapters, argument parsing and wording,
and the tools beside the package.  `recovery_report`, `classify_recovery` and
`status_report` change no state, and no command reaches them.

*Out of the reach of the proofs.*  Everything that follows from fairness, and
induction over data by the theorems of the library, which take an operator as a
parameter.  What a function over a number of rounds or a fold computes is proved by
least counterexamples where a theorem needs it, for an operator at a time.
