------------------------------ MODULE Journal ------------------------------
(***************************************************************************)
(* The append-only event journal of ohpipe (journal.py): one JSONL file,   *)
(* hash-chained line by line, shared by every process that works on a      *)
(* workspace.  A writer is one Journal object in one process.  It takes    *)
(* an flock for "read the head, look for a duplicate, append", computes    *)
(* the next line from a head it may have remembered, writes, fsyncs, and   *)
(* remembers the new head.  Readers take no lock at all.                   *)
(*                                                                         *)
(* The file is a sequence of chunks: the body of an event, the newline     *)
(* that ends its line, or a piece of a body that was cut off.  The length  *)
(* of that sequence stands for st_size.                                    *)
(***************************************************************************)
EXTENDS Integers, Sequences, FiniteSets

CONSTANTS
    Writers,        \* Journal objects, each in its own process
    Readers,        \* processes that read without the lock (status, doctor)
    PlainKinds,     \* kinds written with append
    OnceKinds,      \* kinds written with append_once, default duplicate rule
    PayloadKinds,   \* kinds written with append_once and a payload predicate
    Vals,           \* payloads, as far as a duplicate rule tells them apart
    Cuts,           \* where a write may be cut: subset of CutPlaces
    Faults,         \* what the environment may do: subset of FaultKinds
    MaxOps,         \* bound: operations begun
    MaxFaults,      \* bound: faults that happen
    None            \* no lock holder, no remembered head, no event

CutPlaces == {"half", "split", "whole"}
FaultKinds == {"kill", "power", "short", "oserror"}
Kinds == PlainKinds \cup OnceKinds \cup PayloadKinds

ASSUME KindsAssumption ==
    /\ PlainKinds \cap OnceKinds = {}
    /\ PlainKinds \cap PayloadKinds = {}
    /\ OnceKinds \cap PayloadKinds = {}
ASSUME EnvironmentAssumption == Cuts \subseteq CutPlaces /\ Faults \subseteq FaultKinds
ASSUME BoundsAssumption == MaxOps \in Nat /\ MaxFaults \in Nat
ASSUME NoneAssumption == None \notin Writers

-----------------------------------------------------------------------------
(* Events and digests.  The digest of an event commits to its content and  *)
(* to prev, hence to everything before it: an ideal hash of that is the    *)
(* sequence of contents itself.  prev of the first line is GENESIS.        *)

Content == [kind : Kinds, val : Vals]
Genesis == << >>
Digest(e) == Append(e.prev, [kind |-> e.kind, val |-> e.val])

Event == [what : {"event"}, seq : Nat, kind : Kinds, val : Vals, prev : Seq(Content)]
Piece == [what : {"half", "split"}]
Newline == [what |-> "newline"]
Chunk == Event \cup Piece \cup {Newline}

MakeEvent(head, c) ==
    [what |-> "event", seq |-> head.seq + 1, kind |-> c.kind, val |-> c.val, prev |-> head.digest]

Head0 == [seq |-> 0, digest |-> Genesis]
HeadAfter(e) == [seq |-> e.seq, digest |-> Digest(e)]

(* What of a line is in the file when its write is cut at a place: a piece *)
(* of the JSON text, a piece that ends inside a multi-byte character, or   *)
(* the whole JSON text without its newline.                                *)
Cut(place, e) == IF place = "whole" THEN e ELSE [what |-> place]

-----------------------------------------------------------------------------
(* Reading a file.  A line is good if it is exactly one event; the last    *)
(* line may lack its newline.  WholeLines: the first n lines are good and  *)
(* ended.                                                                  *)

IsEvent(x) == x.what = "event"

WholeLines(f, n) ==
    /\ 2 * n <= Len(f)
    /\ \A i \in 1..n : IsEvent(f[2 * i - 1]) /\ f[2 * i] = Newline

LineCount(f) == (Len(f) + 1) \div 2

EndsClean(f) == Len(f) = 2 * LineCount(f)

Parses(f) ==
    IF EndsClean(f)
    THEN WholeLines(f, LineCount(f))
    ELSE WholeLines(f, LineCount(f) - 1) /\ IsEvent(f[Len(f)])

(* The line numbers an iteration yields before it reaches a bad line. *)
GoodLine(f, i) ==
    /\ WholeLines(f, i - 1)
    /\ IsEvent(f[2 * i - 1])
    /\ 2 * i <= Len(f) => f[2 * i] = Newline

Readable(f) == {i \in 1..LineCount(f) : GoodLine(f, i)}

Line(f, i) == f[2 * i - 1]

HeadOf(f) == IF Len(f) = 0 THEN Head0 ELSE HeadAfter(Line(f, LineCount(f)))

(* A character cut in two makes the decoder fail, before or after earlier  *)
(* lines of the same buffer were yielded.                                  *)
Undecodable(f) == \E i \in 1..Len(f) : f[i].what = "split"

Events(f) == [i \in 1..LineCount(f) |-> Line(f, i)]

(* _verify_events: sequence numbers from 1, each prev the digest before;   *)
(* the digest itself is recomputed from the content and always agrees.     *)
Chained(s) ==
    \A i \in 1..Len(s) :
        /\ s[i].seq = i
        /\ s[i].prev = IF i = 1 THEN Genesis ELSE Digest(s[i - 1])

(* The duplicate rules of append_once. *)
Duplicate(c, e) == e.kind = c.kind /\ (c.kind \in PayloadKinds => e.val = c.val)

-----------------------------------------------------------------------------
VARIABLES
    file,       \* the journal file, as every process sees it
    durable,    \* how much of it survives a power loss
    lock,       \* holder of the flock on the lock file, or None
    pc,         \* control state of each writer
    mode,       \* "append", "append_once" or "transaction"
    todo,       \* contents the operation has still to write
    snap,       \* _JournalTransaction._events
    ev,         \* the event being written
    kopf,       \* _kopf: the remembered head, or None
    groesse,    \* _groesse_nach_schreiben: file size the head belongs to
    acked,      \* events whose append has returned to its caller
    view,       \* what each reader got last: a snapshot or an exception
    begun,      \* operations begun (bounded by MaxOps)
    faults      \* faults so far (bounded by MaxFaults)

local == <<mode, todo, snap, ev>>
cache == <<kopf, groesse>>
env == <<view, begun, faults>>
vars == <<file, durable, lock, pc, mode, todo, snap, ev, kopf, groesse, acked, view, begun, faults>>

HeadRec == [seq : Nat, digest : Seq(Content)]
Locked == {"verify", "scan", "head", "write", "writing", "sync", "release"}
Outcomes == {"none", "ok", "JournalBroken", "UnicodeDecodeError"}

TypeOK ==
    /\ file \in Seq(Chunk)
    /\ durable \in 0..Len(file)
    /\ lock \in Writers \cup {None}
    /\ pc \in [Writers -> {"idle", "want"} \cup Locked]
    /\ mode \in [Writers -> {"append", "append_once", "transaction"}]
    /\ todo \in [Writers -> Seq(Content)]
    /\ snap \in [Writers -> Seq(Event)]
    /\ ev \in [Writers -> Event \cup {None}]
    /\ kopf \in [Writers -> HeadRec \cup {None}]
    /\ groesse \in [Writers -> Nat]
    /\ acked \in SUBSET Event
    /\ view \in [Readers -> [outcome : Outcomes, events : Seq(Event)]]
    /\ begun \in 0..MaxOps
    /\ faults \in 0..MaxFaults

Init ==
    /\ file = << >>
    /\ durable = 0
    /\ lock = None
    /\ pc = [w \in Writers |-> "idle"]
    /\ mode = [w \in Writers |-> "append"]
    /\ todo = [w \in Writers |-> << >>]
    /\ snap = [w \in Writers |-> << >>]
    /\ ev = [w \in Writers |-> None]
    /\ kopf = [w \in Writers |-> None]
    /\ groesse = [w \in Writers |-> 0]
    /\ acked = {}
    /\ view = [r \in Readers |-> [outcome |-> "none", events |-> << >>]]
    /\ begun = 0
    /\ faults = 0

-----------------------------------------------------------------------------
(* Beginning an operation: check_payload has accepted the payload before   *)
(* any lock is taken.                                                      *)

Begin(w, m, work) ==
    /\ pc[w] = "idle"
    /\ begun < MaxOps
    /\ begun' = begun + 1
    /\ pc' = [pc EXCEPT ![w] = "want"]
    /\ mode' = [mode EXCEPT ![w] = m]
    /\ todo' = [todo EXCEPT ![w] = work]
    /\ UNCHANGED <<file, durable, lock, snap, ev, cache, acked, view, faults>>

BeginAppend(w) ==
    \E k \in PlainKinds, v \in Vals : Begin(w, "append", <<[kind |-> k, val |-> v]>>)

OnceContent == {c \in Content : c.kind \notin PlainKinds}

BeginAppendOnce(w) == \E c \in OnceContent : Begin(w, "append_once", <<c>>)

BeginTransaction(w) ==
    \E c, d \in OnceContent : Begin(w, "transaction", <<c, d>>)

(* _exclusive: flock, then open the journal under it. *)
FirstUnderLock(m) ==
    CASE m = "append" -> "head" [] m = "append_once" -> "scan" [] OTHER -> "verify"

\* Mutant: the lock file is another inode for each process
LockUnshared(w) ==
    /\ pc[w] = "want"
    /\ lock' = w
    /\ pc' = [pc EXCEPT ![w] = FirstUnderLock(mode[w])]
    /\ UNCHANGED <<file, durable, local, cache, acked, env>>

Lock(w) ==
    /\ pc[w] = "want"
    /\ lock = None
    /\ lock' = w
    /\ pc' = [pc EXCEPT ![w] = FirstUnderLock(mode[w])]
    /\ UNCHANGED <<file, durable, local, cache, acked, env>>

(* Leaving the with-block, normally or by an exception. *)
Release(w) ==
    /\ pc[w] = "release"
    /\ lock' = None
    /\ pc' = [pc EXCEPT ![w] = "idle"]
    /\ todo' = [todo EXCEPT ![w] = << >>]
    /\ snap' = [snap EXCEPT ![w] = << >>]
    /\ ev' = [ev EXCEPT ![w] = None]
    /\ UNCHANGED <<file, durable, mode, cache, acked, env>>

Goto(w, l) == pc' = [pc EXCEPT ![w] = l]

(* transaction(): the whole file is read and its chain verified first. *)
Verify(w) ==
    /\ pc[w] = "verify"
    /\ \/ /\ Parses(file)
          /\ Chained(Events(file))
          /\ snap' = [snap EXCEPT ![w] = Events(file)]
          /\ Goto(w, "scan")
       \/ /\ ~(Parses(file) /\ Chained(Events(file)))
          /\ Goto(w, "release")
          /\ UNCHANGED snap
    /\ UNCHANGED <<file, durable, lock, mode, todo, ev, cache, acked, env>>

(* The duplicate check.  append_once reads the file and stops at the first *)
(* duplicate, before a bad line further on; inside a transaction the check *)
(* looks at the transaction's own list of events.                          *)
KnownEvents(w) ==
    IF mode[w] = "transaction"
    THEN {snap[w][i] : i \in 1..Len(snap[w])}
    ELSE {Line(file, i) : i \in Readable(file)}

ScanFails(w) == mode[w] = "append_once" /\ ~Parses(file)

FoundDuplicate(w) == \E e \in KnownEvents(w) : Duplicate(todo[w][1], e)

Skip(w) ==
    /\ todo' = [todo EXCEPT ![w] = Tail(todo[w])]
    /\ Goto(w, IF Tail(todo[w]) = << >> THEN "release" ELSE "scan")

Scan(w) ==
    /\ pc[w] = "scan"
    /\ \/ /\ FoundDuplicate(w)
          /\ Skip(w)
       \/ /\ ScanFails(w)
          /\ ~FoundDuplicate(w) \/ Undecodable(file)
          /\ Goto(w, "release")
          /\ UNCHANGED todo
       \/ /\ ~FoundDuplicate(w)
          /\ ~ScanFails(w)
          /\ Goto(w, "head")
          /\ UNCHANGED todo
    /\ UNCHANGED <<file, durable, lock, mode, snap, ev, cache, acked, env>>

\* Mutant: the remembered head is used without looking at the size
RememberedAlways(w) == kopf[w] # None

(* _head_locked: the remembered head counts only if the file still has the *)
(* size it had after this writer's last write; otherwise the whole file is *)
(* read, and a bad line raises.                                            *)
Remembered(w) == kopf[w] # None /\ groesse[w] = Len(file)

TakeHead(w) ==
    /\ pc[w] = "head"
    /\ \/ /\ Remembered(w)
          /\ ev' = [ev EXCEPT ![w] = MakeEvent(kopf[w], todo[w][1])]
          /\ Goto(w, "write")
          /\ UNCHANGED cache
       \/ /\ ~Remembered(w)
          /\ Parses(file)
          /\ kopf' = [kopf EXCEPT ![w] = HeadOf(file)]
          /\ groesse' = [groesse EXCEPT ![w] = Len(file)]
          /\ ev' = [ev EXCEPT ![w] = MakeEvent(HeadOf(file), todo[w][1])]
          /\ Goto(w, "write")
       \/ /\ ~Remembered(w)
          /\ ~Parses(file)
          /\ Goto(w, "release")
          /\ UNCHANGED <<cache, ev>>
    /\ UNCHANGED <<file, durable, lock, mode, todo, snap, acked, env>>

(* os.write: readers may see a part of the line before the rest. *)
StartWrite(w) ==
    /\ pc[w] = "write"
    /\ \E place \in Cuts : file' = Append(file, Cut(place, ev[w]))
    /\ Goto(w, "writing")
    /\ UNCHANGED <<durable, lock, local, cache, acked, env>>

FinishWrite(w) ==
    /\ pc[w] = "writing"
    /\ file' = [file EXCEPT ![Len(file)] = ev[w]] \o <<Newline>>
    /\ Goto(w, "sync")
    /\ UNCHANGED <<durable, lock, local, cache, acked, env>>

\* Mutant: no fsync before the event is returned
SyncSkipped(w) ==
    /\ pc[w] = "sync"
    /\ kopf' = [kopf EXCEPT ![w] = HeadAfter(ev[w])]
    /\ groesse' = [groesse EXCEPT ![w] = Len(file)]
    /\ acked' = acked \cup {ev[w]}
    /\ snap' = [snap EXCEPT ![w] = Append(snap[w], ev[w])]
    /\ Skip(w)
    /\ UNCHANGED <<file, durable, lock, mode, ev, env>>

\* Mutant: the transaction does not extend its own list of events
SyncForgets(w) ==
    /\ pc[w] = "sync"
    /\ durable' = Len(file)
    /\ kopf' = [kopf EXCEPT ![w] = HeadAfter(ev[w])]
    /\ groesse' = [groesse EXCEPT ![w] = Len(file)]
    /\ acked' = acked \cup {ev[w]}
    /\ Skip(w)
    /\ UNCHANGED <<file, lock, mode, snap, ev, env>>

(* fsync, and only then the new head is remembered; the event is returned. *)
Sync(w) ==
    /\ pc[w] = "sync"
    /\ durable' = Len(file)
    /\ kopf' = [kopf EXCEPT ![w] = HeadAfter(ev[w])]
    /\ groesse' = [groesse EXCEPT ![w] = Len(file)]
    /\ acked' = acked \cup {ev[w]}
    /\ snap' = [snap EXCEPT ![w] = Append(snap[w], ev[w])]
    /\ Skip(w)
    /\ UNCHANGED <<file, lock, mode, ev, env>>

(* verified_events without the lock: the snapshot that is returned is the  *)
(* one that was checked.                                                   *)
Read(r) ==
    /\ view' = [view EXCEPT ![r] =
          IF Undecodable(file)
          THEN [outcome |-> "UnicodeDecodeError", events |-> << >>]
          ELSE IF Parses(file) /\ Chained(Events(file))
               THEN [outcome |-> "ok", events |-> Events(file)]
               ELSE [outcome |-> "JournalBroken", events |-> << >>]]
    /\ UNCHANGED <<file, durable, lock, pc, local, cache, acked, begun, faults>>

-----------------------------------------------------------------------------
(* The environment. *)

Fault(kind) ==
    /\ kind \in Faults
    /\ faults < MaxFaults
    /\ faults' = faults + 1
    /\ UNCHANGED <<view, begun>>

(* os.write returns fewer bytes than it was given (a full disk, a size     *)
(* limit); the return value is not looked at.                              *)
ShortWrite(w) ==
    /\ pc[w] = "writing"
    /\ Fault("short")
    /\ Goto(w, "sync")
    /\ UNCHANGED <<file, durable, lock, local, cache, acked>>

\* Mutant: a failed write or fsync cuts the last line off
OsErrorRollsBack(w) ==
    /\ pc[w] \in {"write", "sync"}
    /\ Fault("oserror")
    /\ Goto(w, "release")
    /\ file' = SubSeq(file, 1, Len(file) - 2)
    /\ UNCHANGED <<durable, lock, local, cache, acked>>

\* Mutant: an exception leaves the block without unlocking
OsErrorKeepsLock(w) ==
    /\ pc[w] \in {"write", "sync"}
    /\ Fault("oserror")
    /\ Goto(w, "idle")
    /\ UNCHANGED <<file, durable, lock, local, cache, acked>>

(* os.write raises before it wrote anything, or fsync raises after a full  *)
(* write: the head is not remembered.                                      *)
OsError(w) ==
    /\ pc[w] \in {"write", "sync"}
    /\ Fault("oserror")
    /\ Goto(w, "release")
    /\ UNCHANGED <<file, durable, lock, local, cache, acked>>

(* The process is killed: the kernel closes its descriptors and drops the  *)
(* flock; the file stays as it is.  A new process starts without a         *)
(* remembered head.                                                        *)
Kill(w) ==
    /\ pc[w] # "idle"
    /\ Fault("kill")
    /\ lock' = IF lock = w THEN None ELSE lock
    /\ pc' = [pc EXCEPT ![w] = "idle"]
    /\ todo' = [todo EXCEPT ![w] = << >>]
    /\ snap' = [snap EXCEPT ![w] = << >>]
    /\ ev' = [ev EXCEPT ![w] = None]
    /\ kopf' = [kopf EXCEPT ![w] = None]
    /\ groesse' = [groesse EXCEPT ![w] = 0]
    /\ UNCHANGED <<file, durable, mode, acked>>

(* Power loss: every process dies, and of what was not synced any prefix   *)
(* survives, possibly cut inside a line.                                   *)
LineEnds ==
    {0, Len(file)} \cup {j \in 1..Len(file) : "whole" \in Cuts \/ ~IsEvent(file[j])}

Survives(k) ==
    \/ /\ k \in LineEnds
       /\ file' = SubSeq(file, 1, k)
    \/ /\ k < Len(file)
       /\ IsEvent(file[k + 1])
       /\ \E p \in Cuts \ {"whole"} : file' = Append(SubSeq(file, 1, k), [what |-> p])

PowerLoss ==
    /\ "power" \in Faults
    /\ faults < MaxFaults
    /\ faults' = faults + 1
    /\ \E k \in durable..Len(file) : Survives(k)
    /\ durable' = Len(file')
    /\ lock' = None
    /\ pc' = [w \in Writers |-> "idle"]
    /\ todo' = [w \in Writers |-> << >>]
    /\ snap' = [w \in Writers |-> << >>]
    /\ ev' = [w \in Writers |-> None]
    /\ kopf' = [w \in Writers |-> None]
    /\ groesse' = [w \in Writers |-> 0]
    /\ view' = [r \in Readers |-> [outcome |-> "none", events |-> << >>]]
    /\ UNCHANGED <<mode, acked, begun>>

-----------------------------------------------------------------------------
Operate(w) ==
    \/ Lock(w) \/ Verify(w) \/ Scan(w) \/ TakeHead(w)
    \/ StartWrite(w) \/ FinishWrite(w) \/ Sync(w) \/ Release(w)

Next ==
    \/ \E w \in Writers :
          \/ BeginAppend(w) \/ BeginAppendOnce(w) \/ BeginTransaction(w)
          \/ Operate(w)
          \/ ShortWrite(w) \/ OsError(w) \/ Kill(w)
    \/ \E r \in Readers : Read(r)
    \/ PowerLoss

Spec == Init /\ [][Next]_vars

(* A process that is in an operation goes on; flock queues its waiters, so *)
(* a process that waits for a lock that is freed again and again gets it.  *)
FairSpec ==
    /\ Spec
    /\ \A w \in Writers : WF_vars(Operate(w)) /\ SF_vars(Lock(w))
-----------------------------------------------------------------------------
(* Safety. *)

(* Every line that an iteration can yield continues the chain: its number  *)
(* is its position and its prev the digest of the line before.  Whatever   *)
(* writers, kills, short writes and power losses did, what is readable is  *)
(* never a forked or gapped history (journal.py _verify_events).           *)
ReadableIsChain ==
    \A i \in Readable(file) :
        /\ Line(file, i).seq = i
        /\ Line(file, i).prev = IF i = 1 THEN Genesis ELSE Digest(Line(file, i - 1))

(* A head that passes the size test of _head_locked is the head that       *)
(* reading the file would give, as long as the file reads at all.          *)
RememberedHeadIsHead ==
    \A w \in Writers : Remembered(w) /\ Parses(file) => kopf[w] = HeadOf(file)

(* An event whose append returned is in the part of the file that survives *)
(* a loss of power.  Torn lines may make the journal unreadable, which     *)
(* every command reports; no acknowledged event is lost without that.      *)
NoSilentLoss ==
    Parses(file) =>
        \A e \in acked : \E i \in Readable(file) : 2 * i <= durable + 1 /\ Line(file, i) = e

(* Successive verified snapshots of a reader extend each other, although   *)
(* readers take no lock: no reader sees a history that is later retracted  *)
(* (within one uptime of the machine).                                     *)
IsStart(s, t) == Len(s) <= Len(t) /\ s = SubSeq(t, 1, Len(s))

ReadersAdvance ==
    [][\A r \in Readers :
          view[r].outcome = "ok" /\ view'[r].outcome = "ok"
              => IsStart(view[r].events, view'[r].events)]_vars

(* Liveness: a process that asked for the journal leaves it again, however *)
(* others are killed or fail while they hold the lock.                     *)
WantedIsServed == \A w \in Writers : pc[w] = "want" ~> pc[w] = "idle"

-----------------------------------------------------------------------------
(* The abstract log this file implements: what is durable and readable.    *)

DurableLines == {i \in Readable(file) : 2 * i <= durable}
DurableLog == [i \in 1..Cardinality(DurableLines) |->
    [kind |-> Line(file, i).kind, val |-> Line(file, i).val]]
AckedPositions == {e.seq : e \in acked}

Log == INSTANCE EventLog WITH log <- DurableLog, returned <- AckedPositions

(* Durable content only grows, once-only content stays unique, and what    *)
(* was returned to a caller is a position of the durable log.              *)
ImplementsEventLog == Log!Spec
=============================================================================
