---------------------------- MODULE ContentStore ----------------------------
(***************************************************************************)
(* ohpipe/store.py: the content-addressed store under <root>/objects.      *)
(* Putters run the publication protocol of ContentStore.put against one    *)
(* directory, readers run open_verified, and the machine may kill a        *)
(* process, fail a system call, or lose power.  The answers of a model go  *)
(* another way into the same directory (application/l1_publication.py):    *)
(* it cleans up after itself, and ends with the journal of its caller.     *)
(*                                                                         *)
(* A content is also its address (SHA-256 is taken to be injective).  An   *)
(* inode holds the first `blocks' of the Blocks blocks of a content;       *)
(* `synced' of them survive a loss of power.  `dir' is the directory as    *)
(* every process sees it, `durable' the directory as it is on the disk.    *)
(***************************************************************************)
EXTENDS Naturals, FiniteSets

CONSTANTS Putters,      \* processes that put something into the store
          Publishers,   \* those of them that do it by l1_object_publication
          Readers,      \* processes that call open_verified
          Contents,     \* the byte strings that are put
          Blocks,       \* blocks of a content: what one os.write may leave over
          MaxPuts,      \* bound: temporary files ever created
          MaxFaults,    \* bound: faults of the machine
          Faults,       \* subset of AllFaults that may happen
          None

AllFaults == {"kill", "power", "oserror", "nosync", "rot", "swap"}

ASSUME StoreAssumption ==
    /\ Blocks \in Nat \ {0} /\ MaxPuts \in Nat /\ MaxFaults \in Nat
    /\ Faults \subseteq AllFaults
    /\ None \notin Contents /\ IsFiniteSet(Contents)
    /\ Publishers \subseteq Putters

VARIABLES dir,      \* name -> inode, as the running system sees it
          durable,  \* name -> inode, as it would be found after a loss of power
          data,     \* inode -> [of, blocks, synced]
          put,      \* putter -> [at, content, inode, ends]
          read,     \* reader -> [at, address, inode, got]
          calls,    \* puts and how they ended: [address, inode, ended]
          faults

vars == <<dir, durable, data, put, read, calls, faults>>

Inodes == DOMAIN data
Foreign == 0                              \* the inode another program leaves behind
Temp(i) == <<"incoming", i>>              \* the fresh name of put number i
Objects == DOMAIN dir \cap Contents

\* The name of an object is a digest, a temporary name begins with a dot.
ASSUME NamesAssumption == \A i \in 0..MaxPuts : Temp(i) \notin Contents

Digest(i) == IF data[i].blocks = Blocks THEN data[i].of ELSE None

Idle == [at |-> "idle", content |-> None, inode |-> Foreign, ends |-> "published"]
NotReading == [at |-> "idle", address |-> None, inode |-> Foreign, got |-> None]

Init ==
    /\ dir = << >> /\ durable = << >>
    /\ data = [i \in {Foreign} |-> [of |-> None, blocks |-> Blocks, synced |-> Blocks]]
    /\ put = [p \in Putters |-> Idle]
    /\ read = [r \in Readers |-> NotReading]
    /\ calls = {} /\ faults = 0

With(f, x, y) == [n \in DOMAIN f \cup {x} |-> IF n = x THEN y ELSE f[n]]
Without(f, x) == [n \in DOMAIN f \ {x} |-> f[n]]
At(p, pc) == put[p].at = pc
GoOn(p, pc) == put' = [put EXCEPT ![p].at = pc]
Cleans(p) == p \in Publishers
CleanUp(p) == put' = [put EXCEPT ![p].at = "discarding", ![p].ends = "cleaned"]
Ends(p, how) ==
    /\ put' = [put EXCEPT ![p] = Idle]
    /\ calls' = calls \cup
         {[address |-> put[p].content, inode |-> put[p].inode, ended |-> how]}
Failed == {"StoreWriteFailed", "CorruptObject", "OSError"}
UntilPowerLoss == Failed \cup {"unswept"}  \* the endings that no sync has made good
Fault(kind) == kind \in Faults /\ faults < MaxFaults /\ faults' = faults + 1

-----------------------------------------------------------------------------
(* put, one action per system call.  The objects directory exists.         *)

\* Step 1: a temporary file of its own (O_CREAT|O_EXCL) in the directory.
CreateTemp(p, c) ==
    LET i == Cardinality(Inodes) IN
    /\ At(p, "idle") /\ i <= MaxPuts
    /\ dir' = With(dir, Temp(i), i)
    /\ data' = With(data, i, [of |-> c, blocks |-> 0, synced |-> 0])
    /\ put' = [put EXCEPT ![p] =
                 [at |-> "writing", content |-> c, inode |-> i, ends |-> "published"]]
    /\ UNCHANGED <<durable, read, calls, faults>>

\* Step 2: os.write may write less than it was given; _write_all goes on.
WriteSome(p) ==
    LET i == put[p].inode IN
    /\ At(p, "writing")
    /\ \E k \in 1..(Blocks - data[i].blocks) :
         /\ data' = [data EXCEPT ![i].blocks = @ + k]
         /\ GoOn(p, IF data[i].blocks + k = Blocks THEN "syncing" ELSE "writing")
    /\ UNCHANGED <<dir, durable, read, calls, faults>>

\* Mutant: the file is published before it is on the disk
FsyncFileSkipped(p) ==
    /\ At(p, "syncing") /\ GoOn(p, "linking")
    /\ UNCHANGED <<dir, durable, data, read, calls, faults>>

FsyncFile(p) ==
    /\ At(p, "syncing") /\ GoOn(p, "linking")
    /\ data' = [data EXCEPT ![put[p].inode].synced = data[put[p].inode].blocks]
    /\ UNCHANGED <<dir, durable, read, calls, faults>>

\* Mutant: a failing write removes its temporary file
WriteFailsTidily(p) ==
    /\ At(p, "writing") \/ At(p, "syncing")
    /\ Fault("oserror") /\ Ends(p, "StoreWriteFailed")
    /\ dir' = Without(dir, Temp(put[p].inode))
    /\ UNCHANGED <<durable, data, read>>

\* A failing write or fsync: the temporary file is left where it is.
WriteFails(p) ==
    /\ At(p, "writing") \/ At(p, "syncing")
    /\ ~Cleans(p)
    /\ Fault("oserror") /\ Ends(p, "StoreWriteFailed")
    /\ UNCHANGED <<dir, durable, data, read>>

\* Mutant: os.rename instead of os.link
PublishByRename(p) ==
    /\ At(p, "linking")
    /\ dir' = With(dir, put[p].content, put[p].inode)
    /\ GoOn(p, "unlinking")
    /\ UNCHANGED <<durable, data, read, calls, faults>>

\* Step 3: os.link publishes and never overwrites.
Publish(p) ==
    /\ At(p, "linking") /\ put[p].content \notin DOMAIN dir
    /\ dir' = With(dir, put[p].content, put[p].inode)
    /\ GoOn(p, IF Cleans(p) THEN "dirsync" ELSE "unlinking")
    /\ UNCHANGED <<durable, data, read, calls, faults>>

PublishFails(p) ==
    /\ At(p, "linking") /\ ~Cleans(p)
    /\ Fault("oserror") /\ Ends(p, "StoreWriteFailed")
    /\ UNCHANGED <<dir, durable, data, read>>

\* Step 4: the name is taken, so the object under it is hashed again.
Exists(p) ==
    LET c == put[p].content IN
    /\ At(p, "linking") /\ c \in DOMAIN dir
    /\ IF Digest(dir[c]) = c
       THEN GoOn(p, IF Cleans(p) THEN "dirsync" ELSE "dropping") /\ UNCHANGED calls
       ELSE IF Cleans(p) THEN CleanUp(p) /\ UNCHANGED calls ELSE Ends(p, "CorruptObject")
    /\ UNCHANGED <<dir, durable, data, read, faults>>

\* The path after EEXIST ends here: the directory is not synced.
DropTemp(p) ==
    /\ At(p, "dropping") /\ Ends(p, "existed")
    /\ dir' = Without(dir, Temp(put[p].inode))
    /\ UNCHANGED <<durable, data, read, faults>>

UnlinkTemp(p) ==
    /\ At(p, "unlinking") /\ GoOn(p, "dirsync")
    /\ dir' = Without(dir, Temp(put[p].inode))
    /\ UNCHANGED <<durable, data, read, calls, faults>>

\* os.unlink is outside every try: its OSError reaches the caller as it is.
UnlinkFails(p) ==
    /\ At(p, "dropping") \/ At(p, "unlinking")
    /\ Fault("oserror") /\ Ends(p, "OSError")
    /\ UNCHANGED <<dir, durable, data, read>>

\* Mutant: every error of the directory fsync is swallowed, as it once was
FsyncDirSwallows(p) ==
    /\ At(p, "dirsync") /\ Ends(p, "published")
    /\ UNCHANGED <<dir, durable, data, read, faults>>

\* Step 5: fsync on the directory.
FsyncDir(p) ==
    /\ At(p, "dirsync") /\ ~Cleans(p) /\ Ends(p, "published")
    /\ durable' = dir
    /\ UNCHANGED <<dir, data, read, faults>>

\* EINVAL and its like are taken for a file system that has no such fsync,
\* and put returns as if all were well; every other error is raised.
FsyncDirFails(p) ==
    /\ At(p, "dirsync") /\ ~Cleans(p)
    /\ \/ Fault("nosync") /\ Ends(p, "unsynced")
       \/ Fault("oserror") /\ Ends(p, "StoreWriteFailed")
    /\ UNCHANGED <<dir, durable, data, read>>

-----------------------------------------------------------------------------
(* l1_object_publication.  Up to the link it does what put does; the file  *)
(* is hashed before, and the object after the fsync of the directory, on   *)
(* either path.  Then the caller journals the address, and only then the   *)
(* temporary file is taken away.                                           *)

SyncPublished(p) ==
    /\ At(p, "dirsync") /\ Cleans(p) /\ GoOn(p, "checking")
    /\ durable' = dir
    /\ UNCHANGED <<dir, data, read, calls, faults>>

SyncIgnored(p) ==
    /\ At(p, "dirsync") /\ Cleans(p) /\ Fault("nosync")
    /\ put' = [put EXCEPT ![p].at = "checking", ![p].ends = "unsynced"]
    /\ UNCHANGED <<dir, durable, data, read, calls>>

CheckPublished(p) ==
    LET c == put[p].content
        good == c \in DOMAIN dir /\ Digest(dir[c]) = c
    IN  /\ At(p, "checking")
        /\ IF good THEN GoOn(p, "journalling") ELSE CleanUp(p)
        /\ UNCHANGED <<dir, durable, data, read, calls, faults>>

\* The caller's events name the address from here on, whatever fails next.
Record(p) ==
    /\ At(p, "journalling") /\ GoOn(p, "discarding")
    /\ calls' = calls \cup {[address |-> put[p].content, inode |-> put[p].inode,
                             ended |-> put[p].ends]}
    /\ UNCHANGED <<dir, durable, data, read, faults>>

\* Any step raises, journalling included.
PublicationFails(p) ==
    /\ Cleans(p) /\ ~At(p, "idle") /\ put[p].ends \in {"published", "unsynced"}
    /\ Fault("oserror") /\ CleanUp(p)
    /\ UNCHANGED <<dir, durable, data, read, calls>>

\* Mutant: the final name is taken away with the temporary one
DiscardBoth(p) ==
    LET name == IF put[p].ends = "cleaned" THEN put[p].content ELSE Temp(put[p].inode) IN
    /\ At(p, "discarding") /\ GoOn(p, "lastsync")
    /\ dir' = Without(dir, name)
    /\ UNCHANGED <<durable, data, read, calls, faults>>

\* Only its own temporary name, after success as after failure.
Discard(p) ==
    /\ At(p, "discarding") /\ GoOn(p, "lastsync")
    /\ dir' = Without(dir, Temp(put[p].inode))
    /\ UNCHANGED <<durable, data, read, calls, faults>>

\* A publication is over; one that was withdrawn reports how it was cleaned up.
Leaves(p, how) ==
    IF put[p].ends = "cleaned" THEN Ends(p, how)
    ELSE put' = [put EXCEPT ![p] = Idle] /\ UNCHANGED calls

LastSync(p) ==
    /\ At(p, "lastsync") /\ Leaves(p, "cleaned")
    /\ durable' = dir
    /\ UNCHANGED <<dir, data, read, faults>>

\* The last sync forgives what the first one does.  The report is the same as
\* if it had been done: only the model tells "unswept" from "cleaned".
LastSyncIgnored(p) ==
    /\ At(p, "lastsync") /\ Fault("nosync") /\ Leaves(p, "unswept")
    /\ UNCHANGED <<dir, durable, data, read>>

\* A cleaning that fails itself, once or at both steps, is reported as such.
CleaningFails(p) ==
    /\ put[p].ends \in {"cleaned", "uncleaned"} /\ Fault("oserror")
    /\ \/ At(p, "discarding")
          /\ put' = [put EXCEPT ![p].at = "lastsync", ![p].ends = "uncleaned"]
       \/ At(p, "lastsync") /\ put' = [put EXCEPT ![p] = Idle]
    /\ UNCHANGED <<dir, durable, data, read, calls>>

Publication(p) ==
    \/ SyncPublished(p) \/ SyncIgnored(p) \/ CheckPublished(p) \/ Record(p)
    \/ PublicationFails(p) \/ Discard(p) \/ LastSync(p) \/ LastSyncIgnored(p)
    \/ CleaningFails(p)

Put(p) ==
    \/ \E c \in Contents : CreateTemp(p, c)
    \/ WriteSome(p) \/ FsyncFile(p) \/ WriteFails(p)
    \/ Publish(p) \/ PublishFails(p) \/ Exists(p) \/ DropTemp(p)
    \/ UnlinkTemp(p) \/ UnlinkFails(p) \/ FsyncDir(p) \/ FsyncDirFails(p)
    \/ Publication(p)

-----------------------------------------------------------------------------
(* open_verified: the descriptor that was hashed is the one handed out.    *)

Open(r, c) ==
    /\ read[r].at = "idle" /\ c \in DOMAIN dir
    /\ read' = [read EXCEPT ![r] =
                  [at |-> "opened", address |-> c, inode |-> dir[c], got |-> None]]
    /\ UNCHANGED <<dir, durable, data, put, calls, faults>>

VerifyOpened(r) ==
    /\ read[r].at = "opened"
    /\ read' = [read EXCEPT ![r] = IF Digest(read[r].inode) = read[r].address
                                   THEN [@ EXCEPT !.at = "verified"] ELSE NotReading]
    /\ UNCHANGED <<dir, durable, data, put, calls, faults>>

\* Mutant: the object is opened a second time after it was verified
ReadReopened(r) ==
    /\ read[r].at = "verified" /\ read[r].address \in DOMAIN dir
    /\ read' = [read EXCEPT ![r].at = "read", ![r].got = Digest(dir[read[r].address])]
    /\ UNCHANGED <<dir, durable, data, put, calls, faults>>

ReadVerified(r) ==
    /\ read[r].at = "verified"
    /\ read' = [read EXCEPT ![r].at = "read", ![r].got = Digest(read[r].inode)]
    /\ UNCHANGED <<dir, durable, data, put, calls, faults>>

CloseRead(r) ==
    /\ read[r].at = "read"
    /\ read' = [read EXCEPT ![r] = NotReading]
    /\ UNCHANGED <<dir, durable, data, put, calls, faults>>

Read(r) ==
    (\E c \in Contents : Open(r, c)) \/ VerifyOpened(r) \/ ReadVerified(r) \/ CloseRead(r)

-----------------------------------------------------------------------------
(* The machine and the world outside the program.                          *)

Kill(p) ==
    /\ ~At(p, "idle") /\ Fault("kill")
    /\ put' = [put EXCEPT ![p] = Idle]
    /\ UNCHANGED <<dir, durable, data, read, calls>>

\* Each entry that differs between dir and durable may be found either way,
\* and of each file at least the synced blocks are there.
PowerLoss ==
    /\ Fault("power")
    /\ \E kept \in SUBSET (DOMAIN dir \cup DOMAIN durable) :
         LET stays == {n \in DOMAIN dir : n \in kept}
             back  == {n \in DOMAIN durable : n \notin kept}
         IN dir' = [n \in stays \cup back |-> IF n \in stays THEN dir[n] ELSE durable[n]]
    /\ durable' = dir'
    /\ \E left \in [Inodes -> 0..Blocks] :
         /\ \A i \in Inodes : left[i] \in data[i].synced..data[i].blocks
         /\ data' = [i \in Inodes |->
                       [data[i] EXCEPT !.blocks = left[i], !.synced = left[i]]]
    /\ put' = [p \in Putters |-> Idle]
    /\ read' = [r \in Readers |-> NotReading]
    /\ calls' = {call \in calls : call.ended \notin UntilPowerLoss}

\* The bytes of a published object change in place.
Rot(c) ==
    /\ c \in DOMAIN dir /\ Fault("rot")
    /\ data' = [data EXCEPT ![dir[c]].of = None]
    /\ UNCHANGED <<dir, durable, put, read, calls>>

\* Another program puts another file under a published name.
Swap(c) ==
    /\ c \in DOMAIN dir /\ Fault("swap")
    /\ dir' = [dir EXCEPT ![c] = Foreign]
    /\ UNCHANGED <<durable, data, put, read, calls>>

Next ==
    \/ \E p \in Putters : Put(p) \/ Kill(p)
    \/ \E r \in Readers : Read(r)
    \/ PowerLoss
    \/ \E c \in Contents : Rot(c) \/ Swap(c)

Spec == Init /\ [][Next]_vars

-----------------------------------------------------------------------------
(* Properties *)

\* "A torso never bears the final name": what lies under an address has that
\* digest, also after a loss of power and whoever published it (store.py put,
\* steps 2 and 3), unless others have changed it since.
Ours(i) == data[i].of # None
NamedIsWhole == \A c \in Objects : Ours(dir[c]) => Digest(dir[c]) = c

\* The object of a put that published and returned is found again after
\* every crash and loss of power (put, step 5), and so is every address that
\* the journal names by way of l1_object_publication, whoever published it.
PublishedIsDurable ==
    \A call \in calls : call.ended = "published" => call.address \in DOMAIN dir

\* No step of the program puts another file under a name that is taken:
\* os.link instead of os.rename.
NeverOverwritten ==
    [][\A c \in Objects :
          c \in DOMAIN dir' => dir'[c] = dir[c] \/ Foreign \in {dir[c], dir'[c]}]_vars

\* A put that failed can be seen until power is lost: its temporary file is
\* still there, or its own file is what was put under the address.  An L1
\* publication that reports that it has cleaned up ("eigener Tempalias
\* bereinigt") has left no temporary file that anybody sees, and if its last
\* sync of the directory was one that the file system did, none that a loss of
\* power brings back; where that sync was forgiven (_fsync_dir), the report
\* holds until power is lost.
FailedLeavesTrace ==
    \A call \in calls :
        /\ call.ended \in Failed =>
              \/ Temp(call.inode) \in DOMAIN dir
              \/ call.address \in DOMAIN dir /\ dir[call.address] \in {call.inode, Foreign}
        /\ call.ended \in {"cleaned", "unswept"} => Temp(call.inode) \notin DOMAIN dir

\* open_verified hands out the bytes of the address, even when the name is
\* given to another file between hashing and reading; only a change of the
\* very file in place gets through.
ReaderGetsAddress ==
    \A r \in Readers :
        read[r].at = "read" /\ Ours(read[r].inode) => read[r].got = read[r].address
=============================================================================
