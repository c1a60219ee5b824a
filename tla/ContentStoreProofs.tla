------------------------- MODULE ContentStoreProofs -------------------------
(***************************************************************************)
(* Proofs about the content store for every set of putters, publishers,    *)
(* readers and contents, every number of blocks, every bound and every     *)
(* combination of faults.                                                  *)
(***************************************************************************)
EXTENDS ContentStore, FiniteSetTheorems, TLAPS

-----------------------------------------------------------------------------
(* Type correctness.  Inodes are numbered without a gap, so that the       *)
(* number of the next temporary file is not taken.                         *)

Fresh == Cardinality(Inodes)              \* the inode of the next put
Controls == {"idle", "writing", "syncing", "linking", "dropping", "unlinking", "dirsync",
             "checking", "journalling", "discarding", "lastsync"}
Endings == {"published", "unsynced", "cleaned", "uncleaned"}
Ended == Endings \cup Failed \cup {"existed", "unswept"}
Bytes == Contents \cup {None}

InodesInv ==
    /\ Fresh \in 1..(MaxPuts + 1) /\ Inodes = 0..(Fresh - 1)
    /\ data[Foreign].of = None

FileType == [of : Bytes, blocks : 0..Blocks, synced : 0..Blocks]
DataInv ==
    /\ data \in [Inodes -> FileType]
    /\ \A i \in Inodes : data[i].synced <= data[i].blocks

NamesInv ==
    /\ dir \in [DOMAIN dir -> Inodes]
    /\ durable \in [DOMAIN durable -> Inodes]

PutType == [at : Controls, content : Bytes, inode : Inodes, ends : Endings]
ReadType == [at : {"idle", "opened", "verified", "read"},
             address : Bytes, inode : Inodes, got : Bytes]
CallType == [address : Bytes, inode : Inodes, ended : Ended]

TypeInv ==
    /\ InodesInv /\ DataInv /\ NamesInv
    /\ put \in [Putters -> PutType]
    /\ read \in [Readers -> ReadType]
    /\ calls \subseteq CallType

LEMMA TypeInit == Init => TypeInv
  <1> SUFFICES ASSUME Init PROVE TypeInv
    OBVIOUS
  <1>1. Inodes = 0..0 /\ Fresh = 1
    <2>1. Inodes = 0..0
      BY DEF Init, Inodes, Foreign
    <2>2. Cardinality(0..0) = 1
      <3>1. 0..0 = {0} /\ Cardinality({0}) = 1
        BY FS_Singleton
      <3> QED
        BY <3>1
    <2> QED
      BY <2>1, <2>2 DEF Fresh
  <1>2. data[Foreign] = [of |-> None, blocks |-> Blocks, synced |-> Blocks]
    BY DEF Init
  <1>3. InodesInv /\ DataInv
    BY <1>1, <1>2, StoreAssumption DEF InodesInv, DataInv, FileType, Bytes, Foreign, Init
  <1>4. put \in [Putters -> PutType] /\ read \in [Readers -> ReadType]
    BY <1>1 DEF Init, Idle, NotReading, PutType, ReadType, Controls, Endings, Bytes, Foreign
  <1>5. NamesInv /\ calls \subseteq CallType
    BY DEF Init, NamesInv
  <1> QED
    BY <1>3, <1>4, <1>5 DEF TypeInv

(* The number of the next put is new, and numbered by the next number. *)
LEMMA NextInode ==
    ASSUME TypeInv, NEW p \in Putters, NEW c \in Contents, CreateTemp(p, c)
    PROVE  /\ Fresh \notin Inodes /\ Inodes' = Inodes \cup {Fresh}
           /\ Fresh' = Fresh + 1 /\ Inodes' = 0..(Fresh' - 1) /\ Fresh' <= MaxPuts + 1
  <1>1. Fresh \in Nat /\ Inodes = 0..(Fresh - 1) /\ Fresh <= MaxPuts /\ MaxPuts \in Nat
    BY StoreAssumption DEF TypeInv, InodesInv, CreateTemp, Fresh
  <1>2. Inodes' = Inodes \cup {Fresh}
    BY DEF CreateTemp, With, Inodes, Fresh
  <1>3. Inodes' = 0..Fresh
    BY <1>1, <1>2
  <1>4. Fresh' = Fresh + 1
    <2>1. Cardinality(0..Fresh) = Fresh + 1
      BY <1>1, FS_Interval
    <2> QED
      BY <1>3, <2>1 DEF Fresh
  <1> QED
    BY <1>1, <1>2, <1>3, <1>4

(* What a step needs to keep the types when it creates no file. *)
LEMMA TypeKept ==
    ASSUME TypeInv, Inodes' = Inodes, DataInv', data'[Foreign].of = None,
           NamesInv', put' \in [Putters -> PutType], read' \in [Readers -> ReadType],
           calls' \subseteq CallType
    PROVE  TypeInv'
  <1>1. Fresh' = Fresh
    BY DEF Fresh
  <1>2. PutType' = PutType /\ ReadType' = ReadType /\ CallType' = CallType
    BY DEF PutType, ReadType, CallType
  <1> QED
    BY <1>1, <1>2 DEF TypeInv, InodesInv

(* What a file is, read field by field. *)
LEMMA FileFact ==
    ASSUME TypeInv, NEW i \in Inodes
    PROVE  /\ data[i] \in FileType /\ data[i].of \in Bytes
           /\ data[i].synced \in Nat /\ data[i].blocks \in Nat /\ Blocks \in Nat
           /\ data[i].synced <= data[i].blocks /\ data[i].blocks <= Blocks
  BY StoreAssumption DEF TypeInv, DataInv, FileType

LEMMA ForeignFact ==
    ASSUME TypeInv
    PROVE  Foreign \in Inodes /\ data[Foreign].of = None
  BY DEF TypeInv, InodesInv, Foreign

LEMMA TypeData ==
    ASSUME TypeInv, NEW new, data' = [i \in Inodes |-> new[i]],
           \A i \in Inodes : new[i] \in FileType /\ new[i].synced <= new[i].blocks,
           new[Foreign].of = None
    PROVE  Inodes' = Inodes /\ DataInv' /\ data'[Foreign].of = None
  <1>1. Foreign \in Inodes
    BY DEF TypeInv, InodesInv, Foreign
  <1> QED
    BY <1>1 DEF DataInv, Inodes

(* A call that ends leaves the other calls alone. *)
LEMMA TypeEnds ==
    ASSUME TypeInv, NEW p \in Putters, NEW how \in Ended, Ends(p, how)
    PROVE  put' \in [Putters -> PutType] /\ calls' \subseteq CallType
  <1>1. Idle \in PutType
    BY DEF TypeInv, InodesInv, Idle, PutType, Controls, Endings, Bytes, Foreign
  <1>2. put[p].content \in Bytes /\ put[p].inode \in Inodes
    BY DEF TypeInv, PutType
  <1>3. [address |-> put[p].content, inode |-> put[p].inode, ended |-> how] \in CallType
    BY <1>2 DEF CallType
  <1> QED
    BY <1>1, <1>3 DEF TypeInv, Ends

(* A step of a put that only goes on. *)
LEMMA TypeGoOn ==
    ASSUME TypeInv, NEW p \in Putters, NEW pc \in Controls, GoOn(p, pc)
    PROVE  put' \in [Putters -> PutType]
  BY DEF TypeInv, GoOn, PutType

(* Names that are added, taken away, or the same after a sync. *)
LEMMA NamesWith ==
    ASSUME NEW f, f \in [DOMAIN f -> Inodes], NEW n, NEW i \in Inodes
    PROVE  With(f, n, i) \in [DOMAIN With(f, n, i) -> Inodes]
  BY DEF With

LEMMA NamesWithout ==
    ASSUME NEW f, f \in [DOMAIN f -> Inodes], NEW n
    PROVE  Without(f, n) \in [DOMAIN Without(f, n) -> Inodes]
  BY DEF Without

LEMMA TypeCreate ==
    ASSUME TypeInv, NEW p \in Putters, NEW c \in Contents, CreateTemp(p, c)
    PROVE  TypeInv'
  <1> DEFINE new == [of |-> c, blocks |-> 0, synced |-> 0]
  <1>1. /\ Fresh \notin Inodes /\ Inodes' = Inodes \cup {Fresh}
        /\ Fresh' = Fresh + 1 /\ Inodes' = 0..(Fresh' - 1) /\ Fresh' <= MaxPuts + 1
    BY NextInode
  <1>2. data' = With(data, Fresh, new) /\ dir' = With(dir, Temp(Fresh), Fresh)
    BY DEF CreateTemp, Fresh
  <1>3. data'[Fresh] = new /\ \A i \in Inodes : data'[i] = data[i]
    BY <1>1, <1>2 DEF With, Inodes
  <1>4. InodesInv'
    BY <1>1, <1>3, StoreAssumption DEF InodesInv, TypeInv, Foreign
  <1>5. DataInv'
    <2>1. new \in FileType /\ new.synced <= new.blocks
      BY StoreAssumption DEF Bytes, FileType
    <2>2. \A i \in Inodes' : /\ data'[i] \in FileType
                             /\ data'[i].synced <= data'[i].blocks
      BY <1>1, <1>3, <2>1 DEF TypeInv, DataInv
    <2>3. data' = [i \in Inodes' |-> data'[i]]
      BY <1>2 DEF With, Inodes
    <2> QED
      BY <2>2, <2>3 DEF DataInv
  <1>6. NamesInv'
    <2>1. dir \in [DOMAIN dir -> Inodes'] /\ durable \in [DOMAIN durable -> Inodes']
      BY <1>1 DEF TypeInv, NamesInv
    <2>2. durable' = durable
      BY DEF CreateTemp
    <2> QED
      BY <1>1, <1>2, <2>1, <2>2 DEF NamesInv, With
  <1>7. put' \in [Putters -> PutType']
    <2>1. PutType \subseteq PutType'
      BY <1>1 DEF PutType
    <2>2. [at |-> "writing", content |-> c, inode |-> Fresh, ends |-> "published"] \in PutType'
      BY <1>1 DEF PutType, Controls, Endings, Bytes
    <2> QED
      BY <2>1, <2>2 DEF TypeInv, CreateTemp, Fresh
  <1>8. read' \in [Readers -> ReadType'] /\ calls' \subseteq CallType'
    BY <1>1 DEF TypeInv, CreateTemp, ReadType, CallType
  <1> QED
    BY <1>4, <1>5, <1>6, <1>7, <1>8 DEF TypeInv

LEMMA TypeWrite ==
    ASSUME TypeInv, NEW p \in Putters, WriteSome(p)
    PROVE  TypeInv'
  <1> DEFINE i == put[p].inode
  <1>1. i \in Inodes
    BY DEF TypeInv, PutType
  <1>2. PICK k \in 1..(Blocks - data[i].blocks) :
          /\ data' = [data EXCEPT ![i].blocks = @ + k]
          /\ GoOn(p, IF data[i].blocks + k = Blocks THEN "syncing" ELSE "writing")
    BY DEF WriteSome
  <1>3. data[i].blocks + k \in 0..Blocks /\ data[i].synced <= data[i].blocks + k
    BY <1>1, FileFact
  <1>4. Inodes' = Inodes /\ DataInv' /\ data'[Foreign].of = None
    <2> DEFINE new == [data EXCEPT ![i].blocks = @ + k]
    <2>1. \A j \in Inodes : new[j] \in FileType /\ new[j].synced <= new[j].blocks
      BY <1>1, <1>3, FileFact DEF FileType, TypeInv, DataInv
    <2>2. new[Foreign].of = None /\ data' = [j \in Inodes |-> new[j]]
      BY <1>1, <1>2, ForeignFact, FileFact DEF FileType, Inodes, TypeInv, DataInv
    <2> HIDE DEF new
    <2> QED
      BY <2>1, <2>2, TypeData
  <1>5. put' \in [Putters -> PutType]
    BY <1>2, TypeGoOn DEF Controls
  <1> QED
    BY <1>4, <1>5, TypeKept DEF TypeInv, NamesInv, WriteSome

LEMMA TypeSync ==
    ASSUME TypeInv, NEW p \in Putters, FsyncFile(p)
    PROVE  TypeInv'
  <1>1. put[p].inode \in Inodes
    BY DEF TypeInv, PutType
  <1>2. Inodes' = Inodes /\ DataInv' /\ data'[Foreign].of = None
    <2> DEFINE new == [data EXCEPT ![put[p].inode].synced = data[put[p].inode].blocks]
    <2>1. \A j \in Inodes : new[j] \in FileType /\ new[j].synced <= new[j].blocks
      BY <1>1, FileFact DEF FileType, TypeInv, DataInv
    <2>2. new[Foreign].of = None /\ data' = [j \in Inodes |-> new[j]]
      BY <1>1, ForeignFact, FileFact DEF FsyncFile, FileType, Inodes, TypeInv, DataInv
    <2> HIDE DEF new
    <2> QED
      BY <2>1, <2>2, TypeData
  <1>3. put' \in [Putters -> PutType]
    BY TypeGoOn DEF Controls, FsyncFile
  <1> QED
    BY <1>2, <1>3, TypeKept DEF TypeInv, NamesInv, FsyncFile

(* The steps of put that write nothing into a file. *)
LEMMA TypePut ==
    ASSUME TypeInv, NEW p \in Putters,
           \/ WriteFails(p) \/ Publish(p) \/ PublishFails(p) \/ Exists(p) \/ DropTemp(p)
           \/ UnlinkTemp(p) \/ UnlinkFails(p) \/ FsyncDir(p) \/ FsyncDirFails(p)
    PROVE  TypeInv'
  <1>1. data' = data /\ Inodes' = Inodes /\ DataInv' /\ data'[Foreign].of = None
    BY DEF WriteFails, Publish, PublishFails, Exists, DropTemp, UnlinkTemp, UnlinkFails,
           FsyncDir, FsyncDirFails, Inodes, TypeInv, DataInv, InodesInv
  <1>2. read' \in [Readers -> ReadType]
    BY DEF WriteFails, Publish, PublishFails, Exists, DropTemp, UnlinkTemp, UnlinkFails,
           FsyncDir, FsyncDirFails, TypeInv
  <1>3. NamesInv'
    <2>1. put[p].inode \in Inodes
      BY DEF TypeInv, PutType
    <2>2. CASE Publish(p)
      BY <1>1, <2>1, <2>2, NamesWith DEF Publish, TypeInv, NamesInv
    <2>3. CASE DropTemp(p)
      BY <1>1, <2>3, NamesWithout DEF DropTemp, TypeInv, NamesInv
    <2>4. CASE UnlinkTemp(p)
      BY <1>1, <2>4, NamesWithout DEF UnlinkTemp, TypeInv, NamesInv
    <2>5. CASE FsyncDir(p)
      BY <1>1, <2>5 DEF FsyncDir, TypeInv, NamesInv
    <2>6. CASE \/ WriteFails(p) \/ PublishFails(p) \/ Exists(p)
               \/ UnlinkFails(p) \/ FsyncDirFails(p)
      BY <1>1, <2>6
      DEF WriteFails, PublishFails, Exists, UnlinkFails, FsyncDirFails, TypeInv, NamesInv
    <2> QED
      BY <2>2, <2>3, <2>4, <2>5, <2>6
  <1>4. put' \in [Putters -> PutType] /\ calls' \subseteq CallType
    <2>1. CASE Publish(p) \/ UnlinkTemp(p)
      BY <2>1, TypeGoOn DEF Publish, UnlinkTemp, Controls, TypeInv
    <2>2. CASE \E how \in Ended : Ends(p, how)
      BY <2>2, TypeEnds
    <2>3. CASE Exists(p)
      <3>1. CASE GoOn(p, "dropping") \/ GoOn(p, "dirsync")
        <4>1. calls' = calls \/ Ends(p, "CorruptObject")
          BY <2>3 DEF Exists
        <4>2. put' \in [Putters -> PutType]
          BY <3>1, TypeGoOn DEF Controls
        <4>3. calls' \subseteq CallType
          BY <4>1, TypeEnds DEF TypeInv, Ended, Failed
        <4> QED
          BY <4>2, <4>3
      <3>2. CASE CleanUp(p)
        <4>1. calls' = calls \/ Ends(p, "CorruptObject")
          BY <2>3 DEF Exists
        <4>2. put' \in [Putters -> PutType]
          <5>1. put[p] \in PutType
            BY DEF TypeInv
          <5>2. [put[p] EXCEPT !.at = "discarding", !.ends = "cleaned"] \in PutType
            BY <5>1 DEF PutType, Controls, Endings
          <5> QED
            BY <3>2, <5>2 DEF CleanUp, TypeInv
        <4>3. calls' \subseteq CallType
          BY <4>1, TypeEnds DEF TypeInv, Ended, Failed
        <4> QED
          BY <4>2, <4>3
      <3>3. CASE Ends(p, "CorruptObject")
        BY <3>3, TypeEnds DEF Ended, Failed
      <3> QED
        BY <2>3, <3>1, <3>2, <3>3 DEF Exists
    <2> QED
      BY <2>1, <2>2, <2>3 DEF WriteFails, PublishFails, DropTemp, UnlinkFails, FsyncDir,
         FsyncDirFails, Ended, Endings, Failed
  <1> QED
    BY <1>1, <1>2, <1>3, <1>4, TypeKept

(* The steps of a publication that are not steps of put. *)
LEMMA TypePublication ==
    ASSUME TypeInv, NEW p \in Putters, Publication(p)
    PROVE  TypeInv'
  <1>1. data' = data /\ Inodes' = Inodes /\ DataInv' /\ data'[Foreign].of = None
    BY DEF Publication, SyncPublished, SyncIgnored, CheckPublished, Record, PublicationFails,
           Discard, LastSync, LastSyncIgnored, Leaves, CleaningFails, Inodes, TypeInv, DataInv,
           InodesInv
  <1>2. read' \in [Readers -> ReadType]
    BY DEF Publication, SyncPublished, SyncIgnored, CheckPublished, Record, PublicationFails,
           Discard, LastSync, LastSyncIgnored, Leaves, CleaningFails, TypeInv
  <1>3. NamesInv'
    <2>1. CASE Discard(p)
      BY <1>1, <2>1, NamesWithout DEF Discard, TypeInv, NamesInv
    <2>2. CASE ~Discard(p)
      BY <1>1, <2>2 DEF Publication, SyncPublished, SyncIgnored, CheckPublished, Record,
         PublicationFails, LastSync, LastSyncIgnored, Leaves, CleaningFails, TypeInv, NamesInv
    <2> QED
      BY <2>1, <2>2
  <1>4. put' \in [Putters -> PutType]
    <2>1. CASE LastSync(p) \/ LastSyncIgnored(p)
      <3>1. Idle \in PutType
        BY DEF TypeInv, InodesInv, Idle, PutType, Controls, Endings, Bytes, Foreign
      <3> QED
        BY <2>1, <3>1 DEF LastSync, LastSyncIgnored, Leaves, Ends, TypeInv
    <2>2. CASE CleaningFails(p)
      <3>1. Idle \in PutType
        BY DEF TypeInv, InodesInv, Idle, PutType, Controls, Endings, Bytes, Foreign
      <3> QED
        BY <2>2, <3>1 DEF CleaningFails, TypeInv, PutType, Controls, Endings
    <2>3. CASE SyncIgnored(p) \/ CheckPublished(p) \/ PublicationFails(p)
      BY <2>3 DEF SyncIgnored, CheckPublished, PublicationFails, CleanUp, GoOn, TypeInv,
                  PutType, Controls, Endings
    <2>4. CASE SyncPublished(p) \/ Record(p) \/ Discard(p)
      BY <2>4, TypeGoOn DEF SyncPublished, Record, Discard, Controls
    <2> QED
      BY <2>1, <2>2, <2>3, <2>4 DEF Publication
  <1>5. calls' \subseteq CallType
    <2>1. CASE LastSync(p) \/ LastSyncIgnored(p)
      BY <2>1, TypeEnds DEF LastSync, LastSyncIgnored, Leaves, Ended, Endings, TypeInv
    <2>2. CASE Record(p)
      <3>1. [address |-> put[p].content, inode |-> put[p].inode, ended |-> put[p].ends] \in CallType
        BY DEF TypeInv, PutType, CallType, Ended
      <3> QED
        BY <2>2, <3>1 DEF Record, TypeInv
    <2> QED
      BY <2>1, <2>2 DEF Publication, SyncPublished, SyncIgnored, CheckPublished, PublicationFails,
         Discard, CleaningFails, TypeInv
  <1> QED
    BY <1>1, <1>2, <1>3, <1>4, <1>5, TypeKept

LEMMA TypeRead ==
    ASSUME TypeInv, NEW r \in Readers, Read(r)
    PROVE  TypeInv'
  <1>1. /\ data' = data /\ Inodes' = Inodes /\ DataInv' /\ NamesInv' /\ data'[Foreign].of = None
        /\ put' \in [Putters -> PutType] /\ calls' \subseteq CallType
    BY DEF Read, Open, VerifyOpened, ReadVerified, CloseRead, Inodes, TypeInv, DataInv,
           NamesInv, InodesInv
  <1>2. NotReading \in ReadType
    BY DEF TypeInv, InodesInv, NotReading, ReadType, Bytes, Foreign
  <1>3. \A i \in Inodes : Digest(i) \in Bytes
    BY FileFact DEF Digest, Bytes
  <1>4. read' \in [Readers -> ReadType]
    <2>1. CASE \E c \in Contents : Open(r, c)
      BY <2>1 DEF Open, TypeInv, NamesInv, ReadType, Bytes
    <2>2. CASE VerifyOpened(r)
      BY <1>2, <2>2 DEF VerifyOpened, TypeInv, ReadType
    <2>3. CASE ReadVerified(r)
      BY <1>3, <2>3 DEF ReadVerified, TypeInv, ReadType
    <2>4. CASE CloseRead(r)
      BY <1>2, <2>4 DEF CloseRead, TypeInv
    <2> QED
      BY <2>1, <2>2, <2>3, <2>4 DEF Read
  <1> QED
    BY <1>1, <1>4, TypeKept

LEMMA TypeMachine ==
    ASSUME TypeInv, (\E p \in Putters : Kill(p)) \/ (\E c \in Contents : Rot(c) \/ Swap(c))
    PROVE  TypeInv'
  <1>1. Foreign \in Inodes
    BY DEF TypeInv, InodesInv, Foreign
  <1>2. CASE \E p \in Putters : Kill(p)
    <2>1. Idle \in PutType
      BY <1>1 DEF Idle, PutType, Controls, Endings, Bytes
    <2>2. put' \in [Putters -> PutType]
      BY <1>2, <2>1 DEF Kill, TypeInv
    <2> QED
      BY <1>2, <2>2, TypeKept DEF Kill, TypeInv, Inodes, DataInv, NamesInv, InodesInv
  <1>3. CASE \E c \in Contents : Rot(c)
    <2>1. PICK c \in Contents : Rot(c)
      BY <1>3
    <2>2. dir[c] \in Inodes /\ Inodes' = Inodes
      BY <2>1 DEF Rot, TypeInv, NamesInv, Inodes
    <2> DEFINE new == [data EXCEPT ![dir[c]].of = None]
    <2>3. \A j \in Inodes : new[j] \in FileType /\ new[j].synced <= new[j].blocks
      BY <2>2, FileFact DEF FileType, Bytes, TypeInv, DataInv
    <2>4. new[Foreign].of = None /\ data' = [j \in Inodes |-> new[j]]
      BY <2>1, <2>2, ForeignFact, FileFact DEF Rot, FileType, Inodes, TypeInv, DataInv
    <2>5. Inodes' = Inodes /\ DataInv' /\ data'[Foreign].of = None
      <3> HIDE DEF new
      <3> QED
        BY <2>3, <2>4, TypeData
    <2> QED
      BY <2>1, <2>5, TypeKept DEF Rot, TypeInv, NamesInv
  <1>4. CASE \E c \in Contents : Swap(c)
    <2>1. PICK c \in Contents : Swap(c)
      BY <1>4
    <2>2. NamesInv'
      BY <1>1, <2>1 DEF Swap, TypeInv, NamesInv, Inodes
    <2> QED
      BY <2>1, <2>2, TypeKept DEF Swap, TypeInv, Inodes, DataInv, InodesInv
  <1> QED
    BY <1>2, <1>3, <1>4

(* Entries of either directory are entries, and what is left of a file is  *)
(* between what was synced and what was there.                             *)
LEMMA TypePower ==
    ASSUME TypeInv, PowerLoss
    PROVE  TypeInv'
  <1>1. Foreign \in Inodes
    BY DEF TypeInv, InodesInv, Foreign
  <1>2. PICK left \in [Inodes -> 0..Blocks] :
          /\ \A i \in Inodes : left[i] \in data[i].synced..data[i].blocks
          /\ data' = [i \in Inodes |-> [data[i] EXCEPT !.blocks = left[i], !.synced = left[i]]]
    BY DEF PowerLoss
  <1>3. Inodes' = Inodes /\ DataInv' /\ data'[Foreign].of = None
    <2> DEFINE new == [i \in Inodes |-> [data[i] EXCEPT !.blocks = left[i], !.synced = left[i]]]
    <2>1. \A i \in Inodes : /\ left[i] \in 0..Blocks
                           /\ new[i] \in FileType /\ new[i].synced <= new[i].blocks
      <3> SUFFICES ASSUME NEW i \in Inodes
                   PROVE  /\ left[i] \in 0..Blocks
                          /\ new[i] \in FileType /\ new[i].synced <= new[i].blocks
        OBVIOUS
      <3>1. data[i] \in FileType /\ left[i] \in 0..Blocks
        BY FileFact
      <3>2. new[i] = [of |-> data[i].of, blocks |-> left[i], synced |-> left[i]]
        BY <3>1 DEF FileType
      <3> QED
        BY <3>1, <3>2 DEF FileType
    <2>2. new[Foreign].of = None /\ data' = [i \in Inodes |-> new[i]]
      BY <1>1, <1>2, ForeignFact, FileFact DEF FileType
    <2> HIDE DEF new
    <2> QED
      BY <2>1, <2>2, TypeData
  <1>5. NamesInv'
    BY <1>3 DEF PowerLoss, TypeInv, NamesInv
  <1>6. put' \in [Putters -> PutType]
    BY <1>1 DEF PowerLoss, Idle, PutType, Controls, Endings, Bytes
  <1>7. read' \in [Readers -> ReadType]
    BY <1>1 DEF PowerLoss, NotReading, ReadType, Bytes
  <1>8. calls' \subseteq CallType
    BY DEF PowerLoss, TypeInv
  <1> QED
    BY <1>3, <1>5, <1>6, <1>7, <1>8, TypeKept

LEMMA TypeStep == TypeInv /\ [Next]_vars => TypeInv'
  <1> SUFFICES ASSUME TypeInv, [Next]_vars PROVE TypeInv'
    OBVIOUS
  <1>1. CASE UNCHANGED vars
    BY <1>1 DEF vars, TypeInv, InodesInv, DataInv, NamesInv, Inodes, Fresh, PutType,
                ReadType, CallType
  <1>2. CASE \E p \in Putters : Put(p)
    BY <1>2, TypeCreate, TypeWrite, TypeSync, TypePut, TypePublication DEF Put
  <1>3. CASE \E r \in Readers : Read(r)
    BY <1>3, TypeRead
  <1>4. CASE (\E p \in Putters : Kill(p)) \/ (\E c \in Contents : Rot(c) \/ Swap(c))
    BY <1>4, TypeMachine
  <1>5. CASE PowerLoss
    BY <1>5, TypePower
  <1> QED
    BY <1>1, <1>2, <1>3, <1>4, <1>5 DEF Next

-----------------------------------------------------------------------------
(* What makes the properties inductive.                                    *)

\* Under the address c there may lie: the whole of c, on the disk, or bytes
\* that are not the program's any more.
Solid(file, c) ==
    file.of # None => file.of = c /\ file.blocks = Blocks /\ file.synced = Blocks

WholeInv ==
    \A c \in Contents : /\ c \in DOMAIN dir => Solid(data[dir[c]], c)
                        /\ c \in DOMAIN durable => Solid(data[durable[c]], c)

\* What is on the disk is what is seen, but for what others have done.
AgreeInv ==
    \A c \in Contents \cap DOMAIN durable :
        /\ c \in DOMAIN dir
        /\ dir[c] = durable[c] \/ Foreign \in {dir[c], durable[c]}

\* What a put has behind it at each of its steps.
PutFine(q) ==
    /\ q.at # "idle" => q.content \in Contents /\ data[q.inode].of \in {q.content, None}
    /\ q.at \in {"syncing", "linking"} => data[q.inode].blocks = Blocks
    /\ q.at = "linking" => data[q.inode].synced = Blocks
    /\ q.at \in {"unlinking", "dirsync", "checking", "journalling"} => q.content \in DOMAIN dir
    /\ q.at \in {"checking", "journalling"} /\ q.ends = "published"
          => q.content \in DOMAIN durable
    /\ q.ends = "cleaned" => q.at \in {"discarding", "lastsync"}

PutInv == \A p \in Putters : PutFine(put[p])

CallInv ==
    \A call \in calls :
        call.ended = "published" => call.address \in Contents \cap DOMAIN durable

\* What a reader that has verified holds is what it asked for.
ReadFine(q) ==
    /\ q.at # "idle" => q.address \in Contents
    /\ q.at \in {"verified", "read"} /\ Ours(q.inode)
          => data[q.inode].of = q.address /\ data[q.inode].blocks = Blocks
    /\ q.at = "read" /\ Ours(q.inode) => q.got = q.address

ReadInv == \A r \in Readers : ReadFine(read[r])

StoreInv == TypeInv /\ WholeInv /\ AgreeInv /\ PutInv /\ CallInv /\ ReadInv

LEMMA StoreInit == Init => StoreInv
  <1> SUFFICES ASSUME Init PROVE StoreInv
    OBVIOUS
  <1>1. TypeInv
    BY TypeInit
  <1>2. WholeInv /\ AgreeInv /\ CallInv
    BY DEF Init, WholeInv, AgreeInv, CallInv
  <1>3. PutInv /\ ReadInv
    BY DEF Init, Idle, NotReading, PutInv, ReadInv, PutFine, ReadFine
  <1> QED
    BY <1>1, <1>2, <1>3 DEF StoreInv

(* No temporary name is the name of an object.                             *)
LEMMA TempFact ==
    ASSUME TypeInv, NEW i \in Inodes
    PROVE  Temp(i) \notin Contents
  <1>1. i \in 0..MaxPuts
    BY StoreAssumption DEF TypeInv, InodesInv
  <1> QED
    BY <1>1, NamesAssumption

(* What no step but a loss of power does: a file only grows, or stops      *)
(* being ours; an object keeps its name, and its file unless others swap   *)
(* it; the disk keeps up with what is seen or stays as it is.              *)
FilesSteady ==
    \A i \in Inodes : /\ i \in Inodes'
                      /\ data'[i].of \in {data[i].of, None}
                      /\ data[i].blocks = Blocks => data'[i].blocks = Blocks
                      /\ data[i].synced = Blocks => data'[i].synced = Blocks

NamesSteady ==
    \A c \in Contents \cap DOMAIN dir : c \in DOMAIN dir' /\ dir'[c] \in {dir[c], Foreign}

NamesNew ==
    \A c \in Contents \cap DOMAIN dir' :
        \/ c \in DOMAIN dir
        \/ \E p \in Putters : /\ At(p, "linking") /\ put[p].content = c
                              /\ dir'[c] = put[p].inode

Steady == FilesSteady /\ NamesSteady /\ NamesNew /\ durable' \in {durable, dir}

LEMMA SteadyUnchanged ==
    ASSUME data' = data
    PROVE  FilesSteady
  BY DEF FilesSteady, Inodes

LEMMA SteadyFiles ==
    ASSUME TypeInv, NEW p \in Putters, Put(p)
    PROVE  FilesSteady
  <1>1. put[p].inode \in Inodes
    BY DEF TypeInv, PutType
  <1>2. CASE \E c \in Contents : CreateTemp(p, c)
    <2>1. PICK c \in Contents : CreateTemp(p, c)
      BY <1>2
    <2>2. Fresh \notin Inodes /\ Inodes' = Inodes \cup {Fresh}
      BY <2>1, NextInode
    <2>3. \A i \in Inodes : data'[i] = data[i]
      BY <2>1, <2>2 DEF CreateTemp, With, Inodes, Fresh
    <2> QED
      BY <2>2, <2>3 DEF FilesSteady
  <1>3. CASE WriteSome(p)
    <2> DEFINE i == put[p].inode
    <2>1. PICK k \in 1..(Blocks - data[i].blocks) : data' = [data EXCEPT ![i].blocks = @ + k]
      BY <1>3 DEF WriteSome
    <2>2. data[i].blocks # Blocks
      BY <1>1, <2>1, FileFact
    <2> QED
      BY <1>1, <2>1, <2>2, FileFact DEF FilesSteady, FileType, Inodes
  <1>4. CASE FsyncFile(p)
    BY <1>1, <1>4, FileFact DEF FsyncFile, FilesSteady, FileType, Inodes
  <1>5. CASE data' = data
    BY <1>5, SteadyUnchanged
  <1> QED
    BY <1>2, <1>3, <1>4, <1>5
    DEF Put, Publication, WriteFails, Publish, PublishFails, Exists, DropTemp, UnlinkTemp,
        UnlinkFails, FsyncDir, FsyncDirFails, SyncPublished, SyncIgnored, CheckPublished,
        Record, PublicationFails, Discard, LastSync, LastSyncIgnored, Leaves, CleaningFails

LEMMA SteadyPut ==
    ASSUME TypeInv, NEW p \in Putters, Put(p)
    PROVE  Steady
  <1>1. FilesSteady
    BY SteadyFiles
  <1>2. put[p].inode \in Inodes /\ Temp(put[p].inode) \notin Contents
    BY TempFact DEF TypeInv, PutType
  <1>3. CASE \E c \in Contents : CreateTemp(p, c)
    <2>1. PICK c \in Contents : CreateTemp(p, c)
      BY <1>3
    <2>2. dir' = With(dir, Temp(Fresh), Fresh) /\ durable' = durable
      BY <2>1 DEF CreateTemp, Fresh
    <2>3. Temp(Fresh) \notin Contents
      BY <2>1, NamesAssumption DEF CreateTemp, Fresh, TypeInv, InodesInv
    <2> QED
      BY <1>1, <2>2, <2>3 DEF Steady, NamesSteady, NamesNew, With
  <1>4. CASE Publish(p)
    BY <1>1, <1>4 DEF Publish, Steady, NamesSteady, NamesNew, With
  <1>5. CASE dir' = Without(dir, Temp(put[p].inode)) /\ durable' = durable
    BY <1>1, <1>2, <1>5 DEF Steady, NamesSteady, NamesNew, Without
  <1>6. CASE dir' = dir /\ durable' \in {durable, dir}
    BY <1>1, <1>6 DEF Steady, NamesSteady, NamesNew
  <1> QED
    BY <1>3, <1>4, <1>5, <1>6
    DEF Put, Publication, WriteSome, FsyncFile, WriteFails, PublishFails, Exists, DropTemp,
        UnlinkTemp, UnlinkFails, FsyncDir, FsyncDirFails, SyncPublished, SyncIgnored,
        CheckPublished, Record, PublicationFails, Discard, LastSync, LastSyncIgnored, Leaves,
        CleaningFails

LEMMA SteadyOther ==
    ASSUME TypeInv,
           \/ \E r \in Readers : Read(r)
           \/ \E p \in Putters : Kill(p)
           \/ \E c \in Contents : Rot(c) \/ Swap(c)
    PROVE  Steady
  <1>1. CASE (\E r \in Readers : Read(r)) \/ (\E p \in Putters : Kill(p))
    <2>1. UNCHANGED <<dir, durable, data>>
      BY <1>1 DEF Read, Open, VerifyOpened, ReadVerified, CloseRead, Kill
    <2> QED
      BY <2>1, SteadyUnchanged DEF Steady, NamesSteady, NamesNew
  <1>2. CASE \E c \in Contents : Rot(c)
    <2>1. PICK c \in Contents : Rot(c)
      BY <1>2
    <2>2. dir[c] \in Inodes
      BY <2>1 DEF Rot, TypeInv, NamesInv
    <2>3. FilesSteady
      BY <2>1, <2>2, FileFact DEF Rot, FilesSteady, FileType, Inodes
    <2> QED
      BY <2>1, <2>3 DEF Rot, Steady, NamesSteady, NamesNew
  <1>3. CASE \E c \in Contents : Swap(c)
    <2>1. PICK c \in Contents : Swap(c)
      BY <1>3
    <2> QED
      BY <2>1, SteadyUnchanged DEF Swap, Steady, NamesSteady, NamesNew
  <1> QED
    BY <1>1, <1>2, <1>3

(* What follows from that alone.                                           *)
LEMMA WholeKept ==
    ASSUME StoreInv, TypeInv', Steady
    PROVE  WholeInv'
  <1>1. \A i \in Inodes, c \in Contents : Solid(data[i], c) => Solid(data'[i], c)
    BY DEF Steady, FilesSteady, Solid
  <1>2. \A c \in Contents : Solid(data'[Foreign], c)
    BY DEF Solid, TypeInv, InodesInv
  <1>3. ASSUME NEW c \in Contents, c \in DOMAIN dir'
        PROVE  Solid(data'[dir'[c]], c)
    <2>1. CASE c \in DOMAIN dir
      <3>1. Solid(data[dir[c]], c) /\ dir[c] \in Inodes /\ dir'[c] \in {dir[c], Foreign}
        BY <1>3, <2>1 DEF StoreInv, WholeInv, TypeInv, NamesInv, Steady, NamesSteady
      <3> QED
        BY <3>1, <1>1, <1>2
    <2>2. CASE c \notin DOMAIN dir
      <3>1. PICK p \in Putters : /\ At(p, "linking") /\ put[p].content = c
                                /\ dir'[c] = put[p].inode
        BY <1>3, <2>2 DEF Steady, NamesNew
      <3>2. put[p].inode \in Inodes /\ PutFine(put[p])
        BY DEF StoreInv, PutInv, TypeInv, PutType
      <3>3. Solid(data[dir'[c]], c)
        BY <3>1, <3>2 DEF PutFine, At, Solid
      <3> QED
        BY <3>1, <3>2, <3>3, <1>1
    <2> QED
      BY <2>1, <2>2
  <1>4. ASSUME NEW c \in Contents, c \in DOMAIN durable'
        PROVE  Solid(data'[durable'[c]], c)
    <2>1. CASE durable' = durable
      BY <1>1, <1>4, <2>1 DEF StoreInv, WholeInv, TypeInv, NamesInv
    <2>2. CASE durable' = dir
      BY <1>1, <1>4, <2>2 DEF StoreInv, WholeInv, TypeInv, NamesInv
    <2> QED
      BY <2>1, <2>2 DEF Steady
  <1> QED
    BY <1>3, <1>4 DEF WholeInv

LEMMA AgreeKept ==
    ASSUME StoreInv, Steady
    PROVE  AgreeInv'
  BY DEF StoreInv, AgreeInv, Steady, NamesSteady

LEMMA DurableKept ==
    ASSUME StoreInv, Steady
    PROVE  Contents \cap DOMAIN durable \subseteq DOMAIN durable'
  BY DEF StoreInv, AgreeInv, Steady

LEMMA PutKept ==
    ASSUME StoreInv, Steady, NEW p \in Putters, put'[p] = put[p]
    PROVE  PutFine(put[p])'
  <1>1. PutFine(put[p]) /\ put[p].inode \in Inodes
    BY DEF StoreInv, PutInv, TypeInv, PutType
  <1>2. put[p].at # "idle" => put[p].content \in Contents
    BY <1>1 DEF PutFine
  <1> QED
    BY <1>1, <1>2, DurableKept DEF PutFine, Steady, FilesSteady, NamesSteady

LEMMA ReadKept ==
    ASSUME StoreInv, Steady, NEW r \in Readers, read'[r] = read[r]
    PROVE  ReadFine(read[r])'
  <1>1. ReadFine(read[r]) /\ read[r].inode \in Inodes
    BY DEF StoreInv, ReadInv, TypeInv, ReadType
  <1> QED
    BY <1>1 DEF ReadFine, Ours, Steady, FilesSteady

LEMMA CallsKept ==
    ASSUME StoreInv, Steady,
           \A call \in calls' \ calls :
              call.ended = "published" => call.address \in Contents \cap DOMAIN durable'
    PROVE  CallInv'
  BY DurableKept DEF StoreInv, CallInv

(* A putter that goes on keeps what it puts. *)
LEMMA GoOnOnly ==
    ASSUME TypeInv, NEW p \in Putters, NEW pc, GoOn(p, pc)
    PROVE  /\ put'[p].at = pc /\ put'[p].ends = put[p].ends
           /\ put'[p].content = put[p].content /\ put'[p].inode = put[p].inode
  BY DEF TypeInv, PutType, GoOn

(* The putter whose step it is.                                            *)
LEMMA PutOwn ==
    ASSUME StoreInv, Steady, NEW p \in Putters, Put(p)
    PROVE  PutFine(put[p])'
  <1> DEFINE q == put[p]
  <1>1. PutFine(q) /\ q \in PutType /\ p \in DOMAIN put /\ put \in [Putters -> PutType]
    BY DEF StoreInv, PutInv, TypeInv
  <1>2. /\ q.at # "idle" => q.content \in Contents /\ data'[q.inode].of \in {q.content, None}
        /\ q.content \in Contents /\ q.content \in DOMAIN dir => q.content \in DOMAIN dir'
        /\ q.content \in Contents /\ q.content \in DOMAIN durable => q.content \in DOMAIN durable'
    BY <1>1, DurableKept DEF PutFine, PutType, Steady, FilesSteady, NamesSteady
  <1>3. CASE put'[p] = Idle
    BY <1>3 DEF Idle, PutFine
  <1>4. CASE \E c \in Contents : CreateTemp(p, c)
    <2>1. PICK c \in Contents : CreateTemp(p, c)
      BY <1>4
    <2>2. data'[Fresh].of = c
      BY <2>1 DEF CreateTemp, With, Fresh
    <2>3. put'[p] = [at |-> "writing", content |-> c, inode |-> Fresh, ends |-> "published"]
      BY <1>1, <2>1 DEF CreateTemp, Fresh
    <2> QED
      BY <2>2, <2>3 DEF PutFine
  <1>5. CASE WriteSome(p)
    <2>1. PICK k \in 1..(Blocks - data[q.inode].blocks) :
            /\ data' = [data EXCEPT ![q.inode].blocks = @ + k]
            /\ GoOn(p, IF data[q.inode].blocks + k = Blocks THEN "syncing" ELSE "writing")
      BY <1>5 DEF WriteSome
    <2>2. data'[q.inode].blocks = data[q.inode].blocks + k
      BY <1>1, <2>1, FileFact DEF StoreInv, PutType, FileType, Inodes
    <2>3. q.at = "writing"
      BY <1>5 DEF WriteSome, At
    <2> QED
      BY <1>1, <1>2, <2>1, <2>2, <2>3 DEF GoOn, PutFine, PutType
  <1>6. CASE FsyncFile(p)
    <2>1. q.at = "syncing" /\ q.inode \in Inodes
      BY <1>1, <1>6 DEF FsyncFile, At, PutType
    <2>2. data'[q.inode].blocks = Blocks /\ data'[q.inode].synced = Blocks
      BY <1>1, <1>6, <2>1, FileFact DEF StoreInv, FsyncFile, PutFine, FileType, Inodes
    <2> QED
      BY <1>1, <1>2, <1>6, <2>1, <2>2 DEF FsyncFile, GoOn, PutFine, PutType
  <1>7. CASE Publish(p)
    BY <1>1, <1>2, <1>7 DEF Publish, With, GoOn, At, PutFine, PutType
  <1>8. CASE Exists(p)
    <2>1. q.at = "linking" /\ q.content \in Contents /\ q.content \in DOMAIN dir
      BY <1>1, <1>8 DEF Exists, At, PutFine
    <2>2. CASE Ends(p, "CorruptObject")
      BY <1>1, <1>3, <2>2 DEF Ends
    <2>3. CASE CleanUp(p)
      BY <1>1, <1>2, <2>1, <2>3 DEF CleanUp, PutFine, PutType
    <2>4. CASE GoOn(p, "dirsync") \/ GoOn(p, "dropping")
      BY <1>1, <1>2, <2>1, <2>4 DEF GoOn, PutFine, PutType
    <2> QED
      BY <1>8, <2>2, <2>3, <2>4 DEF Exists
  <1>9. CASE UnlinkTemp(p) \/ SyncPublished(p) \/ SyncIgnored(p) \/ CheckPublished(p)
    <2>1. q.at \in {"unlinking", "dirsync", "checking"}
      BY <1>9 DEF UnlinkTemp, SyncPublished, SyncIgnored, CheckPublished, At
    <2>2. q.content \in Contents /\ q.content \in DOMAIN dir /\ q.ends # "cleaned" /\ TypeInv
      BY <1>1, <2>1 DEF PutFine, StoreInv
    <2>3. data'[q.inode].of \in {q.content, None} /\ q.content \in DOMAIN dir'
      BY <1>2, <2>1, <2>2
    <2>4. CASE UnlinkTemp(p)
      <3>1. GoOn(p, "dirsync")
        BY <2>4 DEF UnlinkTemp
      <3> QED
        BY <2>2, <2>3, <3>1, GoOnOnly DEF PutFine
    <2>5. CASE SyncPublished(p)
      <3>1. GoOn(p, "checking") /\ durable' = dir
        BY <2>5 DEF SyncPublished
      <3> QED
        BY <2>2, <2>3, <3>1, GoOnOnly DEF PutFine
    <2>6. CASE SyncIgnored(p)
      <3>1. put'[p] = [q EXCEPT !.at = "checking", !.ends = "unsynced"]
        BY <1>1, <2>6 DEF SyncIgnored
      <3>2. /\ put'[p].at = "checking" /\ put'[p].ends = "unsynced"
            /\ put'[p].content = q.content /\ put'[p].inode = q.inode
        BY <1>1, <3>1 DEF PutType
      <3> QED
        BY <2>2, <2>3, <3>2 DEF PutFine
    <2>7. CASE CleanUp(p)
      <3>1. put'[p] = [q EXCEPT !.at = "discarding", !.ends = "cleaned"]
        BY <1>1, <2>7 DEF CleanUp
      <3>2. /\ put'[p].at = "discarding" /\ put'[p].ends = "cleaned"
            /\ put'[p].content = q.content /\ put'[p].inode = q.inode
        BY <1>1, <3>1 DEF PutType
      <3> QED
        BY <2>2, <2>3, <3>2 DEF PutFine
    <2>8. CASE CheckPublished(p) /\ GoOn(p, "journalling")
      <3>1. q.at = "checking" /\ (q.ends = "published" => q.content \in DOMAIN durable')
        BY <1>1, <1>2, <2>2, <2>8 DEF CheckPublished, At, PutFine
      <3> QED
        BY <2>2, <2>3, <2>8, <3>1, GoOnOnly DEF PutFine
    <2> QED
      BY <1>9, <2>4, <2>5, <2>6, <2>7, <2>8 DEF CheckPublished
  <1>10. CASE Record(p) \/ PublicationFails(p) \/ Discard(p)
    BY <1>1, <1>2, <1>10 DEF Record, PublicationFails, Discard, CleanUp, GoOn, At, PutFine, PutType
  <1>11. CASE CleaningFails(p) \/ LastSync(p) \/ LastSyncIgnored(p)
    BY <1>1, <1>2, <1>3, <1>11 DEF CleaningFails, LastSync, LastSyncIgnored, Leaves, Ends, At,
                        PutFine, PutType
  <1>12. CASE \/ WriteFails(p) \/ PublishFails(p) \/ DropTemp(p) \/ UnlinkFails(p)
              \/ FsyncDir(p) \/ FsyncDirFails(p)
    BY <1>1, <1>3, <1>12 DEF WriteFails, PublishFails, DropTemp, UnlinkFails, FsyncDir,
                            FsyncDirFails, Ends
  <1> QED
    BY <1>4, <1>5, <1>6, <1>7, <1>8, <1>9, <1>10, <1>11, <1>12 DEF Put, Publication

(* The readers and the calls, which no step of a putter or a reader harms. *)
LEMMA ReadOwn ==
    ASSUME StoreInv, Steady, NEW r \in Readers, Read(r)
    PROVE  ReadFine(read[r])'
  <1> DEFINE q == read[r]
  <1>1. ReadFine(q) /\ q \in ReadType /\ r \in DOMAIN read /\ read \in [Readers -> ReadType]
    BY DEF StoreInv, ReadInv, TypeInv
  <1>2. data' = data
    BY DEF Read, Open, VerifyOpened, ReadVerified, CloseRead
  <1>3. CASE \E c \in Contents : Open(r, c)
    BY <1>1, <1>2, <1>3 DEF Open, ReadFine
  <1>4. CASE read'[r] = NotReading
    BY <1>4 DEF NotReading, ReadFine
  <1>5. CASE VerifyOpened(r) /\ Digest(q.inode) = q.address
    <2>1. q.address \in Contents /\ None \notin Contents
      BY <1>1, <1>5, StoreAssumption DEF VerifyOpened, ReadFine
    <2>2. data[q.inode].of = q.address /\ data[q.inode].blocks = Blocks
      BY <1>5, <2>1 DEF Digest
    <2>3. read'[r] = [q EXCEPT !.at = "verified"]
      BY <1>1, <1>5 DEF VerifyOpened
    <2> QED
      BY <1>1, <1>2, <2>1, <2>2, <2>3 DEF ReadFine, ReadType
  <1>6. CASE ReadVerified(r)
    <2>1. read'[r] = [q EXCEPT !.at = "read", !.got = Digest(q.inode)]
      BY <1>1, <1>6 DEF ReadVerified
    <2>2. q.at = "verified"
      BY <1>6 DEF ReadVerified
    <2> QED
      BY <1>1, <1>2, <2>1, <2>2 DEF ReadFine, ReadType, Ours, Digest
  <1>7. CASE CloseRead(r)
    BY <1>1, <1>4, <1>7 DEF CloseRead
  <1> QED
    BY <1>1, <1>3, <1>4, <1>5, <1>6, <1>7 DEF Read, VerifyOpened

LEMMA CallsPut ==
    ASSUME StoreInv, Steady, NEW p \in Putters, Put(p)
    PROVE  CallInv'
  <1>1. PutFine(put[p])
    BY DEF StoreInv, PutInv
  <1>2. CASE FsyncDir(p)
    BY <1>1, <1>2, CallsKept DEF FsyncDir, Ends, At, PutFine
  <1>3. CASE Record(p)
    BY <1>1, <1>3, CallsKept DEF Record, At, PutFine
  <1>4. CASE \E how \in Ended \ {"published"} : Ends(p, how)
    BY <1>4, CallsKept DEF Ends
  <1>5. CASE calls' = calls
    BY <1>5, CallsKept
  <1> QED
    BY <1>2, <1>3, <1>4, <1>5
    DEF Put, Publication, CreateTemp, WriteSome, FsyncFile, WriteFails, Publish, PublishFails,
        Exists, DropTemp, UnlinkTemp, UnlinkFails, FsyncDirFails, SyncPublished, SyncIgnored,
        CheckPublished, PublicationFails, Discard, LastSync, LastSyncIgnored, Leaves,
        CleaningFails, Ended, Endings, Failed

LEMMA OthersAlone ==
    ASSUME TypeInv, NEW p \in Putters, Put(p)
    PROVE  \A o \in Putters \ {p} : put'[o] = put[o]
  BY DEF TypeInv, Put, Publication, CreateTemp, WriteSome, FsyncFile, WriteFails, Publish,
         PublishFails, Exists, DropTemp, UnlinkTemp, UnlinkFails, FsyncDir, FsyncDirFails,
         SyncPublished, SyncIgnored, CheckPublished, Record, PublicationFails, Discard,
         LastSync, LastSyncIgnored, Leaves, CleaningFails, Ends, GoOn, CleanUp

LEMMA StorePut ==
    ASSUME StoreInv, TypeInv', NEW p \in Putters, Put(p)
    PROVE  StoreInv'
  <1>1. Steady
    BY SteadyPut DEF StoreInv
  <1>2. WholeInv' /\ AgreeInv' /\ CallInv'
    BY <1>1, WholeKept, AgreeKept, CallsPut
  <1>3. \A o \in Putters \ {p} : put'[o] = put[o]
    BY OthersAlone DEF StoreInv
  <1>4. PutInv'
    <2>1. \A o \in Putters : PutFine(put[o])'
      <3> SUFFICES ASSUME NEW o \in Putters PROVE PutFine(put[o])'
        OBVIOUS
      <3> QED
        BY <1>1, <1>3, PutOwn, PutKept
    <2> QED
      BY <2>1 DEF PutInv
  <1>5. read' = read
    BY DEF Put, Publication, CreateTemp, WriteSome, FsyncFile, WriteFails, Publish, PublishFails,
           Exists, DropTemp, UnlinkTemp, UnlinkFails, FsyncDir, FsyncDirFails, SyncPublished,
           SyncIgnored, CheckPublished, Record, PublicationFails, Discard, LastSync,
           LastSyncIgnored, Leaves, CleaningFails
  <1>6. ReadInv'
    <2>1. \A r \in Readers : ReadFine(read[r])'
      BY <1>1, <1>5, ReadKept
    <2> QED
      BY <2>1 DEF ReadInv
  <1> QED
    BY <1>2, <1>4, <1>6 DEF StoreInv

LEMMA StoreOther ==
    ASSUME StoreInv, TypeInv',
           \/ \E r \in Readers : Read(r)
           \/ \E p \in Putters : Kill(p)
           \/ \E c \in Contents : Rot(c) \/ Swap(c)
    PROVE  StoreInv'
  <1>1. Steady
    BY SteadyOther DEF StoreInv
  <1>2. calls' = calls
    BY DEF Read, Open, VerifyOpened, ReadVerified, CloseRead, Kill, Rot, Swap
  <1>3. WholeInv' /\ AgreeInv' /\ CallInv'
    BY <1>1, <1>2, WholeKept, AgreeKept, CallsKept
  <1>4. ASSUME NEW p \in Putters
        PROVE  PutFine(put[p])'
    <2>1. CASE put'[p] = put[p]
      BY <1>1, <2>1, PutKept
    <2>2. CASE put'[p] = Idle
      BY <2>2 DEF Idle, PutFine
    <2> QED
      BY <2>1, <2>2 DEF Read, Open, VerifyOpened, ReadVerified, CloseRead, Kill, Rot, Swap,
                        StoreInv, TypeInv
  <1>5. ASSUME NEW r \in Readers
        PROVE  ReadFine(read[r])'
    <2>1. CASE read'[r] = read[r]
      BY <1>1, <2>1, ReadKept
    <2>2. CASE Read(r)
      BY <1>1, <2>2, ReadOwn
    <2> QED
      BY <2>1, <2>2 DEF Read, Open, VerifyOpened, ReadVerified, CloseRead, Kill, Rot, Swap,
                        StoreInv, TypeInv
  <1>6. PutInv' /\ ReadInv'
    BY <1>4, <1>5 DEF PutInv, ReadInv
  <1> QED
    BY <1>3, <1>6 DEF StoreInv

(* After a loss of power nobody is at work, and each name is one of those  *)
(* it had on the disk or was seen to have.                                 *)
LEMMA StorePower ==
    ASSUME StoreInv, TypeInv', PowerLoss
    PROVE  StoreInv'
  <1>1. PICK left \in [Inodes -> 0..Blocks] :
          /\ \A i \in Inodes : left[i] \in data[i].synced..data[i].blocks
          /\ data' = [i \in Inodes |-> [data[i] EXCEPT !.blocks = left[i], !.synced = left[i]]]
    BY DEF PowerLoss
  <1>2. ASSUME NEW i \in Inodes, NEW c \in Contents, Solid(data[i], c)
        PROVE  Solid(data'[i], c)
    <2>1. data'[i] = [of |-> data[i].of, blocks |-> left[i], synced |-> left[i]]
      BY <1>1, FileFact DEF StoreInv, FileType
    <2>2. left[i] \in 0..Blocks /\ left[i] \in data[i].synced..data[i].blocks
      BY <1>1
    <2>3. data[i].synced = Blocks => left[i] = Blocks
      BY <2>2, FileFact DEF StoreInv
    <2> QED
      BY <1>2, <2>1, <2>3, FileFact DEF Solid, StoreInv
  <1>3. /\ durable' = dir'
        /\ DOMAIN dir' \subseteq DOMAIN dir \cup DOMAIN durable
        /\ \A n \in DOMAIN dir' : \/ n \in DOMAIN dir /\ dir'[n] = dir[n]
                                  \/ n \in DOMAIN durable /\ dir'[n] = durable[n]
        /\ DOMAIN dir \cap DOMAIN durable \subseteq DOMAIN dir'
    <2> DEFINE stays(kept) == {n \in DOMAIN dir : n \in kept}
               back(kept) == {n \in DOMAIN durable : n \notin kept}
    <2>1. PICK kept \in SUBSET (DOMAIN dir \cup DOMAIN durable) :
            dir' = [n \in stays(kept) \cup back(kept) |->
                      IF n \in stays(kept) THEN dir[n] ELSE durable[n]]
      BY DEF PowerLoss
    <2>2. durable' = dir'
      BY DEF PowerLoss
    <2>3. DOMAIN dir' = stays(kept) \cup back(kept)
      BY <2>1
    <2>4. \A n \in DOMAIN dir' : dir'[n] = IF n \in stays(kept) THEN dir[n] ELSE durable[n]
      BY <2>1
    <2>5. \A n \in DOMAIN dir' : \/ n \in DOMAIN dir /\ dir'[n] = dir[n]
                                 \/ n \in DOMAIN durable /\ dir'[n] = durable[n]
      BY <2>3, <2>4
    <2>6. DOMAIN dir \cap DOMAIN durable \subseteq DOMAIN dir'
      BY <2>3
    <2> QED
      BY <2>2, <2>3, <2>5, <2>6
  <1>4. WholeInv'
    <2>1. \A c \in Contents : c \in DOMAIN dir' => Solid(data'[dir'[c]], c)
      BY <1>2, <1>3 DEF StoreInv, WholeInv, TypeInv, NamesInv
    <2> QED
      BY <1>3, <2>1 DEF WholeInv
  <1>5. AgreeInv'
    BY <1>3 DEF AgreeInv
  <1>6. PutInv'
    BY DEF PowerLoss, PutInv, PutFine, Idle
  <1>7. ReadInv'
    BY DEF PowerLoss, ReadInv, ReadFine, NotReading
  <1>8. CallInv'
    BY <1>3 DEF PowerLoss, StoreInv, CallInv, AgreeInv
  <1> QED
    BY <1>4, <1>5, <1>6, <1>7, <1>8 DEF StoreInv

LEMMA StoreStep == StoreInv /\ [Next]_vars => StoreInv'
  <1> SUFFICES ASSUME StoreInv, [Next]_vars PROVE StoreInv'
    OBVIOUS
  <1>1. TypeInv'
    BY TypeStep DEF StoreInv
  <1>2. CASE UNCHANGED vars
    <2>1. WholeInv' /\ AgreeInv' /\ CallInv'
      BY <1>2 DEF vars, StoreInv, WholeInv, AgreeInv, CallInv
    <2>2. PutInv' /\ ReadInv'
      BY <1>2 DEF vars, StoreInv, PutInv, ReadInv, PutFine, ReadFine, Ours
    <2> QED
      BY <1>1, <2>1, <2>2 DEF StoreInv
  <1>3. CASE \E p \in Putters : Put(p)
    BY <1>1, <1>3, StorePut
  <1>4. CASE \/ \E r \in Readers : Read(r)
             \/ \E p \in Putters : Kill(p)
             \/ \E c \in Contents : Rot(c) \/ Swap(c)
    BY <1>1, <1>4, StoreOther
  <1>5. CASE PowerLoss
    BY <1>1, <1>5, StorePower
  <1> QED
    BY <1>2, <1>3, <1>4, <1>5 DEF Next

LEMMA StoreAlways == Spec => []StoreInv
  BY StoreInit, StoreStep, PTL DEF Spec

-----------------------------------------------------------------------------
(* What a put that failed leaves behind.  Temporary files belong to one    *)
(* put each: nobody takes away the trace of another.                       *)

Active(p) == put[p].at # "idle"

OwnInv ==
    \A p \in Putters :
        Active(p) =>
          /\ \A o \in Putters \ {p} : Active(o) => put[o].inode # put[p].inode
          /\ \A call \in calls : call.ended \in Failed => call.inode # put[p].inode

TraceFine(p) ==
    /\ put[p].at \in {"writing", "syncing", "linking", "dropping", "unlinking"}
          => Temp(put[p].inode) \in DOMAIN dir
    /\ At(p, "unlinking") \/ (At(p, "dirsync") /\ ~Cleans(p))
          => put[p].content \in DOMAIN dir /\ dir[put[p].content] \in {put[p].inode, Foreign}
    /\ At(p, "lastsync") /\ put[p].ends = "cleaned" => Temp(put[p].inode) \notin DOMAIN dir

CallTraced(call) ==
    /\ call.ended \in Failed =>
          /\ call.address \in Contents
          /\ \/ Temp(call.inode) \in DOMAIN dir
             \/ call.address \in DOMAIN dir /\ dir[call.address] \in {call.inode, Foreign}
    /\ call.ended = "cleaned" => Temp(call.inode) \notin DOMAIN dir \cup DOMAIN durable
    /\ call.ended = "unswept" => Temp(call.inode) \notin DOMAIN dir

TraceInv ==
    /\ OwnInv
    /\ \A p \in Putters : TraceFine(p)
    /\ \A call \in calls : CallTraced(call)

LEMMA TraceInit == Init => TraceInv
  BY DEF Init, TraceInv, OwnInv, Active, TraceFine, At, Idle

(* A step of a put makes no temporary name but a new one, and takes away   *)
(* none but its own.                                                       *)
TempsSteady(p) ==
    \A i \in Inodes : /\ Temp(i) \in DOMAIN dir' => Temp(i) \in DOMAIN dir
                      /\ Temp(i) \in DOMAIN dir /\ (Active(p) => i # put[p].inode)
                           => Temp(i) \in DOMAIN dir'

LEMMA TempsPut ==
    ASSUME StoreInv, NEW p \in Putters, Put(p)
    PROVE  TempsSteady(p)
  <1>1. TypeInv /\ \A i, j \in Inodes : Temp(i) = Temp(j) => i = j
    BY DEF StoreInv, Temp
  <1>2. put[p].inode \in Inodes
    BY <1>1 DEF TypeInv, PutType
  <1>3. CASE \E c \in Contents : CreateTemp(p, c)
    <2>1. PICK c \in Contents : CreateTemp(p, c)
      BY <1>3
    <2>2. dir' = With(dir, Temp(Fresh), Fresh) /\ Fresh \notin Inodes
      BY <1>1, <2>1, NextInode DEF CreateTemp, Fresh
    <2>3. \A i \in Inodes : Temp(i) # Temp(Fresh)
      BY <2>2 DEF Temp
    <2> QED
      BY <2>2, <2>3 DEF With, TempsSteady
  <1>4. CASE Publish(p)
    <2>1. put[p].content \in Contents
      BY <1>4 DEF Publish, At, StoreInv, PutInv, PutFine
    <2>2. \A i \in Inodes : Temp(i) # put[p].content
      BY <1>1, <2>1, TempFact
    <2> QED
      BY <1>4, <2>2 DEF Publish, With, TempsSteady
  <1>5. CASE Active(p) /\ dir' = Without(dir, Temp(put[p].inode))
    BY <1>1, <1>2, <1>5 DEF Without, TempsSteady
  <1>6. CASE dir' = dir
    BY <1>6 DEF TempsSteady
  <1> QED
    BY <1>3, <1>4, <1>5, <1>6
    DEF Put, Publication, WriteSome, FsyncFile, WriteFails, PublishFails, Exists, DropTemp,
        UnlinkTemp, UnlinkFails, FsyncDir, FsyncDirFails, SyncPublished, SyncIgnored,
        CheckPublished, Record, PublicationFails, Discard, LastSync, LastSyncIgnored, Leaves,
        CleaningFails, Active, At

(* Where a putter's inode comes from, and what it says of a call.          *)
LEMMA OwnMoves ==
    ASSUME TypeInv, NEW p \in Putters, Put(p)
    PROVE  \/ put'[p] = Idle
           \/ Active(p) /\ put'[p].inode = put[p].inode
           \/ put'[p].inode = Fresh /\ Fresh \notin Inodes
  <1>1. put \in [Putters -> PutType]
    BY DEF TypeInv
  <1>2. CASE \E c \in Contents : CreateTemp(p, c)
    <2>1. PICK c \in Contents : CreateTemp(p, c)
      BY <1>2
    <2>2. Fresh \notin Inodes
      BY <2>1, NextInode
    <2> QED
      BY <1>1, <2>1, <2>2 DEF CreateTemp, Fresh
  <1>3. CASE WriteSome(p)
    BY <1>1, <1>3 DEF WriteSome, GoOn, At, Active, PutType
  <1>4. CASE \/ FsyncFile(p) \/ Publish(p) \/ UnlinkTemp(p) \/ SyncPublished(p)
             \/ Record(p) \/ Discard(p)
    BY <1>1, <1>4 DEF FsyncFile, Publish, UnlinkTemp, SyncPublished, Record, Discard, GoOn, At,
                      Active, PutType
  <1>5. CASE SyncIgnored(p) \/ CheckPublished(p) \/ PublicationFails(p) \/ CleaningFails(p)
    BY <1>1, <1>5 DEF SyncIgnored, CheckPublished, PublicationFails, CleaningFails, CleanUp, GoOn,
                      At, Active, PutType
  <1>6. CASE Exists(p)
    BY <1>1, <1>6 DEF Exists, Ends, CleanUp, GoOn, At, Active, PutType
  <1>7. CASE \/ WriteFails(p) \/ PublishFails(p) \/ DropTemp(p) \/ UnlinkFails(p)
             \/ FsyncDir(p) \/ FsyncDirFails(p) \/ LastSync(p) \/ LastSyncIgnored(p)
    BY <1>1, <1>7 DEF WriteFails, PublishFails, DropTemp, UnlinkFails, FsyncDir, FsyncDirFails,
                      LastSync, LastSyncIgnored, Leaves, Ends
  <1> QED
    BY <1>2, <1>3, <1>4, <1>5, <1>6, <1>7 DEF Put, Publication

CallOf(p, how) == [address |-> put[p].content, inode |-> put[p].inode, ended |-> how]

LEMMA CallMoves ==
    ASSUME StoreInv, NEW p \in Putters, Put(p)
    PROVE  \/ calls' = calls
           \/ \E how \in Ended \ (UntilPowerLoss \cup {"cleaned"}) :
                 calls' = calls \cup {CallOf(p, how)}
           \/ /\ \E how \in Failed : calls' = calls \cup {CallOf(p, how)}
              /\ dir' = dir /\ put'[p] = Idle
              /\ \/ put[p].at \in {"writing", "syncing", "linking", "dropping", "unlinking"}
                 \/ At(p, "dirsync") /\ ~Cleans(p)
           \/ /\ At(p, "lastsync") /\ put[p].ends = "cleaned" /\ dir' = dir
              /\ \/ calls' = calls \cup {CallOf(p, "cleaned")} /\ durable' = dir
                 \/ calls' = calls \cup {CallOf(p, "unswept")}
  <1>1. put \in [Putters -> PutType] /\ put[p].ends \in Endings
    BY DEF StoreInv, TypeInv, PutType
  <1>2. CASE \/ WriteFails(p) \/ PublishFails(p) \/ UnlinkFails(p)
             \/ FsyncDirFails(p) \/ (Exists(p) /\ Ends(p, "CorruptObject"))
    <2>1. CASE FsyncDirFails(p) /\ Ends(p, "unsynced")
      BY <2>1 DEF Ends, CallOf, UntilPowerLoss, Failed, Ended, Endings
    <2>2. CASE ~(FsyncDirFails(p) /\ Ends(p, "unsynced"))
      <3>1. PICK how \in Failed : Ends(p, how)
        BY <1>2, <2>2 DEF WriteFails, PublishFails, UnlinkFails, FsyncDirFails, Exists, Failed
      <3>2. calls' = calls \cup {CallOf(p, how)} /\ put'[p] = Idle
        BY <1>1, <3>1 DEF Ends, CallOf
      <3>3. /\ dir' = dir
            /\ \/ put[p].at \in {"writing", "syncing", "linking", "dropping", "unlinking"}
               \/ At(p, "dirsync") /\ ~Cleans(p)
        BY <1>2 DEF WriteFails, PublishFails, UnlinkFails, FsyncDirFails, Exists, At
      <3> QED
        BY <3>1, <3>2, <3>3
    <2> QED
      BY <2>1, <2>2
  <1>3. CASE DropTemp(p) \/ FsyncDir(p)
    BY <1>3 DEF DropTemp, FsyncDir, Ends, CallOf, UntilPowerLoss, Failed, Ended, Endings
  <1>4. CASE Record(p)
    <2>1. put[p].ends # "cleaned"
      BY <1>4 DEF Record, At, StoreInv, PutInv, PutFine
    <2>2. put[p].ends \in Ended \ (UntilPowerLoss \cup {"cleaned"})
      BY <1>1, <2>1 DEF UntilPowerLoss, Failed, Ended, Endings
    <2> QED
      BY <1>4, <2>2 DEF Record, CallOf
  <1>5. CASE LastSync(p) \/ LastSyncIgnored(p)
    BY <1>5 DEF LastSync, LastSyncIgnored, Leaves, Ends, CallOf
  <1>6. CASE calls' = calls
    BY <1>6
  <1>7. \/ WriteFails(p) \/ PublishFails(p) \/ UnlinkFails(p) \/ FsyncDirFails(p)
        \/ (Exists(p) /\ Ends(p, "CorruptObject"))
        \/ DropTemp(p) \/ FsyncDir(p) \/ Record(p) \/ LastSync(p) \/ LastSyncIgnored(p)
        \/ calls' = calls
    BY DEF Put, Publication, CreateTemp, WriteSome, FsyncFile, Publish, Exists, UnlinkTemp,
        SyncPublished, SyncIgnored, CheckPublished, PublicationFails, Discard, CleaningFails
  <1> QED
    BY <1>2, <1>3, <1>4, <1>5, <1>6, <1>7

LEMMA OwnPut ==
    ASSUME StoreInv, OwnInv, NEW p \in Putters, Put(p)
    PROVE  OwnInv'
  <1>1. TypeInv /\ \A o \in Putters : put[o].inode \in Inodes
    BY DEF StoreInv, TypeInv, PutType
  <1>2. \A o \in Putters \ {p} : put'[o] = put[o]
    BY <1>1, OthersAlone
  <1>3. \/ put'[p] = Idle
        \/ Active(p) /\ put'[p].inode = put[p].inode
        \/ put'[p].inode = Fresh /\ Fresh \notin Inodes
    BY <1>1, OwnMoves
  <1>4. \A call \in calls : call.inode \in Inodes
    BY <1>1 DEF TypeInv, CallType
  <1>5. ASSUME NEW call \in calls', call.ended \in Failed, call \notin calls
        PROVE  call.inode = put[p].inode /\ Active(p) /\ put'[p] = Idle
    BY <1>5, CallMoves DEF CallOf, UntilPowerLoss, Failed, Active, At
  <1>6. Idle.at = "idle"
    BY DEF Idle
  <1>7. ASSUME NEW o \in Putters, put'[o].at # "idle"
        PROVE  /\ \A x \in Putters \ {o} : put'[x].at # "idle" => put'[x].inode # put'[o].inode
               /\ \A call \in calls' : call.ended \in Failed => call.inode # put'[o].inode
    <2>1. CASE o = p
      <3>1. put'[p] # Idle
        BY <1>6, <1>7, <2>1
      <3>2. \A call \in calls' : call.ended \in Failed => call \in calls
        BY <1>5, <3>1
      <3> QED
        BY <1>1, <1>2, <1>3, <1>4, <2>1, <3>1, <3>2 DEF OwnInv, Active
    <2>2. CASE o # p
      <3>1. put'[o] = put[o] /\ Active(o) /\ put[o].inode \in Inodes
        BY <1>1, <1>2, <1>7, <2>2 DEF Active
      <3>2. Active(p) => put[p].inode # put[o].inode
        BY <2>2, <3>1 DEF OwnInv
      <3>3. \A call \in calls' : call.ended \in Failed => call.inode # put[o].inode
        BY <1>5, <3>1, <3>2 DEF OwnInv
      <3>4. put'[p].at # "idle" => put'[p].inode # put[o].inode
        BY <1>3, <1>6, <3>1, <3>2
      <3>5. \A x \in Putters \ {o, p} : put'[x].at # "idle" => put'[x].inode # put[o].inode
        BY <1>2, <3>1 DEF OwnInv, Active
      <3> QED
        BY <3>1, <3>3, <3>4, <3>5
    <2> QED
      BY <2>1, <2>2
  <1> QED
    BY <1>7 DEF OwnInv, Active

(* The putter whose step it is, then the others.                           *)
LEMMA TraceOwn ==
    ASSUME StoreInv, TraceInv, NEW p \in Putters, Put(p)
    PROVE  TraceFine(p)'
  <1> DEFINE q == put[p]
  <1>1. TraceFine(p) /\ PutFine(q) /\ TypeInv /\ q \in PutType /\ put \in [Putters -> PutType]
    BY DEF TraceInv, StoreInv, PutInv, TypeInv
  <1>2. CASE put'[p].at \in {"idle", "checking", "journalling", "discarding"}
    BY <1>2 DEF TraceFine, At
  <1>3. CASE \E c \in Contents : CreateTemp(p, c)
    <2>1. PICK c \in Contents : CreateTemp(p, c)
      BY <1>3
    <2>2. put'[p] = [at |-> "writing", content |-> c, inode |-> Fresh, ends |-> "published"]
      BY <1>1, <2>1 DEF CreateTemp, Fresh
    <2>3. Temp(Fresh) \in DOMAIN dir'
      BY <2>1 DEF CreateTemp, With, Fresh
    <2> QED
      BY <2>2, <2>3 DEF TraceFine, At
  <1>4. CASE WriteSome(p) \/ FsyncFile(p)
    <2>1. q.at \in {"writing", "syncing"} /\ dir' = dir
      BY <1>4 DEF WriteSome, FsyncFile, At
    <2>2. \E pc \in {"writing", "syncing", "linking"} : GoOn(p, pc)
      BY <1>4 DEF WriteSome, FsyncFile
    <2>3. PICK pc \in {"writing", "syncing", "linking"} : GoOn(p, pc)
      BY <2>2
    <2>4. put'[p].at = pc /\ put'[p].inode = q.inode
      BY <1>1, <2>3, GoOnOnly
    <2> QED
      BY <1>1, <2>1, <2>4 DEF TraceFine, At
  <1>5. CASE Publish(p)
    <2>1. q.at = "linking" /\ q.content \in DOMAIN dir' /\ dir'[q.content] = q.inode
      BY <1>5 DEF Publish, At, With
    <2>2. Temp(q.inode) \in DOMAIN dir'
      BY <1>1, <1>5, <2>1 DEF TraceFine, Publish, With
    <2>3. GoOn(p, IF Cleans(p) THEN "dirsync" ELSE "unlinking")
      BY <1>5 DEF Publish
    <2>4. /\ put'[p].at = IF Cleans(p) THEN "dirsync" ELSE "unlinking"
          /\ put'[p].inode = q.inode /\ put'[p].content = q.content
      BY <1>1, <2>3, GoOnOnly
    <2> QED
      BY <2>1, <2>2, <2>4 DEF TraceFine, At, Cleans
  <1>6. CASE Exists(p)
    <2>1. q.at = "linking" /\ dir' = dir
      BY <1>6 DEF Exists, At
    <2>2. CASE CleanUp(p)
      <3>1. put'[p].at = "discarding"
        BY <1>1, <2>2 DEF CleanUp, PutType
      <3> QED
        BY <1>2, <3>1
    <2>3. CASE Ends(p, "CorruptObject")
      BY <1>1, <1>2, <2>3 DEF Ends, Idle
    <2>4. CASE GoOn(p, IF Cleans(p) THEN "dirsync" ELSE "dropping")
      <3>1. /\ put'[p].at = IF Cleans(p) THEN "dirsync" ELSE "dropping"
            /\ put'[p].inode = q.inode
        BY <1>1, <2>4, GoOnOnly
      <3> QED
        BY <1>1, <2>1, <3>1 DEF TraceFine, At, Cleans
    <2> QED
      BY <1>6, <2>2, <2>3, <2>4 DEF Exists
  <1>7. CASE UnlinkTemp(p)
    <2>1. q.at = "unlinking" /\ GoOn(p, "dirsync") /\ dir' = Without(dir, Temp(q.inode))
      BY <1>7 DEF UnlinkTemp, At
    <2>2. /\ put'[p].at = "dirsync" /\ put'[p].inode = q.inode /\ put'[p].content = q.content
      BY <1>1, <2>1, GoOnOnly
    <2>3. q.content \in Contents /\ Temp(q.inode) \notin Contents
      BY <1>1, <2>1, TempFact DEF PutFine, PutType
    <2>4. q.content \in DOMAIN dir' /\ dir'[q.content] \in {q.inode, Foreign}
      BY <1>1, <2>1, <2>3 DEF TraceFine, Without, At
    <2> QED
      BY <2>2, <2>4 DEF TraceFine, At
  <1>8. CASE Discard(p)
    <2>1. put'[p].at = "lastsync" /\ put'[p].inode = q.inode
      BY <1>1, <1>8, GoOnOnly DEF Discard
    <2>2. Temp(q.inode) \notin DOMAIN dir'
      BY <1>8 DEF Discard, Without
    <2> QED
      BY <2>1, <2>2 DEF TraceFine, At
  <1>9. CASE CleaningFails(p)
    <2>1. CASE put'[p] = Idle
      BY <1>2, <2>1 DEF Idle
    <2>2. CASE put' = [put EXCEPT ![p].at = "lastsync", ![p].ends = "uncleaned"]
      <3>1. put'[p].at = "lastsync" /\ put'[p].ends = "uncleaned"
        BY <1>1, <2>2 DEF PutType
      <3> QED
        BY <3>1 DEF TraceFine, At
    <2> QED
      BY <1>1, <1>9, <2>1, <2>2 DEF CleaningFails
  <1>10. CASE \/ WriteFails(p) \/ PublishFails(p) \/ DropTemp(p) \/ UnlinkFails(p) \/ FsyncDir(p)
              \/ FsyncDirFails(p) \/ LastSync(p) \/ LastSyncIgnored(p)
    <2>1. put'[p] = Idle
      BY <1>1, <1>10 DEF WriteFails, PublishFails, DropTemp, UnlinkFails, FsyncDir, FsyncDirFails,
                         LastSync, LastSyncIgnored, Leaves, Ends
    <2> QED
      BY <1>2, <2>1 DEF Idle
  <1>11. CASE \/ SyncPublished(p) \/ SyncIgnored(p) \/ CheckPublished(p) \/ Record(p)
              \/ PublicationFails(p)
    <2>1. put'[p].at \in {"checking", "journalling", "discarding"}
      BY <1>1, <1>11 DEF SyncPublished, SyncIgnored, CheckPublished, Record, PublicationFails,
                         CleanUp, GoOn, PutType
    <2> QED
      BY <1>2, <2>1
  <1> QED
    BY <1>3, <1>4, <1>5, <1>6, <1>7, <1>8, <1>9, <1>10, <1>11 DEF Put, Publication

LEMMA TracePut ==
    ASSUME StoreInv, TraceInv, NEW p \in Putters, Put(p)
    PROVE  TraceInv'
  <1>1. TypeInv /\ Steady /\ TempsSteady(p) /\ OwnInv'
    BY SteadyPut, TempsPut, OwnPut DEF StoreInv, TraceInv
  <1>2. ASSUME NEW o \in Putters
        PROVE  TraceFine(o)'
    <2>1. CASE o = p
      BY <2>1, TraceOwn
    <2>2. CASE o # p
      <3>1. put'[o] = put[o] /\ TraceFine(o) /\ PutFine(put[o]) /\ put[o].inode \in Inodes
        BY <1>1, <2>2, OthersAlone DEF TraceInv, StoreInv, PutInv, TypeInv, PutType
      <3>2. Active(o) /\ Active(p) => put[o].inode # put[p].inode
        BY <2>2 DEF TraceInv, OwnInv
      <3>3. put[o].at # "idle" => put[o].content \in Contents
        BY <3>1 DEF PutFine
      <3>4. put[o].at # "idle" =>
              /\ (Temp(put[o].inode) \in DOMAIN dir') <=> (Temp(put[o].inode) \in DOMAIN dir)
              /\ put[o].content \in DOMAIN dir =>
                    /\ put[o].content \in DOMAIN dir'
                    /\ dir'[put[o].content] \in {dir[put[o].content], Foreign}
        BY <1>1, <3>1, <3>2, <3>3 DEF Active, TempsSteady, Steady, NamesSteady
      <3> QED
        BY <3>1, <3>4 DEF TraceFine, At
    <2> QED
      BY <2>1, <2>2
  <1>3. ASSUME NEW call \in calls
        PROVE  CallTraced(call)'
    <2>1. call.inode \in Inodes /\ CallTraced(call) /\ call.address \in Bytes
      BY <1>1 DEF TraceInv, TypeInv, CallType
    <2>2. CASE call.ended \in Failed
      <3>1. Active(p) => call.inode # put[p].inode
        BY <2>2 DEF TraceInv, OwnInv
      <3>2. call.ended \notin {"cleaned", "unswept"}
        BY <2>2 DEF Failed
      <3> QED
        BY <1>1, <2>1, <2>2, <3>1, <3>2 DEF CallTraced, TempsSteady, Steady, NamesSteady
    <2>3. CASE call.ended \in {"cleaned", "unswept"}
      <3>1. call.ended \notin Failed
        BY <2>3 DEF Failed
      <3>2. /\ Temp(call.inode) \notin DOMAIN dir'
            /\ call.ended = "cleaned" => Temp(call.inode) \notin DOMAIN durable'
        BY <1>1, <2>1, <2>3 DEF CallTraced, TempsSteady, Steady
      <3> QED
        BY <3>1, <3>2 DEF CallTraced
    <2> QED
      BY <2>2, <2>3 DEF CallTraced
  <1>4. ASSUME NEW call \in calls', call \notin calls
        PROVE  CallTraced(call)'
    <2>1. TraceFine(p) /\ PutFine(put[p])
      BY DEF TraceInv, StoreInv, PutInv
    <2>2. CASE \E how \in Ended \ (UntilPowerLoss \cup {"cleaned"}) : call = CallOf(p, how)
      BY <2>2 DEF CallTraced, CallOf, UntilPowerLoss
    <2>3. CASE /\ \E how \in Failed : call = CallOf(p, how)
               /\ dir' = dir
               /\ \/ put[p].at \in {"writing", "syncing", "linking", "dropping", "unlinking"}
                  \/ At(p, "dirsync") /\ ~Cleans(p)
      <3>1. call.ended \in Failed /\ call.ended \notin {"cleaned", "unswept"}
        BY <2>3 DEF CallOf, Failed
      <3>2. call.address = put[p].content /\ call.inode = put[p].inode
        BY <2>3 DEF CallOf
      <3>3. call.address \in Contents
        BY <2>1, <2>3, <3>2 DEF PutFine, At
      <3> QED
        BY <2>1, <2>3, <3>1, <3>2, <3>3 DEF CallTraced, TraceFine
    <2>4. CASE /\ At(p, "lastsync") /\ put[p].ends = "cleaned" /\ dir' = dir
               /\ \/ call = CallOf(p, "cleaned") /\ durable' = dir
                  \/ call = CallOf(p, "unswept")
      BY <2>1, <2>4 DEF CallTraced, CallOf, TraceFine, Failed
    <2> QED
      BY <1>4, <2>2, <2>3, <2>4, CallMoves
  <1> QED
    BY <1>1, <1>2, <1>3, <1>4 DEF TraceInv

(* Steps that leave the temporary names and the work of the living alone.  *)
LEMMA TraceOther ==
    ASSUME StoreInv, TraceInv,
           \/ \E r \in Readers : Read(r)
           \/ \E p \in Putters : Kill(p)
           \/ \E c \in Contents : Rot(c) \/ Swap(c)
    PROVE  TraceInv'
  <1>1. /\ calls' = calls /\ durable' = durable /\ DOMAIN dir' = DOMAIN dir
        /\ \A n \in DOMAIN dir : dir'[n] \in {dir[n], Foreign}
        /\ \A p \in Putters : put'[p] \in {put[p], Idle}
    BY DEF Read, Open, VerifyOpened, ReadVerified, CloseRead, Kill, Rot, Swap, StoreInv, TypeInv
  <1>2. Idle.at = "idle"
    BY DEF Idle
  <1>3. OwnInv'
    <2>1. \A p \in Putters : put'[p].at # "idle" => put'[p] = put[p]
      BY <1>1, <1>2
    <2> QED
      BY <1>1, <2>1 DEF TraceInv, OwnInv, Active
  <1>4. ASSUME NEW p \in Putters
        PROVE  TraceFine(p)'
    <2>1. CASE put'[p] = put[p]
      BY <1>1, <2>1 DEF TraceInv, TraceFine, At
    <2>2. CASE put'[p] = Idle
      BY <2>2, <1>2 DEF TraceFine, At
    <2> QED
      BY <1>1, <2>1, <2>2
  <1>5. ASSUME NEW call \in calls
        PROVE  CallTraced(call)'
    BY <1>1 DEF TraceInv, CallTraced
  <1> QED
    BY <1>1, <1>3, <1>4, <1>5 DEF TraceInv

LEMMA TracePower ==
    ASSUME StoreInv, TraceInv, PowerLoss
    PROVE  TraceInv'
  <1>1. /\ durable' = dir' /\ DOMAIN dir' \subseteq DOMAIN dir \cup DOMAIN durable
        /\ calls' = {call \in calls : call.ended \notin UntilPowerLoss}
    BY DEF PowerLoss
  <1>2. \A p \in Putters : put'[p].at = "idle"
    BY DEF PowerLoss, Idle
  <1>3. OwnInv' /\ \A p \in Putters : TraceFine(p)'
    BY <1>2 DEF OwnInv, Active, TraceFine, At
  <1>4. ASSUME NEW call \in calls'
        PROVE  CallTraced(call)'
    <2>1. call \in calls /\ call.ended \notin UntilPowerLoss /\ CallTraced(call)
      BY <1>1, <1>4 DEF TraceInv
    <2> QED
      BY <1>1, <2>1 DEF CallTraced, UntilPowerLoss
  <1> QED
    BY <1>3, <1>4 DEF TraceInv

LEMMA TraceStep == StoreInv /\ TraceInv /\ [Next]_vars => TraceInv'
  <1> SUFFICES ASSUME StoreInv, TraceInv, [Next]_vars PROVE TraceInv'
    OBVIOUS
  <1>1. CASE UNCHANGED vars
    BY <1>1 DEF vars, TraceInv, OwnInv, Active, TraceFine, CallTraced, At
  <1>2. CASE \E p \in Putters : Put(p)
    BY <1>2, TracePut
  <1>3. CASE \/ \E r \in Readers : Read(r)
             \/ \E p \in Putters : Kill(p)
             \/ \E c \in Contents : Rot(c) \/ Swap(c)
    BY <1>3, TraceOther
  <1>4. CASE PowerLoss
    BY <1>4, TracePower
  <1> QED
    BY <1>1, <1>2, <1>3, <1>4 DEF Next

LEMMA TraceAlways == Spec => []TraceInv
  BY TraceInit, TraceStep, StoreAlways, PTL DEF Spec

-----------------------------------------------------------------------------
(* The properties of ContentStore.                                         *)

(* Whatever lies under an address is the whole of what the address names,  *)
(* or bytes that others have changed, for every mixture of old and new     *)
(* entries and every number of unsynced blocks that a loss of power leaves *)
(* (ContentStore.put, steps 2 and 3; l1_object_publication).               *)
THEOREM WholeCorrect == Spec => []NamedIsWhole
  <1>1. StoreInv => NamedIsWhole
    BY DEF StoreInv, WholeInv, NamedIsWhole, Solid, Ours, Digest, Objects
  <1> QED
    BY <1>1, StoreAlways, PTL

(* An address that a put returned after its own fsync of the directory, or *)
(* that a journal names after that of l1_object_publication, is found for  *)
(* good, whatever is killed, fails or loses power afterwards.              *)
THEOREM DurableCorrect == Spec => []PublishedIsDurable
  <1>1. StoreInv => PublishedIsDurable
    BY DEF StoreInv, CallInv, AgreeInv, PublishedIsDurable
  <1> QED
    BY <1>1, StoreAlways, PTL

(* A reader of open_verified never gets other bytes than those it asked    *)
(* for, unless the very file it holds is changed in place.                 *)
THEOREM ReaderCorrect == Spec => []ReaderGetsAddress
  <1>1. StoreInv => ReaderGetsAddress
    BY DEF StoreInv, ReadInv, ReadFine, ReaderGetsAddress
  <1> QED
    BY <1>1, StoreAlways, PTL

(* No step of the program, and no loss of power, puts another file of the  *)
(* program under a name that is taken (os.link, never os.rename).          *)
THEOREM NeverOverwrites == Spec => NeverOverwritten
  <1>1. ASSUME StoreInv, [Next]_vars, NEW c \in Objects, c \in DOMAIN dir'
        PROVE  dir'[c] = dir[c] \/ Foreign \in {dir[c], dir'[c]}
    <2>1. c \in Contents \cap DOMAIN dir
      BY <1>1 DEF Objects
    <2>2. CASE Steady
      BY <2>1, <2>2 DEF Steady, NamesSteady
    <2>3. CASE PowerLoss
      <3>1. \/ dir'[c] = dir[c]
            \/ c \in DOMAIN durable /\ dir'[c] = durable[c]
        BY <1>1, <2>3 DEF PowerLoss
      <3> QED
        BY <1>1, <2>1, <3>1 DEF StoreInv, AgreeInv
    <2>4. CASE UNCHANGED vars
      BY <2>4 DEF vars
    <2>5. TypeInv
      BY <1>1 DEF StoreInv
    <2> QED
      BY <1>1, <2>2, <2>3, <2>4, <2>5, SteadyPut, SteadyOther DEF Next
  <1>2. StoreInv /\ [Next]_vars =>
          [\A c \in Objects :
              c \in DOMAIN dir' => dir'[c] = dir[c] \/ Foreign \in {dir[c], dir'[c]}]_vars
    BY <1>1
  <1> QED
    BY <1>2, StoreAlways, PTL DEF Spec, NeverOverwritten

(* Whoever looks at the store after a put that failed sees that it did:    *)
(* no step of another process takes the trace away, and no later put is    *)
(* given the same temporary name.  An L1 publication that says it has      *)
(* cleaned up has; and where the file system has synced its directory at   *)
(* the end, no loss of power brings its file back.                         *)
THEOREM TraceCorrect == Spec => []FailedLeavesTrace
  <1>1. TraceInv => FailedLeavesTrace
    BY DEF TraceInv, CallTraced, FailedLeavesTrace
  <1> QED
    BY <1>1, TraceAlways, PTL
=============================================================================
