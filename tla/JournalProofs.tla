--------------------------- MODULE JournalProofs ---------------------------
(***************************************************************************)
(* Proofs about the journal for every set of writers and readers, every    *)
(* bound, and every combination of faults and cuts.                        *)
(***************************************************************************)
EXTENDS Journal, TLAPS

(* The number of lines of a file with n chunks. *)
LEMMA LineCountFact ==
    ASSUME NEW n \in Nat
    PROVE  /\ (n + 1) \div 2 \in Nat
           /\ n = 2 * ((n + 1) \div 2) \/ n = 2 * ((n + 1) \div 2) - 1
  OBVIOUS

(* What a chunk is, told from its tag alone. *)
LEMMA ChunkCases ==
    /\ \A x \in Chunk : IsEvent(x) <=> x \in Event
    /\ Newline \in Chunk /\ ~IsEvent(Newline)
    /\ \A x \in Piece : x \in Chunk /\ ~IsEvent(x)
    /\ Event \subseteq Chunk
  BY DEF Chunk, Event, Piece, Newline, IsEvent

(* A cut line is a chunk, and an event only if it is the whole event. *)
LEMMA CutFact ==
    ASSUME NEW place \in Cuts, NEW e \in Event
    PROVE  /\ Cut(place, e) \in Chunk
           /\ IsEvent(Cut(place, e)) => Cut(place, e) = e
           /\ Cut(place, e) # Newline
  <1>1. place \in {"half", "split", "whole"}
    BY EnvironmentAssumption DEF CutPlaces
  <1>2. CASE place = "whole"
    BY <1>2, ChunkCases DEF Cut, Event, Newline
  <1>3. CASE place # "whole"
    <2>1. Cut(place, e) \in Piece
      BY <1>1, <1>3 DEF Cut, Piece
    <2>2. Cut(place, e) # Newline
      BY <2>1 DEF Piece, Newline
    <2> QED
      BY <2>1, <2>2, ChunkCases
  <1> QED
    BY <1>2, <1>3

(* Events and heads have the types the variables keep them in. *)
LEMMA MakeEventType ==
    ASSUME NEW head \in HeadRec, NEW c \in Content
    PROVE  MakeEvent(head, c) \in Event
  BY DEF MakeEvent, HeadRec, Content, Event

LEMMA HeadAfterType ==
    ASSUME NEW e \in Event
    PROVE  HeadAfter(e) \in HeadRec
  BY DEF HeadAfter, HeadRec, Event, Digest, Content

LEMMA EventsType ==
    ASSUME NEW f \in Seq(Chunk), Parses(f)
    PROVE  /\ Events(f) \in Seq(Event)
           /\ HeadOf(f) \in HeadRec
  <1> DEFINE n == LineCount(f)
  <1>1. n \in Nat /\ (Len(f) = 2 * n \/ Len(f) = 2 * n - 1)
    BY LineCountFact DEF LineCount
  <1>2. \A i \in 1..n : 2 * i - 1 \in 1..Len(f) /\ IsEvent(f[2 * i - 1])
    <2> SUFFICES ASSUME NEW i \in 1..n
                 PROVE  2 * i - 1 \in 1..Len(f) /\ IsEvent(f[2 * i - 1])
      OBVIOUS
    <2>1. 2 * i - 1 \in 1..Len(f)
      BY <1>1
    <2>2. CASE Len(f) = 2 * n
      BY <2>1, <2>2, <1>1 DEF Parses, EndsClean, WholeLines
    <2>3. CASE Len(f) = 2 * n - 1 /\ i < n
      <3>1. ~EndsClean(f)
        BY <2>3, <1>1 DEF EndsClean
      <3>2. WholeLines(f, n - 1) /\ i \in 1..(n - 1)
        BY <3>1, <2>3, <1>1 DEF Parses
      <3> HIDE DEF n
      <3> QED
        BY <3>2, <2>1 DEF WholeLines
    <2>4. CASE Len(f) = 2 * n - 1 /\ i = n
      BY <2>1, <2>4, <1>1 DEF Parses, EndsClean
    <2> QED
      BY <1>1, <2>1, <2>2, <2>3, <2>4
  <1>3. \A i \in 1..n : Line(f, i) \in Event
    BY <1>2, ChunkCases DEF Line
  <1>4. Events(f) \in Seq(Event)
    BY <1>1, <1>3 DEF Events
  <1>5. HeadOf(f) \in HeadRec
    <2>1. CASE Len(f) = 0
      BY <2>1 DEF HeadOf, Head0, HeadRec, Genesis
    <2>2. CASE Len(f) # 0
      <3>1. n \in 1..n
        BY <2>2, <1>1
      <3> QED
        BY <3>1, <1>3, <2>2, HeadAfterType DEF HeadOf
    <2> QED
      BY <2>1, <2>2
  <1> QED
    BY <1>4, <1>5
-----------------------------------------------------------------------------
(* Type correctness.  Two facts about the control states make it           *)
(* inductive: an operation under way has something to write, and a write   *)
(* under way has its event.                                                *)

Busy == {"want", "verify", "scan", "head", "write", "writing", "sync"}
Writing == {"write", "writing", "sync"}

WorkInv ==
    \A w \in Writers :
        /\ pc[w] \in Busy => todo[w] # << >>
        /\ pc[w] \in Writing => ev[w] \in Event

TypeInv == TypeOK /\ WorkInv

LEMMA TypeInit == Init => TypeInv
  BY BoundsAssumption DEF Init, TypeInv, TypeOK, WorkInv, Busy, Writing, Outcomes

(* Appending to the file and leaving the rest of the types alone. *)
LEMMA TypeBegin ==
    ASSUME TypeInv, NEW w \in Writers, NEW m \in {"append", "append_once", "transaction"},
           NEW work \in Seq(Content), work # << >>, Begin(w, m, work)
    PROVE  TypeInv'
  BY BoundsAssumption
  DEF Begin, TypeInv, TypeOK, WorkInv, Busy, Writing, Locked, cache

LEMMA TypeStart ==
    ASSUME TypeInv, NEW w \in Writers,
           BeginAppend(w) \/ BeginAppendOnce(w) \/ BeginTransaction(w)
    PROVE  TypeInv'
  <1>1. CASE BeginAppend(w)
    <2>1. PICK k \in PlainKinds, v \in Vals : Begin(w, "append", <<[kind |-> k, val |-> v]>>)
      BY <1>1 DEF BeginAppend
    <2>2. <<[kind |-> k, val |-> v]>> \in Seq(Content) /\ <<[kind |-> k, val |-> v]>> # << >>
      BY DEF Content, Kinds
    <2> QED
      BY <2>1, <2>2, TypeBegin
  <1>2. CASE BeginAppendOnce(w)
    <2>1. PICK c \in Content : Begin(w, "append_once", <<c>>)
      BY <1>2 DEF BeginAppendOnce, OnceContent
    <2>2. <<c>> \in Seq(Content) /\ <<c>> # << >>
      OBVIOUS
    <2> QED
      BY <2>1, <2>2, TypeBegin
  <1>3. CASE BeginTransaction(w)
    <2>1. PICK c \in Content, d \in Content : Begin(w, "transaction", <<c, d>>)
      BY <1>3 DEF BeginTransaction, OnceContent
    <2>2. <<c, d>> \in Seq(Content) /\ <<c, d>> # << >>
      OBVIOUS
    <2> QED
      BY <2>1, <2>2, TypeBegin
  <1> QED
    BY <1>1, <1>2, <1>3

LEMMA TypeOperate ==
    ASSUME TypeInv, NEW w \in Writers, Operate(w)
    PROVE  TypeInv'
  <1> USE DEF TypeInv, TypeOK, WorkInv, Busy, Writing, Locked, Goto, local, cache, env
  <1>1. CASE Lock(w)
    BY <1>1 DEF Lock, FirstUnderLock
  <1>2. CASE Verify(w)
    <2>1. CASE Parses(file) /\ Chained(Events(file))
      <3>1. Events(file) \in Seq(Event)
        BY <2>1, EventsType
      <3>2. snap' \in [Writers -> Seq(Event)]
        BY <1>2, <2>1, <3>1 DEF Verify
      <3>3. /\ pc[w] = "verify" /\ pc' = [pc EXCEPT ![w] = "scan"]
            /\ UNCHANGED <<file, durable, lock, mode, todo, ev, cache, acked, env>>
        BY <1>2, <2>1 DEF Verify
      <3> QED
        BY <3>2, <3>3
    <2>2. CASE ~(Parses(file) /\ Chained(Events(file)))
      BY <1>2, <2>2 DEF Verify
    <2> QED
      BY <2>1, <2>2
  <1>3. CASE Scan(w)
    <2>1. Tail(todo[w]) \in Seq(Content)
      BY <1>3 DEF Scan
    <2>2. CASE Skip(w)
      BY <1>3, <2>1, <2>2 DEF Scan, Skip
    <2>3. CASE Goto(w, "release") /\ UNCHANGED todo
      BY <1>3, <2>3 DEF Scan
    <2>4. CASE Goto(w, "head") /\ UNCHANGED todo
      BY <1>3, <2>4 DEF Scan
    <2> QED
      BY <1>3, <2>2, <2>3, <2>4 DEF Scan
  <1>4. CASE TakeHead(w)
    <2>1. todo[w][1] \in Content
      BY <1>4 DEF TakeHead
    <2>2. CASE Remembered(w)
      <3>1. MakeEvent(kopf[w], todo[w][1]) \in Event
        BY <2>1, <2>2, MakeEventType DEF Remembered
      <3>2. /\ ev' = [ev EXCEPT ![w] = MakeEvent(kopf[w], todo[w][1])]
            /\ pc' = [pc EXCEPT ![w] = "write"]
            /\ pc[w] = "head"
            /\ UNCHANGED <<file, durable, lock, mode, todo, snap, kopf, groesse, acked, env>>
        BY <1>4, <2>2 DEF TakeHead
      <3> QED
        BY <3>1, <3>2
    <2>3. CASE ~Remembered(w) /\ Parses(file)
      <3>1. HeadOf(file) \in HeadRec
        BY <2>3, EventsType
      <3>2. MakeEvent(HeadOf(file), todo[w][1]) \in Event
        BY <2>1, <3>1, MakeEventType
      <3>3. /\ ev' = [ev EXCEPT ![w] = MakeEvent(HeadOf(file), todo[w][1])]
            /\ kopf' = [kopf EXCEPT ![w] = HeadOf(file)]
            /\ groesse' = [groesse EXCEPT ![w] = Len(file)]
            /\ pc' = [pc EXCEPT ![w] = "write"]
            /\ pc[w] = "head"
            /\ UNCHANGED <<file, durable, lock, mode, todo, snap, acked, env>>
        BY <1>4, <2>3 DEF TakeHead
      <3> QED
        BY <3>1, <3>2, <3>3
    <2>4. CASE ~Remembered(w) /\ ~Parses(file)
      BY <1>4, <2>4 DEF TakeHead
    <2> QED
      BY <2>2, <2>3, <2>4
  <1>5. CASE StartWrite(w)
    <2>1. PICK place \in Cuts : file' = Append(file, Cut(place, ev[w]))
      BY <1>5 DEF StartWrite
    <2>2. file' \in Seq(Chunk) /\ Len(file') = Len(file) + 1
      BY <1>5, <2>1, CutFact DEF StartWrite
    <2> QED
      BY <1>5, <2>2 DEF StartWrite
  <1>6. CASE FinishWrite(w)
    <2>1. ev[w] \in Chunk /\ Newline \in Chunk
      BY <1>6, ChunkCases DEF FinishWrite
    <2>2. [file EXCEPT ![Len(file)] = ev[w]] \in Seq(Chunk)
      <3>1. file \in [1..Len(file) -> Chunk] /\ Len(file) \in Nat
        OBVIOUS
      <3>2. [file EXCEPT ![Len(file)] = ev[w]] \in [1..Len(file) -> Chunk]
        BY <2>1, <3>1, Zenon
      <3> QED
        BY <3>1, <3>2
    <2>3. file' \in Seq(Chunk) /\ Len(file') = Len(file) + 1
      BY <1>6, <2>1, <2>2 DEF FinishWrite
    <2> QED
      BY <1>6, <2>3 DEF FinishWrite
  <1>7. CASE Sync(w)
    <2>1. HeadAfter(ev[w]) \in HeadRec /\ ev[w] \in Event
      BY <1>7, HeadAfterType DEF Sync
    <2> QED
      BY <1>7, <2>1 DEF Sync, Skip
  <1>8. CASE Release(w)
    BY <1>8 DEF Release
  <1> QED
    BY <1>1, <1>2, <1>3, <1>4, <1>5, <1>6, <1>7, <1>8 DEF Operate

LEMMA TypeFault ==
    ASSUME TypeInv, NEW w \in Writers, ShortWrite(w) \/ OsError(w) \/ Kill(w)
    PROVE  TypeInv'
  <1> USE BoundsAssumption DEF TypeInv, TypeOK, WorkInv, Busy, Writing, Locked, Goto, local, cache, Fault
  <1>1. CASE ShortWrite(w)
    BY <1>1 DEF ShortWrite
  <1>2. CASE OsError(w)
    BY <1>2 DEF OsError
  <1>3. CASE Kill(w)
    BY <1>3 DEF Kill
  <1> QED
    BY <1>1, <1>2, <1>3

LEMMA TypeRead ==
    ASSUME TypeInv, NEW r \in Readers, Read(r)
    PROVE  TypeInv'
  <1>1. view' \in [Readers -> [outcome : Outcomes, events : Seq(Event)]]
    <2>1. Parses(file) => Events(file) \in Seq(Event)
      BY EventsType DEF TypeInv, TypeOK
    <2> QED
      BY <2>1 DEF Read, TypeInv, TypeOK, Outcomes
  <1> QED
    BY <1>1 DEF Read, TypeInv, TypeOK, WorkInv, local, cache

(* What a power loss may leave of the file. *)
LEMMA PowerLossFile ==
    ASSUME TypeInv, PowerLoss
    PROVE  \E k \in 0..Len(file) :
               \/ file' = SubSeq(file, 1, k)
               \/ \E x \in Piece : file' = Append(SubSeq(file, 1, k), x)
  <1>1. PICK k \in durable..Len(file) : Survives(k)
    BY DEF PowerLoss
  <1>2. k \in 0..Len(file)
    BY DEF TypeInv, TypeOK
  <1>3. \A q \in Cuts \ {"whole"} : [what |-> q] \in Piece
    BY EnvironmentAssumption DEF Piece, CutPlaces
  <1> QED
    BY <1>1, <1>2, <1>3 DEF Survives

LEMMA TypePowerLoss ==
    ASSUME TypeInv, PowerLoss
    PROVE  TypeInv'
  <1>1. file' \in Seq(Chunk)
    <2>1. PICK k \in 0..Len(file) :
               \/ file' = SubSeq(file, 1, k)
               \/ \E x \in Piece : file' = Append(SubSeq(file, 1, k), x)
      BY PowerLossFile
    <2>2. SubSeq(file, 1, k) \in Seq(Chunk)
      BY DEF TypeInv, TypeOK
    <2> QED
      BY <2>1, <2>2, ChunkCases
  <1>2. durable' \in 0..Len(file')
    BY <1>1 DEF PowerLoss
  <1> QED
    BY <1>1, <1>2, BoundsAssumption
    DEF PowerLoss, TypeInv, TypeOK, WorkInv, Busy, Writing, Outcomes

LEMMA TypeNext ==
    ASSUME TypeInv, [Next]_vars
    PROVE  TypeInv'
  <1>1. CASE UNCHANGED vars
    BY <1>1 DEF vars, TypeInv, TypeOK, WorkInv
  <1> QED
    BY <1>1, TypeStart, TypeOperate, TypeFault, TypeRead, TypePowerLoss DEF Next

THEOREM TypeInvariant == Spec => []TypeInv
  BY TypeInit, TypeNext, PTL DEF Spec

(* The journal's variables keep their types, whatever the faults. *)
THEOREM TypeCorrect == Spec => []TypeOK
  BY TypeInvariant, PTL DEF TypeInv
-----------------------------------------------------------------------------
(* The chain.  ChainTo also speaks about the first chunk of the first bad  *)
(* line: that makes it hold for every prefix of the file, which is what a  *)
(* power loss leaves.                                                      *)

FollowsAt(f, i) ==
    /\ Line(f, i).seq = i
    /\ Line(f, i).prev = IF i = 1 THEN Genesis ELSE Digest(Line(f, i - 1))

ChainTo(f) ==
    \A i \in 1..LineCount(f) : WholeLines(f, i - 1) /\ IsEvent(Line(f, i)) => FollowsAt(f, i)

Continues(e, f) == e.seq = HeadOf(f).seq + 1 /\ e.prev = HeadOf(f).digest

LEMMA LineBounds ==
    ASSUME NEW f \in Seq(Chunk)
    PROVE  /\ LineCount(f) \in Nat
           /\ Len(f) = 2 * LineCount(f) \/ Len(f) = 2 * LineCount(f) - 1
           /\ \A i \in Int : i \in 1..LineCount(f) <=> (1 <= i /\ 2 * i - 1 <= Len(f))
  <1>1. Len(f) \in Nat
    OBVIOUS
  <1> QED
    BY <1>1, LineCountFact DEF LineCount

(* A file and its extension agree on the lines that lie in both. *)
LEMMA SameLines ==
    ASSUME NEW f \in Seq(Chunk), NEW g \in Seq(Chunk), Len(f) <= Len(g),
           \A i \in 1..Len(f) : g[i] = f[i],
           NEW n \in Nat, 2 * n <= Len(f)
    PROVE  WholeLines(f, n) <=> WholeLines(g, n)
  <1>1. \A i \in 1..n : 2 * i - 1 \in 1..Len(f) /\ 2 * i \in 1..Len(f)
    OBVIOUS
  <1>2. \A i \in 1..n : g[2 * i - 1] = f[2 * i - 1] /\ g[2 * i] = f[2 * i]
    BY <1>1
  <1>3. 2 * n <= Len(g)
    OBVIOUS
  <1> QED
    BY <1>2, <1>3, Zenon DEF WholeLines

LEMMA StartOfFile ==
    ASSUME NEW f \in Seq(Chunk), NEW k \in 0..Len(f)
    PROVE  /\ SubSeq(f, 1, k) \in Seq(Chunk)
           /\ Len(SubSeq(f, 1, k)) = k
           /\ \A i \in 1..k : SubSeq(f, 1, k)[i] = f[i]
  OBVIOUS

LEMMA PrefixChain ==
    ASSUME NEW f \in Seq(Chunk), NEW g \in Seq(Chunk), Len(f) <= Len(g),
           \A i \in 1..Len(f) : g[i] = f[i], ChainTo(g)
    PROVE  ChainTo(f)
  <1> SUFFICES ASSUME NEW i \in 1..LineCount(f), WholeLines(f, i - 1), IsEvent(Line(f, i))
               PROVE  FollowsAt(f, i)
    BY DEF ChainTo
  <1>1. i \in Int /\ 1 <= i /\ 2 * i - 1 <= Len(f)
    BY LineBounds
  <1>2. i \in 1..LineCount(g)
    BY <1>1, LineBounds
  <1>3. WholeLines(g, i - 1)
    BY <1>1, SameLines
  <1>4. Line(g, i) = Line(f, i)
    BY <1>1 DEF Line
  <1>5. i # 1 => Line(g, i - 1) = Line(f, i - 1)
    BY <1>1 DEF Line
  <1>6. FollowsAt(g, i)
    BY <1>2, <1>3, <1>4 DEF ChainTo
  <1> QED
    BY <1>4, <1>5, <1>6 DEF FollowsAt

LEMMA ExtendChain ==
    ASSUME NEW f \in Seq(Chunk), ChainTo(f), NEW x \in Chunk,
           IsEvent(x) /\ Parses(f) => Continues(x, f)
    PROVE  ChainTo(Append(f, x))
  <1> DEFINE g == Append(f, x)
  <1>1. /\ g \in Seq(Chunk) /\ Len(g) = Len(f) + 1 /\ Len(f) \in Nat
        /\ g[Len(f) + 1] = x
        /\ \A i \in 1..Len(f) : g[i] = f[i]
    OBVIOUS
  <1> HIDE DEF g
  <1> SUFFICES ASSUME NEW i \in 1..LineCount(g), WholeLines(g, i - 1), IsEvent(Line(g, i))
               PROVE  FollowsAt(g, i)
    BY DEF ChainTo, g
  <1>2. i \in Int /\ 1 <= i /\ 2 * i - 1 <= Len(f) + 1
    BY <1>1, LineBounds
  <1>3. WholeLines(f, i - 1)
    BY <1>1, <1>2, SameLines
  <1>4. i # 1 => Line(g, i - 1) = Line(f, i - 1)
    BY <1>1, <1>2 DEF Line
  <1>5. CASE 2 * i - 1 <= Len(f)
    <2>1. i \in 1..LineCount(f)
      BY <1>2, <1>5, LineBounds
    <2>2. Line(g, i) = Line(f, i)
      BY <1>1, <1>2, <1>5 DEF Line
    <2>3. FollowsAt(f, i)
      BY <1>3, <2>1, <2>2 DEF ChainTo
    <2> QED
      BY <1>4, <2>2, <2>3 DEF FollowsAt
  <1>6. CASE 2 * i - 1 = Len(f) + 1
    <2>1. Line(g, i) = x
      BY <1>1, <1>6 DEF Line
    <2>2. LineCount(f) = i - 1 /\ EndsClean(f)
      <3>1. /\ LineCount(f) \in Nat
            /\ Len(f) = 2 * LineCount(f) \/ Len(f) = 2 * LineCount(f) - 1
        BY LineBounds
      <3>2. Len(f) = 2 * (i - 1)
        BY <1>2, <1>6
      <3>3. LineCount(f) = i - 1
        BY <1>2, <3>1, <3>2
      <3> QED
        BY <3>2, <3>3 DEF EndsClean
    <2>3. Parses(f)
      BY <1>3, <2>2 DEF Parses
    <2>4. Continues(x, f)
      BY <2>1, <2>3
    <2>5. CASE i = 1
      BY <1>6, <2>1, <2>4, <2>5 DEF Continues, HeadOf, Head0, FollowsAt
    <2>6. CASE i # 1
      <3>1. HeadOf(f) = HeadAfter(Line(f, i - 1))
        BY <1>2, <1>6, <2>2, <2>6 DEF HeadOf
      <3>2. i - 1 \in 1..LineCount(f) /\ i - 1 \in 1..(i - 1) /\ 2 * (i - 1) \in 1..Len(f)
        BY <1>2, <1>6, <2>2, <2>6
      <3>3. IsEvent(Line(f, i - 1))
        BY <1>3, <3>2 DEF WholeLines, Line
      <3>4. WholeLines(f, i - 2)
        BY <1>2, <1>3, <1>6, <2>6 DEF WholeLines
      <3>5. Line(f, i - 1).seq = i - 1
        BY <3>2, <3>3, <3>4 DEF ChainTo, FollowsAt
      <3> QED
        BY <1>2, <1>4, <2>1, <2>4, <2>6, <3>1, <3>5 DEF Continues, HeadAfter, FollowsAt
    <2> QED
      BY <2>5, <2>6
  <1> QED
    BY <1>1, <1>2, <1>5, <1>6

LEMMA ChainIsReadable == ASSUME ChainTo(file) PROVE ReadableIsChain
  BY DEF ChainTo, ReadableIsChain, Readable, GoodLine, FollowsAt, Line
-----------------------------------------------------------------------------
(* The inductive invariant.  It relates the file to what the lock holder   *)
(* is about to write, and to the heads that every process remembers.       *)

LockInv == \A w \in Writers : pc[w] \in Locked => lock = w

Written == SubSeq(file, 1, Len(file) - 1)

WriteInv ==
    \A w \in Writers :
        /\ pc[w] = "write" /\ Parses(file) => Continues(ev[w], file)
        /\ pc[w] = "writing" =>
              /\ Len(file) >= 1
              /\ Parses(Written) => Continues(ev[w], Written)
              /\ file[Len(file)] # Newline
              /\ IsEvent(file[Len(file)]) => file[Len(file)] = ev[w]
        /\ pc[w] = "sync" =>
              /\ Len(file) >= 1
              /\ Parses(file) => HeadOf(file) = HeadAfter(ev[w])

CacheInv ==
    \A w \in Writers : kopf[w] # None =>
        /\ groesse[w] <= Len(file)
        /\ (\E v \in Writers : pc[v] = "writing") => groesse[w] < Len(file)
        /\ groesse[w] = Len(file) /\ Parses(file) => kopf[w] = HeadOf(file)

SafeInv == TypeInv /\ LockInv /\ WriteInv /\ CacheInv /\ ChainTo(file)

LEMMA SafeInit == Init => SafeInv
  <1> SUFFICES ASSUME Init PROVE SafeInv
    OBVIOUS
  <1>1. TypeInv
    BY TypeInit
  <1>2. LockInv /\ WriteInv /\ CacheInv
    BY DEF Init, LockInv, WriteInv, CacheInv, Locked
  <1>3. ChainTo(file)
    <2>1. file \in Seq(Chunk) /\ Len(file) = 0
      BY DEF Init
    <2> DEFINE c == LineCount(file)
    <2>2. c \in Nat /\ (0 = 2 * c \/ 0 = 2 * c - 1)
      BY <2>1, LineBounds
    <2>3. c = 0
      <3> HIDE DEF c
      <3> QED
        BY <2>2
    <2> QED
      BY <2>3 DEF ChainTo
  <1> QED
    BY <1>1, <1>2, <1>3 DEF SafeInv

(* Steps that neither touch the file nor bring anyone into a write. *)
LEMMA SafeQuiet ==
    ASSUME SafeInv, TypeInv', LockInv', UNCHANGED <<file, kopf, groesse>>,
           \A w \in Writers : pc'[w] \notin Writing \/ (pc'[w] = pc[w] /\ ev'[w] = ev[w])
    PROVE  SafeInv'
  <1>1. WriteInv'
    BY DEF SafeInv, WriteInv, Writing, Written, Continues, Newline
  <1>2. CacheInv'
    BY DEF SafeInv, CacheInv, Writing
  <1> QED
    BY <1>1, <1>2 DEF SafeInv

LEMMA SafeStart ==
    ASSUME SafeInv, NEW w \in Writers,
           BeginAppend(w) \/ BeginAppendOnce(w) \/ BeginTransaction(w)
    PROVE  SafeInv'
  <1>1. TypeInv'
    BY TypeStart DEF SafeInv
  <1>2. \E m \in {"append", "append_once", "transaction"}, work \in Seq(Content) : Begin(w, m, work)
    <2>1. CASE BeginAppend(w)
      <3>1. PICK k \in PlainKinds, v \in Vals : Begin(w, "append", <<[kind |-> k, val |-> v]>>)
        BY <2>1 DEF BeginAppend
      <3>2. <<[kind |-> k, val |-> v]>> \in Seq(Content)
        BY DEF Content, Kinds
      <3> QED
        BY <3>1, <3>2
    <2>2. CASE BeginAppendOnce(w)
      <3>1. PICK c \in Content : Begin(w, "append_once", <<c>>)
        BY <2>2 DEF BeginAppendOnce, OnceContent
      <3>2. <<c>> \in Seq(Content)
        OBVIOUS
      <3> QED
        BY <3>1, <3>2
    <2>3. CASE BeginTransaction(w)
      <3>1. PICK c \in Content, d \in Content : Begin(w, "transaction", <<c, d>>)
        BY <2>3 DEF BeginTransaction, OnceContent
      <3>2. <<c, d>> \in Seq(Content)
        OBVIOUS
      <3> QED
        BY <3>1, <3>2
    <2> QED
      BY <2>1, <2>2, <2>3
  <1>3. LockInv'
    BY <1>2 DEF SafeInv, TypeInv, TypeOK, LockInv, Begin, Locked
  <1>4. /\ UNCHANGED <<file, kopf, groesse>>
        /\ \A v \in Writers : pc'[v] \notin Writing \/ (pc'[v] = pc[v] /\ ev'[v] = ev[v])
    BY <1>2 DEF SafeInv, TypeInv, TypeOK, Begin, Writing, cache
  <1> QED
    BY <1>1, <1>3, <1>4, SafeQuiet

(* Under the lock, nobody else is in a locked state. *)
LEMMA Alone ==
    ASSUME SafeInv, NEW w \in Writers, pc[w] \in Locked
    PROVE  lock = w /\ \A v \in Writers \ {w} : pc[v] \notin Locked
  BY DEF SafeInv, LockInv

LEMMA SafeLocking ==
    ASSUME SafeInv, NEW w \in Writers, Lock(w) \/ Verify(w) \/ Scan(w) \/ Release(w)
    PROVE  SafeInv'
  <1> USE DEF TypeInv, TypeOK, Locked, Writing, Goto, local, cache, env
  <1>1. TypeInv'
    BY TypeOperate DEF SafeInv, Operate
  <1>2. CASE Lock(w)
    <2>1. LockInv'
      BY <1>2, NoneAssumption DEF SafeInv, Lock, LockInv
    <2>2. \A v \in Writers : pc'[v] \notin Writing \/ (pc'[v] = pc[v] /\ ev'[v] = ev[v])
      BY <1>2 DEF SafeInv, Lock, FirstUnderLock
    <2>3. UNCHANGED <<file, kopf, groesse>>
      BY <1>2 DEF Lock
    <2> QED
      BY <1>1, <2>1, <2>2, <2>3, SafeQuiet
  <1>3. CASE Verify(w)
    <2>1. LockInv'
      BY <1>3 DEF SafeInv, Verify, LockInv
    <2>2. \A v \in Writers : pc'[v] \notin Writing \/ (pc'[v] = pc[v] /\ ev'[v] = ev[v])
      BY <1>3 DEF SafeInv, Verify
    <2>3. UNCHANGED <<file, kopf, groesse>>
      BY <1>3 DEF Verify
    <2> QED
      BY <1>1, <2>1, <2>2, <2>3, SafeQuiet
  <1>4. CASE Scan(w)
    <2>1. LockInv'
      BY <1>4 DEF SafeInv, Scan, Skip, LockInv
    <2>2. \A v \in Writers : pc'[v] \notin Writing \/ (pc'[v] = pc[v] /\ ev'[v] = ev[v])
      BY <1>4 DEF SafeInv, Scan, Skip
    <2>3. UNCHANGED <<file, kopf, groesse>>
      BY <1>4 DEF Scan
    <2> QED
      BY <1>1, <2>1, <2>2, <2>3, SafeQuiet
  <1>5. CASE Release(w)
    <2>1. LockInv'
      BY <1>5, Alone DEF SafeInv, Release, LockInv
    <2>2. \A v \in Writers : pc'[v] \notin Writing \/ (pc'[v] = pc[v] /\ ev'[v] = ev[v])
      BY <1>5 DEF SafeInv, Release
    <2>3. UNCHANGED <<file, kopf, groesse>>
      BY <1>5 DEF Release
    <2> QED
      BY <1>1, <2>1, <2>2, <2>3, SafeQuiet
  <1> QED
    BY <1>2, <1>3, <1>4, <1>5
LEMMA SafeTakeHead ==
    ASSUME SafeInv, NEW w \in Writers, TakeHead(w)
    PROVE  SafeInv'
  <1> USE DEF TypeInv, TypeOK
  <1>1. TypeInv'
    BY TypeOperate DEF SafeInv, Operate
  <1>2. pc[w] = "head" /\ file' = file /\ lock' = lock
    BY DEF TakeHead
  <1>3. \A v \in Writers \ {w} : pc'[v] = pc[v] /\ ev'[v] = ev[v] /\ pc[v] \notin Locked
    BY <1>2, Alone, SMTT(30) DEF SafeInv, TakeHead, Goto, Locked
  <1>4. pc'[w] \in {"write", "release"}
    BY DEF SafeInv, TakeHead, Goto
  <1>5. LockInv'
    BY <1>2, <1>3, Alone DEF LockInv, Locked
  <1>6. pc'[w] = "write" /\ Parses(file) => Continues(ev'[w], file)
    <2>1. CASE Remembered(w)
      <3>1. Parses(file) => kopf[w] = HeadOf(file)
        BY <2>1 DEF Remembered, SafeInv, CacheInv
      <3>2. ev'[w] = MakeEvent(kopf[w], todo[w][1])
        BY <2>1 DEF TakeHead, SafeInv
      <3> QED
        BY <3>1, <3>2 DEF MakeEvent, Continues
    <2>2. CASE ~Remembered(w) /\ Parses(file)
      <3>1. ev'[w] = MakeEvent(HeadOf(file), todo[w][1])
        BY <2>2 DEF TakeHead, SafeInv
      <3> QED
        BY <3>1 DEF MakeEvent, Continues
    <2> QED
      BY <2>1, <2>2
  <1>7. WriteInv'
    <2> SUFFICES ASSUME NEW v \in Writers
                 PROVE  /\ pc'[v] = "write" /\ Parses(file) => Continues(ev'[v], file)
                        /\ pc'[v] \notin {"writing", "sync"}
      BY <1>2 DEF WriteInv, Written, Continues
    <2> QED
      BY <1>3, <1>4, <1>6 DEF Locked
  <1>8. CacheInv'
    <2>1. \A v \in Writers : pc'[v] # "writing"
      BY <1>3, <1>4 DEF Locked
    <2>2. \A v \in Writers \ {w} : kopf'[v] = kopf[v] /\ groesse'[v] = groesse[v]
      BY DEF SafeInv, TakeHead, cache
    <2>3. \/ kopf'[w] = kopf[w] /\ groesse'[w] = groesse[w]
          \/ kopf'[w] = HeadOf(file) /\ groesse'[w] = Len(file)
      BY DEF SafeInv, TakeHead, cache
    <2>4. Len(file) \in Nat
      BY DEF SafeInv
    <2>5. ASSUME NEW v \in Writers, kopf'[v] # None
          PROVE  /\ groesse'[v] <= Len(file)
                 /\ groesse'[v] = Len(file) /\ Parses(file) => kopf'[v] = HeadOf(file)
      <3>1. CASE kopf'[v] = kopf[v] /\ groesse'[v] = groesse[v]
        BY <2>5, <3>1 DEF SafeInv, CacheInv
      <3>2. CASE kopf'[v] = HeadOf(file) /\ groesse'[v] = Len(file)
        BY <2>4, <3>2
      <3> QED
        BY <2>2, <2>3, <3>1, <3>2
    <2> QED
      BY <1>2, <2>1, <2>5 DEF CacheInv
  <1>9. ChainTo(file)'
    BY <1>2 DEF SafeInv, ChainTo, FollowsAt
  <1> QED
    BY <1>1, <1>5, <1>7, <1>8, <1>9 DEF SafeInv

LEMMA SafeStartWrite ==
    ASSUME SafeInv, NEW w \in Writers, StartWrite(w)
    PROVE  SafeInv'
  <1> USE DEF TypeInv, TypeOK
  <1>1. TypeInv'
    BY TypeOperate DEF SafeInv, Operate
  <1>2. pc[w] = "write" /\ lock' = lock /\ ev' = ev /\ kopf' = kopf /\ groesse' = groesse
    BY DEF StartWrite, local, cache
  <1>3. pc' = [pc EXCEPT ![w] = "writing"]
    BY DEF StartWrite, Goto
  <1>4. \A v \in Writers \ {w} : pc'[v] = pc[v] /\ pc[v] \notin Locked
    BY <1>2, <1>3, Alone DEF SafeInv, Locked
  <1>5. PICK place \in Cuts : file' = Append(file, Cut(place, ev[w]))
    BY DEF StartWrite
  <1> DEFINE x == Cut(place, ev[w])
  <1>6. x \in Chunk /\ (IsEvent(x) => x = ev[w]) /\ ev[w] \in Event /\ x # Newline
    BY <1>2, CutFact DEF SafeInv, WorkInv, Writing
  <1> HIDE DEF x
  <1>8. /\ file \in Seq(Chunk) /\ file' = Append(file, x)
        /\ Len(file') = Len(file) + 1 /\ file'[Len(file')] = x
        /\ SubSeq(file', 1, Len(file') - 1) = file
    BY <1>5, <1>6 DEF SafeInv, x
  <1>9. Parses(file) => Continues(ev[w], file)
    BY <1>2 DEF SafeInv, WriteInv
  <1>10. ChainTo(file)'
    <2>1. IsEvent(x) /\ Parses(file) => Continues(x, file)
      BY <1>6, <1>9
    <2>2. ChainTo(Append(file, x))
      BY <1>6, <1>8, <2>1, ExtendChain DEF SafeInv
    <2> QED
      BY <1>8, <2>2 DEF ChainTo, FollowsAt
  <1>11. LockInv'
    BY <1>2, <1>3, <1>4, Alone DEF SafeInv, LockInv, Locked
  <1>12. WriteInv'
    <2> SUFFICES ASSUME NEW v \in Writers
                 PROVE  /\ pc'[v] \notin {"write", "sync"}
                        /\ pc'[v] = "writing" =>
                              /\ Len(file') >= 1
                              /\ Parses(Written') => Continues(ev'[v], Written')
                              /\ file'[Len(file')] # Newline
                              /\ IsEvent(file'[Len(file')]) => file'[Len(file')] = ev'[v]
      BY DEF WriteInv, Continues, Newline
    <2>1. CASE v # w
      BY <2>1, <1>4 DEF Locked
    <2>2. CASE v = w
      <3>1. Len(file') >= 1
        BY <1>8
      <3>2. Written' = file
        BY <1>8 DEF Written
      <3>3. pc'[v] = "writing"
        BY <2>2, <1>3 DEF SafeInv
      <3> QED
        BY <1>2, <1>6, <1>8, <1>9, <2>2, <3>1, <3>2, <3>3
    <2> QED
      BY <2>1, <2>2
  <1>13. CacheInv'
    <2>1. Len(file) \in Nat /\ \A v \in Writers : groesse[v] \in Nat
      BY <1>8 DEF SafeInv
    <2> QED
      BY <1>2, <1>8, <2>1 DEF SafeInv, CacheInv
  <1> QED
    BY <1>1, <1>10, <1>11, <1>12, <1>13 DEF SafeInv
LEMMA SafeFinishWrite ==
    ASSUME SafeInv, NEW w \in Writers, FinishWrite(w)
    PROVE  SafeInv'
  <1> USE DEF TypeInv, TypeOK
  <1>1. TypeInv'
    BY TypeOperate DEF SafeInv, Operate
  <1>2. /\ pc[w] = "writing" /\ lock' = lock /\ ev' = ev /\ kopf' = kopf /\ groesse' = groesse
        /\ pc' = [pc EXCEPT ![w] = "sync"]
        /\ file' = [file EXCEPT ![Len(file)] = ev[w]] \o <<Newline>>
    BY DEF FinishWrite, local, cache, Goto
  <1>3. \A v \in Writers \ {w} : pc'[v] = pc[v] /\ pc[v] \notin Locked
    BY <1>2, Alone DEF SafeInv, Locked
  <1>4. /\ file \in Seq(Chunk) /\ Len(file) \in Nat /\ Len(file) >= 1
        /\ Parses(Written) => Continues(ev[w], Written)
    BY <1>2 DEF SafeInv, WriteInv
  <1>5. ev[w] \in Event /\ ev[w] \in Chunk /\ IsEvent(ev[w]) /\ Newline \in Chunk /\ ~IsEvent(Newline)
    BY <1>2, ChunkCases DEF SafeInv, WorkInv, Writing
  <1>6. /\ Written \in Seq(Chunk) /\ Len(Written) = Len(file) - 1
        /\ \A i \in 1..(Len(file) - 1) : Written[i] = file[i]
    <2>1. Len(file) - 1 \in 0..Len(file)
      BY <1>4
    <2> QED
      BY <1>4, <2>1, StartOfFile DEF Written
  <1>7. /\ file' \in Seq(Chunk) /\ Len(file') = Len(file) + 1
        /\ file'[Len(file)] = ev[w] /\ file'[Len(file) + 1] = Newline
        /\ \A i \in 1..(Len(file) - 1) : file'[i] = file[i]
    BY <1>1, <1>2, <1>4
  <1>8. ChainTo(file)'
    <2> DEFINE one == Append(Written, ev[w])
               two == Append(one, Newline)
    <2>1. ChainTo(Written)
      <3>1. Len(Written) <= Len(file) /\ \A i \in 1..Len(Written) : file[i] = Written[i]
        BY <1>4, <1>6
      <3>2. ChainTo(file)
        BY DEF SafeInv
      <3> QED
        BY <1>4, <1>6, <3>1, <3>2, PrefixChain
    <2>2. one \in Seq(Chunk) /\ ChainTo(one)
      BY <1>4, <1>5, <1>6, <2>1, ExtendChain
    <2>3. two \in Seq(Chunk) /\ ChainTo(two)
      <3> HIDE DEF one
      <3> QED
        BY <1>5, <2>2, ExtendChain
    <2>4. two = file'
      <3>1. Len(two) = Len(file') /\ \A i \in 1..Len(two) : two[i] = file'[i]
        BY <1>4, <1>5, <1>6, <1>7
      <3> HIDE DEF two
      <3> QED
        BY <1>7, <2>3, <3>1
    <2> QED
      BY <2>3, <2>4 DEF ChainTo, FollowsAt
  <1>9. LockInv'
    BY <1>2, <1>3, Alone DEF SafeInv, LockInv, Locked
  <1>10. Parses(file') => HeadOf(file') = HeadAfter(ev[w])
    <2> SUFFICES ASSUME Parses(file') PROVE HeadOf(file') = HeadAfter(ev[w])
      OBVIOUS
    <2>1. EndsClean(file')
      BY <1>5, <1>7 DEF Parses
    <2>2. 2 * LineCount(file') - 1 = Len(file)
      BY <1>7, <1>4, <2>1 DEF EndsClean
    <2>3. Line(file', LineCount(file')) = ev[w]
      BY <1>7, <2>2 DEF Line
    <2> QED
      BY <1>4, <1>7, <2>3 DEF HeadOf
  <1>11. WriteInv'
    <2> SUFFICES ASSUME NEW v \in Writers
                 PROVE  /\ pc'[v] \notin {"write", "writing"}
                        /\ pc'[v] = "sync" =>
                              /\ Len(file') >= 1
                              /\ Parses(file') => HeadOf(file') = HeadAfter(ev'[v])
      BY DEF WriteInv, Continues, Newline
    <2>1. CASE v # w
      BY <2>1, <1>3 DEF Locked
    <2>2. CASE v = w
      <3>1. pc'[v] = "sync" /\ ev'[v] = ev[w]
        BY <1>2, <2>2 DEF SafeInv
      <3> QED
        BY <1>4, <1>7, <1>10, <3>1
    <2> QED
      BY <2>1, <2>2
  <1>12. CacheInv'
    <2>1. \A v \in Writers : kopf[v] # None => groesse[v] < Len(file) /\ groesse[v] \in Nat
      BY <1>2 DEF SafeInv, CacheInv
    <2> QED
      BY <1>2, <1>4, <1>7, <2>1 DEF CacheInv
  <1> QED
    BY <1>1, <1>8, <1>9, <1>11, <1>12 DEF SafeInv

LEMMA SafeSync ==
    ASSUME SafeInv, NEW w \in Writers, Sync(w)
    PROVE  SafeInv'
  <1> USE DEF TypeInv, TypeOK
  <1>1. TypeInv'
    BY TypeOperate DEF SafeInv, Operate
  <1>2. /\ pc[w] = "sync" /\ lock' = lock /\ file' = file
        /\ kopf' = [kopf EXCEPT ![w] = HeadAfter(ev[w])]
        /\ groesse' = [groesse EXCEPT ![w] = Len(file)]
    BY DEF Sync
  <1>3. \A v \in Writers \ {w} : pc'[v] = pc[v] /\ pc[v] \notin Locked
    BY <1>2, Alone DEF SafeInv, Sync, Skip, Goto, Locked
  <1>4. pc'[w] \in {"scan", "release"}
    BY DEF SafeInv, Sync, Skip, Goto
  <1>5. LockInv'
    BY <1>2, <1>3, Alone DEF SafeInv, LockInv, Locked
  <1>6. \A v \in Writers : pc'[v] \notin Writing
    BY <1>3, <1>4 DEF Locked, Writing
  <1>7. WriteInv'
    BY <1>6 DEF WriteInv, Writing, Continues, Newline
  <1>8. CacheInv'
    <2>1. Len(file) \in Nat
      BY DEF SafeInv
    <2>2. Parses(file) => HeadOf(file) = HeadAfter(ev[w])
      BY <1>2 DEF SafeInv, WriteInv
    <2>3. ASSUME NEW v \in Writers, kopf'[v] # None
          PROVE  /\ groesse'[v] <= Len(file)
                 /\ groesse'[v] = Len(file) /\ Parses(file) => kopf'[v] = HeadOf(file)
      BY <1>2, <2>1, <2>2, <2>3 DEF SafeInv, CacheInv
    <2> QED
      BY <1>2, <1>6, <2>3 DEF CacheInv, Writing
  <1>9. ChainTo(file)'
    BY <1>2 DEF SafeInv, ChainTo, FollowsAt
  <1> QED
    BY <1>1, <1>5, <1>7, <1>8, <1>9 DEF SafeInv
LEMMA SafeFault ==
    ASSUME SafeInv, NEW w \in Writers, ShortWrite(w) \/ OsError(w) \/ Kill(w)
    PROVE  SafeInv'
  <1> USE DEF TypeInv, TypeOK
  <1>1. TypeInv'
    BY TypeFault DEF SafeInv
  <1>2. CASE ShortWrite(w)
    <2>1. /\ pc[w] = "writing" /\ lock' = lock /\ file' = file /\ ev' = ev
          /\ kopf' = kopf /\ groesse' = groesse
          /\ pc' = [pc EXCEPT ![w] = "sync"]
      BY <1>2 DEF ShortWrite, Goto, local, cache
    <2>2. \A v \in Writers \ {w} : pc'[v] = pc[v] /\ pc[v] \notin Locked
      BY <2>1, Alone DEF SafeInv, Locked
    <2>3. LockInv'
      BY <2>1, <2>2, Alone DEF SafeInv, LockInv, Locked
    <2>4. /\ file \in Seq(Chunk) /\ Len(file) \in Nat /\ Len(file) >= 1
          /\ file[Len(file)] # Newline
          /\ IsEvent(file[Len(file)]) => file[Len(file)] = ev[w]
      BY <2>1 DEF SafeInv, WriteInv
    <2>5. Parses(file) => HeadOf(file) = HeadAfter(ev[w])
      <3> SUFFICES ASSUME Parses(file) PROVE HeadOf(file) = HeadAfter(ev[w])
        OBVIOUS
      <3> DEFINE n == LineCount(file)
      <3>1. n \in Nat /\ (Len(file) = 2 * n \/ Len(file) = 2 * n - 1)
        BY <2>4, LineBounds
      <3>2. ~EndsClean(file)
        <4> SUFFICES ASSUME EndsClean(file) PROVE FALSE
          OBVIOUS
        <4>1. n \in 1..n /\ Len(file) = 2 * n
          BY <2>4, <3>1 DEF EndsClean
        <4>2. WholeLines(file, n)
          BY DEF Parses
        <4>3. file[2 * n] = Newline
          BY <4>1, <4>2 DEF WholeLines
        <4> QED
          BY <2>4, <4>1, <4>3
      <3>3. 2 * n - 1 = Len(file)
        BY <3>1, <3>2 DEF EndsClean
      <3>4. file[Len(file)] = ev[w]
        BY <2>4, <3>2 DEF Parses
      <3>5. Line(file, n) = ev[w]
        BY <3>3, <3>4 DEF Line
      <3> QED
        BY <2>4, <3>5 DEF HeadOf
    <2>6. WriteInv'
      <3> SUFFICES ASSUME NEW v \in Writers
                   PROVE  /\ pc'[v] \notin {"write", "writing"}
                          /\ pc'[v] = "sync" =>
                                /\ Len(file') >= 1
                                /\ Parses(file') => HeadOf(file') = HeadAfter(ev'[v])
        BY DEF WriteInv, Continues, Newline
      <3>1. CASE v # w
        BY <3>1, <2>2 DEF Locked
      <3>2. CASE v = w
        BY <2>1, <2>4, <2>5, <3>2 DEF SafeInv
      <3> QED
        BY <3>1, <3>2
    <2>7. CacheInv'
      BY <2>1, <2>2 DEF SafeInv, CacheInv, Locked
    <2> QED
      BY <1>1, <2>1, <2>3, <2>6, <2>7 DEF SafeInv, ChainTo, FollowsAt
  <1>3. CASE OsError(w)
    <2>1. /\ UNCHANGED <<file, lock, ev, kopf, groesse>>
          /\ pc' = [pc EXCEPT ![w] = "release"] /\ pc[w] \in {"write", "sync"}
      BY <1>3 DEF OsError, Goto, local, cache
    <2>2. LockInv'
      BY <2>1 DEF SafeInv, LockInv, Locked
    <2>3. \A v \in Writers : pc'[v] \notin Writing \/ (pc'[v] = pc[v] /\ ev'[v] = ev[v])
      BY <2>1 DEF SafeInv, Writing
    <2> QED
      BY <1>1, <2>1, <2>2, <2>3, SafeQuiet
  <1>4. CASE Kill(w)
    <2>1. /\ file' = file
          /\ lock' = IF lock = w THEN None ELSE lock
          /\ pc' = [pc EXCEPT ![w] = "idle"]
          /\ ev' = [ev EXCEPT ![w] = None]
          /\ kopf' = [kopf EXCEPT ![w] = None]
          /\ groesse' = [groesse EXCEPT ![w] = 0]
      BY <1>4 DEF Kill
    <2>2. \A v \in Writers : pc'[v] = "idle" \/ (v # w /\ pc'[v] = pc[v] /\ ev'[v] = ev[v])
      BY <2>1 DEF SafeInv
    <2>3. LockInv'
      BY <2>1, <2>2 DEF SafeInv, LockInv, Locked
    <2>4. WriteInv'
      BY <2>1, <2>2 DEF SafeInv, WriteInv, Written, Continues, Newline
    <2>5. CacheInv'
      BY <2>1, <2>2 DEF SafeInv, CacheInv
    <2> QED
      BY <1>1, <2>1, <2>3, <2>4, <2>5 DEF SafeInv, ChainTo, FollowsAt
  <1> QED
    BY <1>2, <1>3, <1>4

LEMMA SafePowerLoss ==
    ASSUME SafeInv, PowerLoss
    PROVE  SafeInv'
  <1>1. TypeInv'
    BY TypePowerLoss DEF SafeInv
  <1>2. ChainTo(file)'
    <2>1. PICK k \in 0..Len(file) :
               \/ file' = SubSeq(file, 1, k)
               \/ \E x \in Piece : file' = Append(SubSeq(file, 1, k), x)
      BY PowerLossFile DEF SafeInv
    <2> DEFINE g == SubSeq(file, 1, k)
    <2>2. file \in Seq(Chunk) /\ ChainTo(file)
      BY DEF SafeInv, TypeInv, TypeOK
    <2>3. /\ g \in Seq(Chunk) /\ Len(g) = k /\ Len(g) <= Len(file)
          /\ \A i \in 1..Len(g) : file[i] = g[i]
      BY <2>2, StartOfFile
    <2> HIDE DEF g
    <2>4. ChainTo(g)
      BY <2>2, <2>3, PrefixChain
    <2>5. \A x \in Piece : ChainTo(Append(g, x))
      BY <2>3, <2>4, ChunkCases, ExtendChain
    <2>6. ChainTo(file')
      BY <2>1, <2>4, <2>5 DEF g
    <2> QED
      BY <2>6 DEF ChainTo, FollowsAt
  <1>3. LockInv' /\ WriteInv' /\ CacheInv'
    BY DEF PowerLoss, LockInv, Locked, WriteInv, CacheInv
  <1> QED
    BY <1>1, <1>2, <1>3 DEF SafeInv

LEMMA SafeNext ==
    ASSUME SafeInv, [Next]_vars
    PROVE  SafeInv'
  <1>1. TypeInv'
    BY TypeNext DEF SafeInv
  <1>2. CASE UNCHANGED vars
    <2>1. LockInv' /\ UNCHANGED <<file, kopf, groesse, pc, ev>>
      BY <1>2 DEF vars, SafeInv, LockInv
    <2> QED
      BY <1>1, <2>1, SafeQuiet
  <1>3. ASSUME NEW r \in Readers, Read(r) PROVE SafeInv'
    <2>1. LockInv' /\ UNCHANGED <<file, kopf, groesse, pc, ev>>
      BY <1>3 DEF Read, SafeInv, LockInv, local, cache
    <2> QED
      BY <1>1, <2>1, SafeQuiet
  <1> QED
    BY <1>2, <1>3, SafeStart, SafeLocking, SafeTakeHead, SafeStartWrite, SafeFinishWrite,
       SafeSync, SafeFault, SafePowerLoss
    DEF Next, Operate

THEOREM SafeInvariant == Spec => []SafeInv
  BY SafeInit, SafeNext, PTL DEF Spec

(* At most one process is between the lock and its release. *)
THEOREM OneAtATime == Spec => [](\A v, w \in Writers : pc[v] \in Locked /\ pc[w] \in Locked => v = w)
  <1>1. SafeInv => \A v, w \in Writers : pc[v] \in Locked /\ pc[w] \in Locked => v = w
    BY DEF SafeInv, LockInv
  <1> QED
    BY <1>1, SafeInvariant, PTL

(* However many processes write, die, fail or write short, and wherever a  *)
(* power loss cuts the file: what is readable is one unbroken chain.       *)
THEOREM ChainCorrect == Spec => []ReadableIsChain
  <1>1. SafeInv => ReadableIsChain
    BY ChainIsReadable DEF SafeInv
  <1> QED
    BY <1>1, SafeInvariant, PTL

(* A remembered head that passes the size test is the head of the file, so *)
(* that no append chains to a line that is not the last one.               *)
THEOREM HeadCorrect == Spec => []RememberedHeadIsHead
  <1>1. SafeInv => RememberedHeadIsHead
    BY DEF SafeInv, CacheInv, RememberedHeadIsHead, Remembered
  <1> QED
    BY <1>1, SafeInvariant, PTL
=============================================================================
