-------------------------- MODULE JournalPromises --------------------------
(***************************************************************************)
(* What the journal promises its callers, proved for every set of writers  *)
(* and readers and every bound: an acknowledged event is not lost without  *)
(* a sign of it, and the file implements the abstract log of EventLog.     *)
(***************************************************************************)
EXTENDS JournalProofs, FiniteSetTheorems

-----------------------------------------------------------------------------
(* Parsing, line by line.                                                  *)

Ended(f, i) == IsEvent(f[2 * i - 1]) /\ (2 * i <= Len(f) => f[2 * i] = Newline)

LEMMA ParsesByLine ==
    ASSUME NEW f \in Seq(Chunk)
    PROVE  Parses(f) <=> \A i \in 1..LineCount(f) : Ended(f, i)
  <1> DEFINE n == LineCount(f)
  <1>1. n \in Nat /\ (Len(f) = 2 * n \/ Len(f) = 2 * n - 1) /\ Len(f) \in Nat
    BY LineBounds
  <1>2. CASE Len(f) = 2 * n
    <2>1. Parses(f) <=> \A i \in 1..n : IsEvent(f[2 * i - 1]) /\ f[2 * i] = Newline
      BY <1>1, <1>2 DEF Parses, EndsClean, WholeLines
    <2>2. \A i \in 1..n : 2 * i <= Len(f)
      BY <1>1, <1>2
    <2> HIDE DEF n
    <2>3. Parses(f) <=> \A i \in 1..n : Ended(f, i)
      BY <2>1, <2>2 DEF Ended
    <2> QED
      BY <2>3 DEF n
  <1>3. CASE Len(f) = 2 * n - 1
    <2>1. /\ 2 * (n - 1) <= Len(f) /\ n >= 1
          /\ Parses(f) <=> WholeLines(f, n - 1) /\ IsEvent(f[2 * n - 1])
      BY <1>1, <1>3 DEF Parses, EndsClean
    <2>2. \A i \in 1..(n - 1) : 2 * i <= Len(f)
      BY <1>1, <1>3
    <2>3. \A i \in 1..n : i \in 1..(n - 1) \/ i = n
      BY <1>1
    <2>4. ~(2 * n <= Len(f)) /\ n \in 1..n /\ \A i \in 1..(n - 1) : i \in 1..n
      BY <1>1, <1>3, <2>1
    <2> HIDE DEF n
    <2>5. Parses(f) <=> \A i \in 1..n : Ended(f, i)
      BY <2>1, <2>2, <2>3, <2>4, Zenon DEF Ended, WholeLines
    <2> QED
      BY <2>5 DEF n
  <1> QED
    BY <1>1, <1>2, <1>3

(* The start of a file that parses parses, and has the same lines. *)
LEMMA StartParses ==
    ASSUME NEW f \in Seq(Chunk), NEW g \in Seq(Chunk), Len(f) <= Len(g),
           \A i \in 1..Len(f) : g[i] = f[i]
    PROVE  /\ LineCount(f) \in 0..LineCount(g) /\ LineCount(g) \in Nat
           /\ \A i \in 1..LineCount(f) : Line(f, i) = Line(g, i) /\ 2 * i <= Len(f) + 1
           /\ Parses(g) => Parses(f)
  <1> DEFINE m == LineCount(f)  n == LineCount(g)
  <1>1. /\ m \in Nat /\ (Len(f) = 2 * m \/ Len(f) = 2 * m - 1) /\ Len(f) \in Nat
        /\ n \in Nat /\ (Len(g) = 2 * n \/ Len(g) = 2 * n - 1) /\ Len(g) \in Nat
    BY LineBounds
  <1> HIDE DEF m, n
  <1>2. m <= n
    BY <1>1
  <1>3. \A i \in 1..m : 2 * i - 1 \in 1..Len(f) /\ (2 * i <= Len(f) => 2 * i \in 1..Len(f) /\ 2 * i <= Len(g))
    BY <1>1
  <1>4. \A i \in 1..m : f[2 * i - 1] = g[2 * i - 1] /\ (2 * i <= Len(f) => f[2 * i] = g[2 * i])
    BY <1>3
  <1>5. (\A i \in 1..n : Ended(g, i)) => \A i \in 1..m : Ended(f, i)
    BY <1>1, <1>2, <1>3, <1>4 DEF Ended
  <1>6. Parses(g) => Parses(f)
    BY <1>5, ParsesByLine DEF m, n
  <1>7. \A i \in 1..m : Line(f, i) = Line(g, i) /\ 2 * i <= Len(f) + 1
    BY <1>1, <1>3, <1>4 DEF Line
  <1> QED
    BY <1>1, <1>2, <1>6, <1>7 DEF m, n

(* Every line of a file that parses is an event and is readable. *)
LEMMA ParsedLines ==
    ASSUME NEW f \in Seq(Chunk), Parses(f)
    PROVE  \A i \in 1..LineCount(f) : Line(f, i) \in Event /\ i \in Readable(f)
  <1> DEFINE n == LineCount(f)
  <1>1. n \in Nat /\ (Len(f) = 2 * n \/ Len(f) = 2 * n - 1) /\ Len(f) \in Nat
    BY LineBounds
  <1>2. \A i \in 1..n : Ended(f, i)
    BY ParsesByLine
  <1> HIDE DEF n
  <1>3. ASSUME NEW i \in 1..n
        PROVE  Line(f, i) \in Event /\ GoodLine(f, i)
    <2>1. 2 * i - 1 \in 1..Len(f) /\ IsEvent(f[2 * i - 1])
      BY <1>1, <1>2 DEF Ended
    <2>2. f[2 * i - 1] \in Event
      BY <2>1, ChunkCases
    <2>3. 2 * (i - 1) <= Len(f) /\ \A k \in 1..(i - 1) : k \in 1..n /\ 2 * k <= Len(f)
      BY <1>1
    <2>4. WholeLines(f, i - 1)
      BY <1>2, <2>3, Zenon DEF WholeLines, Ended
    <2> QED
      BY <1>2, <2>2, <2>4 DEF GoodLine, Line, Ended
  <1> QED
    BY <1>3 DEF Readable, n

(* A head commits to the event it is the head after. *)
LEMMA HeadCommits ==
    ASSUME NEW e \in Event, NEW f \in Event, HeadAfter(e) = HeadAfter(f)
    PROVE  e = f
  <1> DEFINE c == [kind |-> e.kind, val |-> e.val]
             d == [kind |-> f.kind, val |-> f.val]
  <1>1. e.seq = f.seq /\ Append(e.prev, c) = Append(f.prev, d)
    BY DEF HeadAfter, Digest
  <1>2. e.prev \in Seq(Content) /\ f.prev \in Seq(Content)
    BY DEF Event
  <1>3. c \in Content /\ d \in Content
    BY DEF Event, Content
  <1> HIDE DEF c, d
  <1>4. e.prev = f.prev /\ c = d
    <2>1. Len(e.prev) = Len(f.prev)
      BY <1>1, <1>2, <1>3
    <2>2. \A i \in 1..Len(e.prev) : e.prev[i] = Append(e.prev, c)[i] /\ f.prev[i] = Append(f.prev, d)[i]
      BY <1>2, <1>3, <2>1
    <2>3. Append(e.prev, c)[Len(e.prev) + 1] = c /\ Append(f.prev, d)[Len(f.prev) + 1] = d
      BY <1>2, <1>3
    <2> QED
      BY <1>1, <1>2, <2>1, <2>2, <2>3
  <1>5. e.kind = f.kind /\ e.val = f.val
    BY <1>4 DEF c, d
  <1> QED
    BY <1>1, <1>4, <1>5 DEF Event

-----------------------------------------------------------------------------
(* What is durable is never touched again: no step changes the first       *)
(* durable chunks of the file, and a loss of power keeps them.             *)

KeptInv == \A w \in Writers : pc[w] = "writing" => durable < Len(file)

Grows ==
    /\ durable <= durable' /\ durable' <= Len(file')
    /\ \A i \in 1..durable : file'[i] = file[i]
    /\ durable' = durable \/ durable' = Len(file')

(* A file after the rest of a line was written. *)
LEMMA Finished ==
    ASSUME NEW f \in Seq(Chunk), Len(f) >= 1, NEW x \in Chunk, NEW y \in Chunk
    PROVE  LET g == [f EXCEPT ![Len(f)] = x] \o <<y>>
           IN  /\ g \in Seq(Chunk) /\ Len(g) = Len(f) + 1
               /\ g[Len(f)] = x /\ g[Len(f) + 1] = y
               /\ \A i \in 1..(Len(f) - 1) : g[i] = f[i]
  <1> DEFINE n == Len(f)
             h == [f EXCEPT ![n] = x]
  <1>1. n \in Nat /\ n \in 1..n /\ f \in [1..n -> Chunk] /\ \A i \in 1..(n - 1) : i \in 1..n /\ i # n
    OBVIOUS
  <1> HIDE DEF n
  <1>2. h \in [1..n -> Chunk] /\ h[n] = x /\ \A i \in 1..(n - 1) : h[i] = f[i]
    BY <1>1
  <1> HIDE DEF h
  <1>3. h \in Seq(Chunk) /\ Len(h) = n
    BY <1>1, <1>2
  <1>4. h \o <<y>> \in Seq(Chunk) /\ Len(h \o <<y>>) = n + 1 /\ (h \o <<y>>)[n + 1] = y
        /\ \A i \in 1..n : (h \o <<y>>)[i] = h[i]
    BY <1>1, <1>3
  <1>5. h \o <<y>> = [f EXCEPT ![n] = x] \o <<y>>
    BY DEF h
  <1> QED
    BY <1>1, <1>2, <1>4, <1>5 DEF n

LEMMA PowerKeeps ==
    ASSUME TypeInv, PowerLoss
    PROVE  durable <= Len(file') /\ \A i \in 1..durable : file'[i] = file[i]
  <1>1. /\ file \in Seq(Chunk) /\ Len(file) \in Nat /\ durable \in 0..Len(file)
    BY DEF TypeInv, TypeOK
  <1>2. PICK k \in durable..Len(file) : Survives(k)
    BY DEF PowerLoss
  <1> DEFINE g == SubSeq(file, 1, k)
  <1>3. g \in Seq(Chunk) /\ Len(g) = k /\ \A i \in 1..k : g[i] = file[i]
    BY <1>1, StartOfFile
  <1>4. \/ file' = g
        \/ \E x \in Piece : file' = Append(g, x)
    <2>1. \A q \in Cuts \ {"whole"} : [what |-> q] \in Piece
      BY EnvironmentAssumption DEF Piece, CutPlaces
    <2> QED
      BY <1>2, <2>1 DEF Survives
  <1> HIDE DEF g
  <1>5. k \in Int /\ durable <= k /\ durable \in Nat /\ k \in Nat
    BY <1>1
  <1>6. CASE file' = g
    BY <1>3, <1>5, <1>6
  <1>7. CASE \E x \in Piece : file' = Append(g, x)
    <2>1. PICK x \in Piece : file' = Append(g, x)
      BY <1>7
    <2>2. x \in Chunk
      BY ChunkCases
    <2>3. Len(file') = k + 1 /\ \A i \in 1..k : file'[i] = g[i]
      BY <1>3, <2>1, <2>2
    <2> QED
      BY <1>3, <1>5, <2>3
  <1> QED
    BY <1>4, <1>6, <1>7

LEMMA StepGrows ==
    ASSUME TypeInv, KeptInv, [Next]_vars
    PROVE  Grows
  <1>1. /\ file \in Seq(Chunk) /\ Len(file) \in Nat /\ durable \in 0..Len(file) /\ durable \in Nat
    BY DEF TypeInv, TypeOK
  <1>2. CASE UNCHANGED <<file, durable>>
    BY <1>1, <1>2 DEF Grows
  <1>3. ASSUME NEW w \in Writers, StartWrite(w) PROVE Grows
    <2>1. PICK place \in Cuts : file' = Append(file, Cut(place, ev[w]))
      BY <1>3 DEF StartWrite
    <2>2. Cut(place, ev[w]) \in Chunk /\ durable' = durable
      BY <1>3, CutFact DEF StartWrite, TypeInv, WorkInv, Writing
    <2> QED
      BY <1>1, <2>1, <2>2 DEF Grows
  <1>4. ASSUME NEW w \in Writers, FinishWrite(w) PROVE Grows
    <2>1. /\ file' = [file EXCEPT ![Len(file)] = ev[w]] \o <<Newline>>
          /\ durable' = durable /\ durable < Len(file)
      BY <1>4 DEF FinishWrite, KeptInv
    <2>2. ev[w] \in Chunk /\ Newline \in Chunk
      BY <1>4, ChunkCases DEF FinishWrite, TypeInv, WorkInv, Writing
    <2>3. Len(file') = Len(file) + 1 /\ \A i \in 1..(Len(file) - 1) : file'[i] = file[i]
      <3>1. Len(file) >= 1
        BY <1>1, <2>1
      <3> QED
        BY <1>1, <2>1, <2>2, <3>1, Finished
    <2> QED
      BY <1>1, <2>1, <2>3 DEF Grows
  <1>5. ASSUME NEW w \in Writers, Sync(w) PROVE Grows
    BY <1>1, <1>5 DEF Sync, Grows
  <1>6. CASE PowerLoss
    BY <1>1, <1>6, PowerKeeps, TypePowerLoss DEF PowerLoss, Grows, TypeInv, TypeOK
  <1>7. ASSUME NEW w \in Writers,
               \/ BeginAppend(w) \/ BeginAppendOnce(w) \/ BeginTransaction(w)
               \/ Lock(w) \/ Verify(w) \/ Scan(w) \/ TakeHead(w) \/ Release(w)
               \/ ShortWrite(w) \/ OsError(w) \/ Kill(w)
        PROVE  Grows
    <2>1. UNCHANGED <<file, durable>>
      BY <1>7 DEF BeginAppend, BeginAppendOnce, BeginTransaction, Begin, Lock, Verify, Scan,
         TakeHead, Release, ShortWrite, OsError, Kill
    <2> QED
      BY <1>2, <2>1
  <1>8. ASSUME NEW r \in Readers, Read(r) PROVE Grows
    BY <1>2, <1>8 DEF Read
  <1>9. CASE UNCHANGED vars
    BY <1>2, <1>9 DEF vars
  <1> QED
    BY <1>3, <1>4, <1>5, <1>6, <1>7, <1>8, <1>9 DEF Next, Operate

LEMMA KeptStep ==
    ASSUME SafeInv, KeptInv, [Next]_vars
    PROVE  KeptInv'
  <1>1. /\ file \in Seq(Chunk) /\ Len(file) \in Nat /\ durable \in 0..Len(file)
        /\ pc \in [Writers -> {"idle", "want"} \cup Locked]
    BY DEF SafeInv, TypeInv, TypeOK
  <1>2. ASSUME UNCHANGED <<file, durable>>,
               \A w \in Writers : pc'[w] = "writing" => pc[w] = "writing"
        PROVE  KeptInv'
    BY <1>2 DEF KeptInv
  <1>3. ASSUME NEW w \in Writers, StartWrite(w) PROVE KeptInv'
    <2>1. Len(file') = Len(file) + 1 /\ durable' = durable
      BY <1>1, <1>3 DEF StartWrite
    <2> QED
      BY <1>1, <2>1 DEF KeptInv
  <1>4. ASSUME NEW w \in Writers, FinishWrite(w) \/ Sync(w) PROVE KeptInv'
    <2>1. pc[w] \in Locked /\ \E l \in {"sync", "scan", "release"} : pc' = [pc EXCEPT ![w] = l]
      BY <1>4 DEF FinishWrite, Sync, Skip, Goto, Locked
    <2>2. \A v \in Writers : pc'[v] # "writing"
      BY <1>1, <2>1, Alone DEF Locked
    <2> QED
      BY <2>2 DEF KeptInv
  <1>5. CASE PowerLoss
    BY <1>5 DEF PowerLoss, KeptInv
  <1>6. ASSUME NEW w \in Writers,
               \/ BeginAppend(w) \/ BeginAppendOnce(w) \/ BeginTransaction(w)
               \/ Lock(w) \/ Verify(w) \/ Scan(w) \/ TakeHead(w) \/ Release(w)
               \/ ShortWrite(w) \/ OsError(w) \/ Kill(w)
        PROVE  KeptInv'
    <2>1. \E l \in {"idle", "want", "verify", "scan", "head", "write", "sync", "release"} :
             pc' = [pc EXCEPT ![w] = l]
      BY <1>6 DEF BeginAppend, BeginAppendOnce, BeginTransaction, Begin, Lock, FirstUnderLock,
         Verify, Scan, Skip, TakeHead, Release, ShortWrite, OsError, Kill, Goto
    <2>2. UNCHANGED <<file, durable>>
      BY <1>6 DEF BeginAppend, BeginAppendOnce, BeginTransaction, Begin, Lock, Verify, Scan,
         TakeHead, Release, ShortWrite, OsError, Kill
    <2> QED
      BY <1>1, <1>2, <2>1, <2>2
  <1>7. ASSUME NEW r \in Readers, Read(r) PROVE KeptInv'
    BY <1>2, <1>7 DEF Read
  <1>8. CASE UNCHANGED vars
    BY <1>2, <1>8 DEF vars
  <1> QED
    BY <1>3, <1>4, <1>5, <1>6, <1>7, <1>8 DEF Next, Operate

-----------------------------------------------------------------------------
(* Acknowledged events.  The durable part of the file has a line for each  *)
(* of them as long as it parses; that it stops parsing is the sign of a    *)
(* loss, since no later write and no loss of power makes it parse again.   *)

Kept == SubSeq(file, 1, durable)

AckInv == Parses(Kept) => \A e \in acked : \E i \in 1..LineCount(Kept) : Line(Kept, i) = e

LEMMA KeptIsStart ==
    ASSUME TypeOK
    PROVE  /\ Kept \in Seq(Chunk) /\ Len(Kept) = durable /\ durable \in Nat
           /\ durable <= Len(file) /\ file \in Seq(Chunk) /\ Len(file) \in Nat
           /\ \A i \in 1..durable : Kept[i] = file[i]
  BY StartOfFile DEF TypeOK, Kept

LEMMA AckStep ==
    ASSUME SafeInv, KeptInv, AckInv, [Next]_vars
    PROVE  AckInv'
  <1>1. TypeOK /\ TypeInv /\ TypeOK' /\ Grows
    BY StepGrows, TypeNext DEF SafeInv, TypeInv
  <1> DEFINE k == Kept'
  <1> SUFFICES ASSUME Parses(k)
               PROVE  \A e \in acked' : \E i \in 1..LineCount(k) : Line(k, i) = e
    <2>1. AckInv' <=> (Parses(k) => \A e \in acked' : \E i \in 1..LineCount(k) : Line(k, i) = e)
      BY DEF AckInv, Parses, WholeLines, EndsClean, LineCount, Line, IsEvent, Newline
    <2> QED
      BY <2>1
  <1>2. /\ Kept' \in Seq(Chunk) /\ Len(Kept') = durable'
        /\ \A i \in 1..durable' : Kept'[i] = file'[i]
        /\ durable' <= Len(file') /\ file' \in Seq(Chunk) /\ durable' \in Nat
    <2>1. file' \in Seq(Chunk) /\ Len(file') \in Nat /\ durable' \in 0..Len(file')
      BY <1>1 DEF TypeOK
    <2>2. Kept' = SubSeq(file', 1, durable')
      BY DEF Kept
    <2> DEFINE f == file'
               d == durable'
    <2>3. f \in Seq(Chunk) /\ Len(f) \in Nat /\ d \in 0..Len(f)
      BY <2>1
    <2> HIDE DEF k, f, d
    <2>4. /\ SubSeq(f, 1, d) \in Seq(Chunk) /\ Len(SubSeq(f, 1, d)) = d
          /\ \A i \in 1..d : SubSeq(f, 1, d)[i] = f[i]
          /\ d <= Len(f) /\ d \in Nat
      BY <2>3, StartOfFile
    <2> QED
      BY <2>2, <2>3, <2>4 DEF f, d
  <1>3. /\ Kept \in Seq(Chunk) /\ Len(Kept) <= Len(Kept')
        /\ \A i \in 1..Len(Kept) : Kept'[i] = Kept[i]
    BY <1>1, <1>2, KeptIsStart DEF Grows
  <1>4. Parses(Kept) /\ LineCount(Kept) \in 0..LineCount(Kept') /\ LineCount(Kept') \in Nat
        /\ \A i \in 1..LineCount(Kept) : Line(Kept, i) = Line(Kept', i)
    BY <1>2, <1>3, StartParses
  <1>5. \A e \in acked : \E i \in 1..LineCount(Kept') : Line(Kept', i) = e
    BY <1>4 DEF AckInv
  <1>6. ASSUME NEW w \in Writers, Sync(w), NEW e \in acked', e \notin acked
        PROVE  \E i \in 1..LineCount(Kept') : Line(Kept', i) = e
    <2>1. e = ev[w] /\ file' = file /\ durable' = Len(file) /\ pc[w] = "sync"
      BY <1>6 DEF Sync
    <2>2. Kept' = file
      BY <1>2, <2>1
    <2>3. Len(file) >= 1 /\ HeadOf(file) = HeadAfter(ev[w]) /\ ev[w] \in Event
      BY <2>1, <2>2 DEF SafeInv, WriteInv, TypeInv, WorkInv, Writing
    <2> DEFINE n == LineCount(file)
    <2>4. n \in 1..n
      BY <1>2, <2>1, <2>3, LineBounds
    <2>5. Line(file, n) \in Event
      BY <1>2, <2>1, <2>2, <2>4, ParsedLines
    <2>6. HeadAfter(Line(file, n)) = HeadAfter(ev[w])
      BY <2>3 DEF HeadOf
    <2>7. Line(file, n) = e
      BY <2>1, <2>3, <2>5, <2>6, HeadCommits
    <2> QED
      BY <2>2, <2>4, <2>7
  <1>7. CASE \A w \in Writers : ~Sync(w)
    <2>1. acked' = acked
      BY <1>7 DEF Next, Operate, vars, BeginAppend, BeginAppendOnce, BeginTransaction, Begin, Lock,
         Verify, Scan, TakeHead, StartWrite, FinishWrite, Release, ShortWrite, OsError, Kill, Read,
         PowerLoss
    <2> QED
      BY <1>5, <2>1
  <1> QED
    BY <1>5, <1>6, <1>7

(* No acknowledged event is lost without a sign: as long as the journal    *)
(* reads at all, every event whose append returned is a line of its        *)
(* durable part, whatever was killed, written short or cut since           *)
(* (journal.py _append_locked: fsync before the event is returned).        *)
THEOREM AcknowledgedSurvives == Spec => []NoSilentLoss
  <1>1. Init => SafeInv /\ KeptInv /\ AckInv
    BY SafeInit DEF Init, KeptInv, AckInv
  <1>2. SafeInv /\ KeptInv /\ AckInv /\ [Next]_vars => (SafeInv /\ KeptInv /\ AckInv)'
    BY SafeNext, KeptStep, AckStep
  <1>3. SafeInv /\ AckInv => NoSilentLoss
    <2> SUFFICES ASSUME SafeInv, AckInv, Parses(file), NEW e \in acked
                 PROVE  \E i \in Readable(file) : 2 * i <= durable + 1 /\ Line(file, i) = e
      BY DEF NoSilentLoss
    <2>1. /\ Kept \in Seq(Chunk) /\ file \in Seq(Chunk) /\ Len(Kept) <= Len(file)
          /\ \A i \in 1..Len(Kept) : file[i] = Kept[i]
          /\ Len(Kept) = durable
      BY KeptIsStart DEF SafeInv, TypeInv
    <2>2. Parses(Kept) /\ LineCount(Kept) \in 0..LineCount(file) /\ LineCount(file) \in Nat
          /\ \A i \in 1..LineCount(Kept) : Line(Kept, i) = Line(file, i) /\ 2 * i <= durable + 1
      BY <2>1, StartParses
    <2>3. PICK i \in 1..LineCount(Kept) : Line(Kept, i) = e
      BY <2>2 DEF AckInv
    <2>4. i \in 1..LineCount(file)
      BY <2>2
    <2>5. i \in Readable(file)
      BY <2>1, <2>4, ParsedLines
    <2> QED
      BY <2>2, <2>3, <2>5
  <1> QED
    BY <1>1, <1>2, <1>3, PTL DEF Spec

-----------------------------------------------------------------------------
(* The file implements EventLog, provided that a write that is cut shows   *)
(* it: none is cut right before its newline, where the next line would be  *)
(* glued to it, and none is short without an error.                        *)

CutsShow == "whole" \notin Cuts /\ "short" \notin Faults

Half(n) == n \div 2

LEMMA HalfFact ==
    ASSUME NEW n \in Nat
    PROVE  /\ Half(n) \in Nat
           /\ n = 2 * Half(n) \/ n = 2 * Half(n) + 1
  BY DEF Half

(* A file of whole lines, then at most a piece of one. *)
Formed(f) ==
    /\ \A i \in 1..Half(Len(f)) : IsEvent(f[2 * i - 1]) /\ f[2 * i] = Newline
    /\ Len(f) # 2 * Half(Len(f)) => ~IsEvent(f[Len(f)])

LEMMA FormedLines ==
    ASSUME NEW f \in Seq(Chunk), Formed(f)
    PROVE  LET n == Half(Len(f))
           IN  /\ n \in Nat /\ Len(f) \in Nat
               /\ Readable(f) = 1..n
               /\ \A i \in 1..n : Line(f, i) \in Event
               /\ \A i \in 1..n : WholeLines(f, i - 1)
               /\ Parses(f) => Len(f) = 2 * n
               /\ Len(f) = 2 * n => LineCount(f) = n
  <1> DEFINE n == Half(Len(f))
             m == LineCount(f)
  <1>1. /\ n \in Nat /\ Len(f) \in Nat /\ (Len(f) = 2 * n \/ Len(f) = 2 * n + 1)
        /\ m \in Nat /\ (Len(f) = 2 * m \/ Len(f) = 2 * m - 1)
    <2>1. Len(f) \in Nat
      OBVIOUS
    <2>2. n \in Nat /\ (Len(f) = 2 * n \/ Len(f) = 2 * n + 1)
      BY <2>1, HalfFact
    <2>3. m \in Nat /\ (Len(f) = 2 * m \/ Len(f) = 2 * m - 1)
      BY LineBounds
    <2> QED
      BY <2>1, <2>2, <2>3
  <1>2. \A i \in 1..n : IsEvent(f[2 * i - 1]) /\ f[2 * i] = Newline
    BY DEF Formed
  <1>3. Len(f) # 2 * n => ~IsEvent(f[Len(f)])
    BY DEF Formed
  <1> HIDE DEF n, m
  <1>4. m = n \/ (m = n + 1 /\ Len(f) = 2 * m - 1 /\ Len(f) = 2 * n + 1)
    BY <1>1
  <1>5. \A i \in 1..n : i \in 1..m /\ 2 * i - 1 \in 1..Len(f) /\ 2 * i \in 1..Len(f)
    BY <1>1
  <1>6. \A i \in 1..(n + 1) : WholeLines(f, i - 1)
    <2> SUFFICES ASSUME NEW i \in 1..(n + 1) PROVE WholeLines(f, i - 1)
      OBVIOUS
    <2>1. 2 * (i - 1) <= Len(f) /\ \A k \in 1..(i - 1) : k \in 1..n
      BY <1>1
    <2> QED
      BY <1>2, <2>1, Zenon DEF WholeLines
  <1>7. \A i \in 1..n : i \in 1..(n + 1)
    BY <1>1
  <1>8. \A i \in 1..n : GoodLine(f, i)
    BY <1>2, <1>6, <1>7 DEF GoodLine
  <1>9. \A i \in 1..m : GoodLine(f, i) => i \in 1..n
    <2> SUFFICES ASSUME NEW i \in 1..m, GoodLine(f, i), i \notin 1..n PROVE FALSE
      OBVIOUS
    <2>1. i = m /\ m = n + 1 /\ 2 * i - 1 = Len(f) /\ Len(f) # 2 * n
      BY <1>1, <1>4
    <2> QED
      BY <1>3, <2>1 DEF GoodLine
  <1>10. Readable(f) = 1..n
    BY <1>5, <1>8, <1>9 DEF Readable, m
  <1>11. \A i \in 1..n : Line(f, i) \in Event
    BY <1>2, <1>5, ChunkCases DEF Line
  <1>12. Parses(f) => Len(f) = 2 * n
    <2> SUFFICES ASSUME Parses(f), Len(f) # 2 * n PROVE FALSE
      OBVIOUS
    <2>1. m \in 1..m /\ m = n + 1
      BY <1>1, <1>4
    <2>2. m \in Readable(f)
      BY <2>1, ParsedLines DEF m
    <2> QED
      BY <1>1, <1>10, <2>1, <2>2
  <1>13. Len(f) = 2 * n => m = n
    BY <1>1
  <1> QED
    BY <1>1, <1>6, <1>7, <1>10, <1>11, <1>12, <1>13 DEF n, m

(* What is durable of such a file, as a log. *)
LogOf(f, d) == [i \in 1..Half(d) |-> [kind |-> Line(f, i).kind, val |-> Line(f, i).val]]

LEMMA DurableShape ==
    ASSUME NEW f \in Seq(Chunk), Formed(f), NEW d \in 0..Len(f)
    PROVE  LET S == {i \in Readable(f) : 2 * i <= d}
           IN  [i \in 1..Cardinality(S) |-> [kind |-> Line(f, i).kind, val |-> Line(f, i).val]] = LogOf(f, d)
  <1> DEFINE S == {i \in Readable(f) : 2 * i <= d}
             n == Half(Len(f))
             h == Half(d)
  <1>1. /\ n \in Nat /\ (Len(f) = 2 * n \/ Len(f) = 2 * n + 1) /\ Len(f) \in Nat
        /\ d \in Nat /\ h \in Nat /\ (d = 2 * h \/ d = 2 * h + 1) /\ d <= Len(f)
    <2>1. Len(f) \in Nat /\ d \in Nat /\ d <= Len(f)
      OBVIOUS
    <2> QED
      BY <2>1, HalfFact
  <1>2. Readable(f) = 1..n
    BY FormedLines
  <1> HIDE DEF n, h
  <1>3. S = 1..h
    BY <1>1, <1>2
  <1>4. Cardinality(1..h) = h
    BY <1>1, FS_Interval
  <1> HIDE DEF S
  <1>5. Cardinality(S) = h
    BY <1>3, <1>4
  <1> QED
    BY <1>5 DEF LogOf, S, h

-----------------------------------------------------------------------------
(* The invariant behind the refinement: what each writer knows of the file *)
(* at each of its steps.                                                   *)

Lines == Half(Len(file))
Clean == Len(file) = 2 * Lines

Distinct(f, n) ==
    \A i, j \in 1..n : i < j /\ Line(f, i).kind \notin PlainKinds => ~Duplicate(Line(f, j), Line(f, i))

Fresh(w) ==
    todo[w][1].kind \notin PlainKinds => \A i \in 1..Lines : ~Duplicate(todo[w][1], Line(file, i))

Covers(w, n) ==
    mode[w] = "transaction" => \A i \in 1..n : \E j \in 1..Len(snap[w]) : snap[w][j] = Line(file, i)

Carries(w) == ev[w].kind = todo[w][1].kind /\ ev[w].val = todo[w][1].val

Task(w) ==
    /\ pc[w] \in {"write", "sync"} => Clean
    /\ pc[w] = "writing" => ~Clean
    /\ pc[w] \in {"write", "writing"} => Carries(w)
    /\ pc[w] \in {"head", "write", "writing"} => Fresh(w)
    /\ pc[w] \in {"scan", "head", "write", "writing"} => Covers(w, Lines)
    /\ pc[w] = "sync" =>
          /\ Lines >= 1 /\ Line(file, Lines) = ev[w]
          /\ durable <= Len(file) - 2
          /\ Covers(w, Lines - 1)

PlainInv == \A w \in Writers : mode[w] = "append" =>
                \A i \in 1..Len(todo[w]) : todo[w][i].kind \in PlainKinds

EvenInv == \A w \in Writers : kopf[w] # None => groesse[w] = 2 * Half(groesse[w])

TakenInv == \A e \in acked : e.seq \in 1..Half(durable)

LogInv ==
    /\ SafeInv /\ KeptInv /\ PlainInv /\ EvenInv
    /\ Formed(file) /\ Distinct(file, Lines) /\ TakenInv
    /\ \A w \in Writers : Task(w)

Tasks == {"scan", "head", "write", "writing", "sync"}

LEMMA LogTypes ==
    ASSUME LogInv
    PROVE  /\ TypeOK /\ TypeInv
           /\ file \in Seq(Chunk) /\ Len(file) \in Nat /\ durable \in 0..Len(file) /\ durable \in Nat
           /\ pc \in [Writers -> {"idle", "want"} \cup Locked]
           /\ Lines \in Nat /\ (Len(file) = 2 * Lines \/ Len(file) = 2 * Lines + 1)
           /\ Readable(file) = 1..Lines
           /\ \A i \in 1..Lines : Line(file, i) \in Event /\ WholeLines(file, i - 1)
           /\ Parses(file) => Clean
           /\ Clean => LineCount(file) = Lines
  <1>1. TypeOK /\ TypeInv
    BY DEF LogInv, SafeInv, TypeInv
  <1>2. /\ file \in Seq(Chunk) /\ Len(file) \in Nat /\ durable \in 0..Len(file) /\ durable \in Nat
        /\ pc \in [Writers -> {"idle", "want"} \cup Locked]
    BY <1>1 DEF TypeOK
  <1>3. Lines \in Nat /\ (Len(file) = 2 * Lines \/ Len(file) = 2 * Lines + 1)
    BY <1>2, HalfFact DEF Lines
  <1>4. Formed(file)
    BY DEF LogInv
  <1> QED
    BY <1>1, <1>2, <1>3, <1>4, FormedLines DEF Lines, Clean

(* A step that leaves the file alone: nobody is brought to a task, except  *)
(* by taking it over from the step itself.                                 *)
LEMMA LogQuiet ==
    ASSUME LogInv, SafeInv', KeptInv', PlainInv', UNCHANGED <<file, durable, acked>>,
           \A w \in Writers : \/ kopf'[w] = kopf[w] /\ groesse'[w] = groesse[w]
                              \/ kopf'[w] = None
                              \/ Clean /\ groesse'[w] = Len(file),
           \A w \in Writers :
               \/ pc'[w] \notin Tasks
               \/ pc'[w] = pc[w] /\ mode'[w] = mode[w] /\ todo'[w] = todo[w]
                    /\ snap'[w] = snap[w] /\ ev'[w] = ev[w]
               \/ Task(w)'
    PROVE  LogInv'
  <1>1. Lines' = Lines /\ (Clean' <=> Clean)
    BY DEF Lines, Clean
  <1>2. EvenInv'
    BY DEF LogInv, EvenInv, Clean, Lines
  <1>3. Formed(file)' /\ Distinct(file, Lines)' /\ TakenInv'
    BY <1>1 DEF LogInv, Formed, Distinct, TakenInv, Line, IsEvent, Newline, Duplicate
  <1>4. ASSUME NEW w \in Writers PROVE Task(w)'
    <2>1. CASE pc'[w] \notin Tasks
      BY <2>1 DEF Task, Tasks
    <2>2. CASE pc'[w] = pc[w] /\ mode'[w] = mode[w] /\ todo'[w] = todo[w]
                 /\ snap'[w] = snap[w] /\ ev'[w] = ev[w]
      <3>1. Task(w)
        BY DEF LogInv
      <3>2. (Carries(w) => Carries(w)') /\ (Fresh(w) => Fresh(w)')
        BY <1>1, <2>2 DEF Carries, Fresh, Line, Duplicate
      <3>3. \A n : Covers(w, n) => Covers(w, n)'
        BY <2>2 DEF Covers, Line
      <3>4. Line(file, Lines)' = Line(file, Lines)
        BY <1>1 DEF Line
      <3>5. Covers(w, Lines) => Covers(w, Lines)'
        BY <1>1, <3>3 DEF Covers, Line
      <3>6. Covers(w, Lines - 1) => Covers(w, Lines - 1)'
        BY <1>1, <3>3 DEF Covers, Line
      <3> QED
        BY <1>1, <2>2, <3>1, <3>2, <3>4, <3>5, <3>6 DEF Task
    <2> QED
      BY <2>1, <2>2
  <1> QED
    BY <1>2, <1>3, <1>4 DEF LogInv

(* A writer in append has nothing to write but what knows no duplicates. *)
LEMMA PlainStep ==
    ASSUME TypeInv, PlainInv, [Next]_vars
    PROVE  PlainInv'
  <1>1. todo \in [Writers -> Seq(Content)] /\ mode \in [Writers -> {"append", "append_once", "transaction"}]
    BY DEF TypeInv, TypeOK
  <1>2. ASSUME mode' = mode,
               \A w \in Writers : todo'[w] = todo[w] \/ todo'[w] = << >>
                   \/ (todo[w] # << >> /\ todo'[w] = Tail(todo[w]))
        PROVE  PlainInv'
    <2> SUFFICES ASSUME NEW w \in Writers, mode[w] = "append", NEW i \in 1..Len(todo'[w])
                 PROVE  todo'[w][i].kind \in PlainKinds
      BY <1>2 DEF PlainInv
    <2>1. CASE todo'[w] = todo[w]
      BY <2>1 DEF PlainInv
    <2>2. CASE todo'[w] = << >>
      BY <2>2
    <2>3. CASE todo[w] # << >> /\ todo'[w] = Tail(todo[w])
      <3>1. todo[w] \in Seq(Content) /\ i + 1 \in 1..Len(todo[w]) /\ todo'[w][i] = todo[w][i + 1]
        BY <1>1, <2>3
      <3> QED
        BY <3>1 DEF PlainInv
    <2> QED
      BY <1>2, <2>1, <2>2, <2>3
  <1>3. ASSUME NEW w \in Writers, BeginAppend(w) PROVE PlainInv'
    <2>1. PICK k \in PlainKinds, v \in Vals : Begin(w, "append", <<[kind |-> k, val |-> v]>>)
      BY <1>3 DEF BeginAppend
    <2>2. /\ mode' = [mode EXCEPT ![w] = "append"]
          /\ todo' = [todo EXCEPT ![w] = <<[kind |-> k, val |-> v]>>]
      BY <2>1 DEF Begin
    <2> QED
      BY <1>1, <2>2 DEF PlainInv
  <1>4. ASSUME NEW w \in Writers, BeginAppendOnce(w) \/ BeginTransaction(w) PROVE PlainInv'
    <2>1. ASSUME NEW m \in {"append_once", "transaction"}, NEW work \in Seq(Content), Begin(w, m, work)
          PROVE  PlainInv'
      <3>1. mode' = [mode EXCEPT ![w] = m] /\ todo' = [todo EXCEPT ![w] = work]
        BY <2>1 DEF Begin
      <3> QED
        BY <1>1, <2>1, <3>1 DEF PlainInv
    <2>2. \A c, d \in OnceContent : <<c>> \in Seq(Content) /\ <<c, d>> \in Seq(Content)
      BY DEF OnceContent
    <2> QED
      BY <1>4, <2>1, <2>2 DEF BeginAppendOnce, BeginTransaction
  <1>5. ASSUME NEW w \in Writers, Scan(w) \/ Sync(w) PROVE PlainInv'
    <2>1. todo[w] # << >>
      BY <1>5 DEF Scan, Sync, TypeInv, WorkInv, Busy
    <2>2. mode' = mode /\ (todo' = todo \/ todo' = [todo EXCEPT ![w] = Tail(todo[w])])
      BY <1>5 DEF Scan, Sync, Skip
    <2> QED
      BY <1>1, <1>2, <2>1, <2>2
  <1>6. ASSUME NEW w \in Writers, Release(w) \/ Kill(w) PROVE PlainInv'
    <2>1. mode' = mode /\ todo' = [todo EXCEPT ![w] = << >>]
      BY <1>6 DEF Release, Kill
    <2> QED
      BY <1>1, <1>2, <2>1
  <1>7. ASSUME NEW w \in Writers,
               \/ Lock(w) \/ Verify(w) \/ TakeHead(w) \/ StartWrite(w) \/ FinishWrite(w)
               \/ ShortWrite(w) \/ OsError(w)
        PROVE  PlainInv'
    <2>1. mode' = mode /\ todo' = todo
      BY <1>7 DEF Lock, Verify, TakeHead, StartWrite, FinishWrite, ShortWrite, OsError, local
    <2> QED
      BY <1>2, <2>1
  <1>8. CASE PowerLoss
    BY <1>2, <1>8 DEF PowerLoss
  <1>9. ASSUME NEW r \in Readers, Read(r) PROVE PlainInv'
    BY <1>2, <1>9 DEF Read, local
  <1>10. CASE UNCHANGED vars
    BY <1>2, <1>10 DEF vars
  <1> QED
    BY <1>3, <1>4, <1>5, <1>6, <1>7, <1>8, <1>9, <1>10 DEF Next, Operate

(* The steps before the write. *)
LEMMA LogLocking ==
    ASSUME LogInv, SafeInv', KeptInv', PlainInv', NEW w \in Writers,
           Lock(w) \/ Verify(w) \/ Scan(w) \/ TakeHead(w)
    PROVE  LogInv'
  <1> USE LogTypes
  <1>1. UNCHANGED <<file, durable, acked, mode>> /\ Lines' = Lines
    BY DEF Lock, Verify, Scan, TakeHead, local, Lines
  <1>2. ASSUME \A v \in Writers : kopf'[v] = kopf[v] /\ groesse'[v] = groesse[v],
               \A v \in Writers \ {w} : pc'[v] = pc[v] /\ todo'[v] = todo[v]
                    /\ snap'[v] = snap[v] /\ ev'[v] = ev[v],
               pc'[w] \in {"verify", "scan", "head", "release"},
               pc'[w] = "head" => Fresh(w)',
               pc'[w] \in {"scan", "head"} => Covers(w, Lines)'
        PROVE  LogInv'
    <2>1. pc'[w] \in Tasks => Task(w)'
      BY <1>2 DEF Task
    <2> QED
      BY <1>1, <1>2, <2>1, LogQuiet
  <1>3. CASE Lock(w)
    <2>1. /\ \A v \in Writers : kopf'[v] = kopf[v] /\ groesse'[v] = groesse[v]
          /\ UNCHANGED <<mode, todo, snap, ev>> /\ pc[w] = "want"
          /\ pc' = [pc EXCEPT ![w] = FirstUnderLock(mode[w])]
      BY <1>3 DEF Lock, local, cache
    <2>2. pc'[w] = FirstUnderLock(mode[w]) /\ \A v \in Writers \ {w} : pc'[v] = pc[v]
      BY <2>1
    <2>3. /\ pc'[w] \in {"verify", "scan", "head"}
          /\ pc'[w] = "head" => mode[w] = "append"
          /\ pc'[w] # "verify" => mode[w] # "transaction"
      BY <2>2 DEF FirstUnderLock, TypeOK
    <2>4. mode[w] = "append" => todo[w][1].kind \in PlainKinds
      <3>1. todo[w] # << >> /\ todo[w] \in Seq(Content)
        BY <2>1 DEF TypeInv, WorkInv, Busy, TypeOK
      <3>2. 1 \in 1..Len(todo[w])
        BY <3>1
      <3> QED
        BY <3>2 DEF LogInv, PlainInv
    <2> QED
      BY <1>2, <2>1, <2>2, <2>3, <2>4 DEF Fresh, Covers
  <1>4. CASE Verify(w)
    <2>1. /\ \A v \in Writers : kopf'[v] = kopf[v] /\ groesse'[v] = groesse[v]
          /\ UNCHANGED <<todo, ev>> /\ pc[w] = "verify"
          /\ \E l \in {"scan", "release"} : pc' = [pc EXCEPT ![w] = l]
          /\ snap' = snap \/ snap' = [snap EXCEPT ![w] = Events(file)]
          /\ pc'[w] = "scan" => Parses(file) /\ snap'[w] = Events(file)
      BY <1>4 DEF Verify, cache, Goto, TypeOK
    <2>2. pc'[w] = "scan" => Covers(w, Lines)'
      <3> SUFFICES ASSUME pc'[w] = "scan", NEW i \in 1..Lines
                   PROVE  \E j \in 1..Len(snap'[w]) : snap'[w][j] = Line(file, i)
        BY <1>1 DEF Covers, Line
      <3>1. snap'[w] = Events(file) /\ LineCount(file) = Lines
        BY <2>1
      <3>2. Len(Events(file)) = Lines /\ Events(file)[i] = Line(file, i)
        BY <3>1 DEF Events
      <3> QED
        BY <3>1, <3>2
    <2>3. /\ pc'[w] \in {"scan", "release"}
          /\ \A v \in Writers \ {w} : pc'[v] = pc[v] /\ snap'[v] = snap[v]
      BY <2>1 DEF TypeOK
    <2> QED
      BY <1>2, <2>1, <2>2, <2>3
  <1>5. CASE Scan(w)
    <2>1. /\ \A v \in Writers : kopf'[v] = kopf[v] /\ groesse'[v] = groesse[v]
          /\ UNCHANGED <<snap, ev>> /\ pc[w] = "scan"
          /\ \E l \in {"scan", "head", "release"} : pc' = [pc EXCEPT ![w] = l]
          /\ todo' = todo \/ todo' = [todo EXCEPT ![w] = Tail(todo[w])]
          /\ pc'[w] = "head" => ~FoundDuplicate(w) /\ todo' = todo
      BY <1>5 DEF Scan, Skip, cache, Goto, TypeOK
    <2>2. Covers(w, Lines) /\ Covers(w, Lines)'
      <3>1. Covers(w, Lines)
        BY <2>1 DEF LogInv, Task
      <3> QED
        BY <1>1, <2>1, <3>1 DEF Covers, Line
    <2>3. pc'[w] = "head" => Fresh(w)'
      <3> SUFFICES ASSUME ~FoundDuplicate(w), NEW i \in 1..Lines
                   PROVE  ~Duplicate(todo[w][1], Line(file, i))
        BY <1>1, <2>1 DEF Fresh, Line, Duplicate
      <3>1. Line(file, i) \in KnownEvents(w)
        <4>1. CASE mode[w] = "transaction"
          BY <2>2, <4>1 DEF Covers, KnownEvents
        <4>2. CASE mode[w] # "transaction"
          BY <4>2 DEF KnownEvents
        <4> QED
          BY <4>1, <4>2
      <3> QED
        BY <3>1 DEF FoundDuplicate
    <2>4. /\ pc'[w] \in {"scan", "head", "release"}
          /\ \A v \in Writers \ {w} : pc'[v] = pc[v] /\ todo'[v] = todo[v]
      BY <2>1 DEF TypeOK
    <2> QED
      BY <1>2, <2>1, <2>2, <2>3, <2>4
  <1>6. CASE TakeHead(w)
    <2>1. /\ pc[w] = "head" /\ UNCHANGED <<todo, snap>>
          /\ \A v \in Writers \ {w} : pc'[v] = pc[v] /\ ev'[v] = ev[v] /\ kopf'[v] = kopf[v]
                                      /\ groesse'[v] = groesse[v]
          /\ pc'[w] \in {"write", "release"}
      BY <1>6 DEF TakeHead, cache, Goto, TypeOK
    <2>2. CASE Remembered(w)
      <3>1. /\ pc'[w] = "write" /\ ev'[w] = MakeEvent(kopf[w], todo[w][1])
            /\ kopf' = kopf /\ groesse' = groesse
        BY <1>6, <2>2 DEF TakeHead, cache, Goto, TypeOK
      <3>2. Clean
        BY <2>2 DEF LogInv, EvenInv, Remembered, Clean, Lines
      <3>3. Task(w)'
        <4>1. Carries(w)'
          BY <2>1, <3>1 DEF Carries, MakeEvent
        <4>2. Fresh(w)' /\ Covers(w, Lines)' /\ Clean'
          <5>1. Fresh(w) /\ Covers(w, Lines)
            BY <2>1 DEF LogInv, Task
          <5> QED
            BY <1>1, <2>1, <3>2, <5>1 DEF Fresh, Covers, Line, Duplicate, Clean
        <4> QED
          BY <3>1, <4>1, <4>2 DEF Task
      <3> QED
        BY <1>1, <2>1, <3>1, <3>3, LogQuiet
    <2>3. CASE ~Remembered(w) /\ Parses(file)
      <3>1. /\ pc'[w] = "write" /\ ev'[w] = MakeEvent(HeadOf(file), todo[w][1])
            /\ groesse'[w] = Len(file)
        BY <1>6, <2>3 DEF TakeHead, Goto, TypeOK
      <3>2. Clean
        BY <2>3
      <3>3. Task(w)'
        <4>1. Carries(w)'
          BY <2>1, <3>1 DEF Carries, MakeEvent
        <4>2. Fresh(w)' /\ Covers(w, Lines)' /\ Clean'
          <5>1. Fresh(w) /\ Covers(w, Lines)
            BY <2>1 DEF LogInv, Task
          <5> QED
            BY <1>1, <2>1, <3>2, <5>1 DEF Fresh, Covers, Line, Duplicate, Clean
        <4> QED
          BY <3>1, <4>1, <4>2 DEF Task
      <3> QED
        BY <1>1, <2>1, <3>1, <3>2, <3>3, LogQuiet
    <2>4. CASE ~Remembered(w) /\ ~Parses(file)
      <3>1. pc'[w] = "release" /\ kopf' = kopf /\ groesse' = groesse
        BY <1>6, <2>4 DEF TakeHead, cache, Goto, TypeOK
      <3>2. pc'[w] \notin Tasks
        BY <3>1 DEF Tasks
      <3> QED
        BY <1>1, <2>1, <3>1, <3>2, LogQuiet
    <2> QED
      BY <2>2, <2>3, <2>4
  <1> QED
    BY <1>3, <1>4, <1>5, <1>6

(* While one writer is under the lock no other has a task. *)
LEMMA OthersIdle ==
    ASSUME LogInv, NEW w \in Writers, pc[w] \in Locked, NEW l, pc' = [pc EXCEPT ![w] = l]
    PROVE  pc'[w] = l /\ \A v \in Writers \ {w} : pc'[v] \notin Tasks
  <1>1. \A v \in Writers \ {w} : pc[v] \notin Locked
    BY Alone DEF LogInv
  <1> QED
    BY <1>1, LogTypes DEF Tasks, Locked

LEMMA LogStartWrite ==
    ASSUME CutsShow, LogInv, SafeInv', KeptInv', PlainInv', NEW w \in Writers, StartWrite(w)
    PROVE  LogInv'
  <1>1. /\ pc[w] = "write" /\ pc[w] \in Locked /\ pc' = [pc EXCEPT ![w] = "writing"]
        /\ UNCHANGED <<durable, mode, todo, snap, ev, kopf, groesse, acked>>
    BY DEF StartWrite, local, cache, Goto, Locked
  <1>2. pc'[w] = "writing" /\ \A v \in Writers \ {w} : pc'[v] \notin Tasks
    BY <1>1, OthersIdle
  <1>3. PICK place \in Cuts : file' = Append(file, Cut(place, ev[w]))
    BY DEF StartWrite
  <1> DEFINE x == Cut(place, ev[w])
  <1>4. x \in Chunk /\ ~IsEvent(x)
    <2>1. place \in {"half", "split"}
      BY EnvironmentAssumption DEF CutsShow, CutPlaces
    <2>2. x \in Piece
      BY <2>1 DEF Cut, Piece
    <2> QED
      BY <2>2, ChunkCases
  <1> HIDE DEF x
  <1>5. Task(w) /\ Clean /\ file \in Seq(Chunk) /\ Len(file) = 2 * Lines /\ Lines \in Nat
    BY <1>1, LogTypes DEF LogInv, Task, Clean
  <1>6. /\ Len(file') = Len(file) + 1 /\ file'[Len(file) + 1] = x
        /\ \A i \in 1..Len(file) : file'[i] = file[i]
    BY <1>3, <1>4, <1>5 DEF x
  <1>7. Lines' = Lines /\ ~Clean'
    BY <1>5, <1>6 DEF Lines, Half, Clean
  <1>8. \A i \in 1..Lines : Line(file, i)' = Line(file, i) /\ file'[2 * i] = file[2 * i]
                            /\ file'[2 * i - 1] = file[2 * i - 1]
    <2>1. \A i \in 1..Lines : 2 * i - 1 \in 1..Len(file) /\ 2 * i \in 1..Len(file)
      BY <1>5
    <2> QED
      BY <1>6, <2>1 DEF Line
  <1>9. Formed(file)'
    <2>1. \A i \in 1..Lines : IsEvent(file[2 * i - 1]) /\ file[2 * i] = Newline
      BY DEF LogInv, Formed, Lines
    <2>2. ~IsEvent(file'[Len(file')])
      BY <1>4, <1>6
    <2> QED
      BY <1>7, <1>8, <2>1, <2>2 DEF Formed, Lines, IsEvent, Newline
  <1>10. Distinct(file, Lines)'
    <2>1. Distinct(file, Lines)
      BY DEF LogInv
    <2> QED
      BY <1>7, <1>8, <2>1 DEF Distinct, Duplicate
  <1>11. EvenInv' /\ TakenInv'
    BY <1>1 DEF LogInv, EvenInv, TakenInv
  <1>12. Task(w)'
    <2>1. Carries(w)' /\ Fresh(w)' /\ Covers(w, Lines)'
      BY <1>1, <1>5, <1>7, <1>8 DEF Task, Carries, Fresh, Covers, Duplicate
    <2> QED
      BY <1>2, <1>7, <2>1 DEF Task
  <1>13. \A v \in Writers \ {w} : Task(v)'
    BY <1>2 DEF Task, Tasks
  <1> QED
    BY <1>9, <1>10, <1>11, <1>12, <1>13 DEF LogInv

LEMMA LogFinishWrite ==
    ASSUME LogInv, SafeInv', KeptInv', PlainInv', NEW w \in Writers, FinishWrite(w)
    PROVE  LogInv'
  <1>1. /\ pc[w] = "writing" /\ pc[w] \in Locked /\ pc' = [pc EXCEPT ![w] = "sync"]
        /\ UNCHANGED <<durable, mode, todo, snap, ev, kopf, groesse, acked>>
        /\ file' = [file EXCEPT ![Len(file)] = ev[w]] \o <<Newline>>
    BY DEF FinishWrite, local, cache, Goto, Locked
  <1>2. pc'[w] = "sync" /\ \A v \in Writers \ {w} : pc'[v] \notin Tasks
    BY <1>1, OthersIdle
  <1>3. ev[w] \in Event /\ ev[w] \in Chunk /\ IsEvent(ev[w]) /\ Newline \in Chunk
    BY <1>1, LogTypes, ChunkCases DEF TypeInv, WorkInv, Writing
  <1>4. /\ Task(w) /\ file \in Seq(Chunk) /\ Len(file) = 2 * Lines + 1 /\ Lines \in Nat
        /\ durable < Len(file) /\ durable \in Nat
    BY <1>1, LogTypes DEF LogInv, Task, Clean, KeptInv
  <1>5. /\ Len(file') = 2 * Lines + 2
        /\ file'[2 * Lines + 1] = ev[w] /\ file'[2 * Lines + 2] = Newline
        /\ \A i \in 1..(2 * Lines) : file'[i] = file[i]
    <2>1. Len(file) >= 1 /\ Len(file) - 1 = 2 * Lines /\ Len(file) + 1 = 2 * Lines + 2
      BY <1>4
    <2>2. /\ Len(file') = Len(file) + 1
          /\ file'[Len(file)] = ev[w] /\ file'[Len(file) + 1] = Newline
          /\ \A i \in 1..(Len(file) - 1) : file'[i] = file[i]
      BY <1>1, <1>3, <1>4, <2>1, Finished
    <2> QED
      BY <1>4, <2>1, <2>2
  <1>6. Lines' = Lines + 1 /\ Clean'
    BY <1>4, <1>5 DEF Lines, Half, Clean
  <1>7. \A i \in 1..Lines : Line(file, i)' = Line(file, i) /\ file'[2 * i] = file[2 * i]
                            /\ file'[2 * i - 1] = file[2 * i - 1]
    <2>1. \A i \in 1..Lines : 2 * i - 1 \in 1..(2 * Lines) /\ 2 * i \in 1..(2 * Lines)
      BY <1>4
    <2> QED
      BY <1>5, <2>1 DEF Line
  <1>8. Line(file', Lines + 1) = ev[w] /\ file'[2 * (Lines + 1) - 1] = ev[w] /\ file'[2 * (Lines + 1)] = Newline
    <2>1. file'[2 * (Lines + 1) - 1] = ev[w] /\ file'[2 * (Lines + 1)] = Newline
      BY <1>4, <1>5
    <2> QED
      BY <2>1 DEF Line
  <1>9. \A i \in 1..(Lines + 1) : i \in 1..Lines \/ i = Lines + 1
    BY <1>4
  <1>10. Formed(file)'
    <2>1. \A i \in 1..Lines : IsEvent(file[2 * i - 1]) /\ file[2 * i] = Newline
      BY DEF LogInv, Formed, Lines
    <2>2. \A i \in 1..(Lines + 1) : IsEvent(file'[2 * i - 1]) /\ file'[2 * i] = Newline
      BY <1>3, <1>7, <1>8, <1>9, <2>1
    <2> QED
      BY <1>6, <2>2 DEF Formed, Lines, Clean, IsEvent, Newline

  <1>11. Distinct(file, Lines)'
    <2> SUFFICES ASSUME NEW i \in 1..(Lines + 1), NEW j \in 1..(Lines + 1), i < j,
                        Line(file', i).kind \notin PlainKinds, Duplicate(Line(file', j), Line(file', i))
                 PROVE  FALSE
      BY <1>6 DEF Distinct, Duplicate, Line
    <2>1. i \in 1..Lines /\ Line(file', i) = Line(file, i)
      BY <1>4, <1>7, <1>9
    <2>2. CASE j \in 1..Lines
      <3>1. Line(file', j) = Line(file, j)
        BY <1>7, <2>2
      <3> QED
        BY <2>1, <2>2, <3>1 DEF LogInv, Distinct
    <2>3. CASE j = Lines + 1
      <3>1. Duplicate(ev[w], Line(file, i)) /\ Carries(w) /\ Fresh(w)
        BY <1>1, <1>4, <1>8, <2>1, <2>3 DEF Task
      <3>2. Duplicate(todo[w][1], Line(file, i)) /\ todo[w][1].kind = Line(file, i).kind
        BY <3>1 DEF Duplicate, Carries
      <3> QED
        BY <2>1, <3>1, <3>2 DEF Fresh
    <2> QED
      BY <1>9, <2>2, <2>3
  <1>12. EvenInv' /\ TakenInv'
    BY <1>1 DEF LogInv, EvenInv, TakenInv
  <1>13. Task(w)'
    <2>1. Lines' >= 1 /\ durable' <= Len(file') - 2 /\ Clean'
      BY <1>1, <1>4, <1>5, <1>6
    <2>2. Line(file, Lines)' = ev'[w]
      BY <1>1, <1>6, <1>8 DEF Line
    <2>3. Covers(w, Lines - 1)'
      <3>1. Covers(w, Lines) /\ Lines' - 1 = Lines
        BY <1>1, <1>4, <1>6 DEF Task
      <3> QED
        BY <1>1, <1>7, <3>1 DEF Covers
    <2> QED
      BY <1>2, <2>1, <2>2, <2>3 DEF Task
  <1>14. \A v \in Writers \ {w} : Task(v)'
    BY <1>2 DEF Task, Tasks
  <1> QED
    BY <1>10, <1>11, <1>12, <1>13, <1>14 DEF LogInv

LEMMA LogSync ==
    ASSUME LogInv, SafeInv', KeptInv', PlainInv', NEW w \in Writers, Sync(w)
    PROVE  LogInv'
  <1>1. /\ pc[w] = "sync" /\ pc[w] \in Locked
        /\ durable' = Len(file) /\ acked' = acked \cup {ev[w]}
        /\ snap' = [snap EXCEPT ![w] = Append(snap[w], ev[w])]
        /\ kopf' = [kopf EXCEPT ![w] = HeadAfter(ev[w])]
        /\ groesse' = [groesse EXCEPT ![w] = Len(file)]
        /\ UNCHANGED <<file, mode, ev>>
        /\ \E l \in {"scan", "release"} : pc' = [pc EXCEPT ![w] = l]
    BY DEF Sync, Skip, Goto, Locked
  <1>2. pc'[w] \in {"scan", "release"} /\ \A v \in Writers \ {w} : pc'[v] \notin Tasks
    BY <1>1, OthersIdle
  <1>3. /\ Lines' = Lines /\ Lines \in Nat /\ Lines >= 1 /\ Len(file) = 2 * Lines
        /\ Line(file, Lines) = ev[w] /\ Covers(w, Lines - 1)
    BY <1>1, LogTypes DEF LogInv, Task, Clean, Lines
  <1>4. ev[w] \in Event /\ snap[w] \in Seq(Event) /\ snap \in [Writers -> Seq(Event)]
    BY <1>1, LogTypes DEF TypeInv, WorkInv, Writing, TypeOK
  <1>5. EvenInv'
    <2>1. Len(file) = 2 * Half(Len(file)) /\ groesse \in [Writers -> Nat]
      BY <1>3, LogTypes DEF Lines, TypeOK
    <2> QED
      BY <1>1, <2>1, LogTypes DEF LogInv, EvenInv, TypeOK
  <1>6. TakenInv'
    <2>1. ev[w].seq = Lines
      <3>1. Lines \in 1..Lines
        BY <1>3
      <3>2. WholeLines(file, Lines - 1) /\ IsEvent(Line(file, Lines))
        BY <1>3, <1>4, <3>1, LogTypes, ChunkCases
      <3>3. Lines \in 1..LineCount(file)
        BY <1>3, <3>1, LogTypes DEF Clean
      <3>4. FollowsAt(file, Lines)
        BY <3>2, <3>3 DEF LogInv, SafeInv, ChainTo
      <3> QED
        BY <1>3, <3>4 DEF FollowsAt
    <2>2. Half(durable') = Lines /\ Half(durable) \in Nat /\ Half(durable) <= Lines
      <3>1. durable \in Nat /\ durable <= Len(file)
        BY LogTypes
      <3> QED
        BY <1>1, <1>3, <3>1, HalfFact DEF Half
    <2>3. \A e \in acked : e.seq \in 1..Lines
      BY <1>3, <2>2 DEF LogInv, TakenInv
    <2> QED
      BY <1>1, <1>3, <2>1, <2>2, <2>3 DEF TakenInv
  <1>7. Covers(w, Lines)'
    <2> SUFFICES ASSUME mode[w] = "transaction", NEW i \in 1..Lines
                 PROVE  \E j \in 1..Len(snap'[w]) : snap'[w][j] = Line(file, i)
      BY <1>1, <1>3 DEF Covers, Line
    <2>1. snap'[w] = Append(snap[w], ev[w])
      BY <1>1, <1>4
    <2>2. CASE i \in 1..(Lines - 1)
      <3>1. PICK j \in 1..Len(snap[w]) : snap[w][j] = Line(file, i)
        BY <1>3, <2>2 DEF Covers
      <3>2. j \in 1..Len(snap'[w]) /\ snap'[w][j] = snap[w][j]
        BY <1>4, <2>1
      <3> QED
        BY <3>1, <3>2
    <2>3. CASE i = Lines
      <3>1. Len(snap[w]) + 1 \in 1..Len(snap'[w]) /\ snap'[w][Len(snap[w]) + 1] = ev[w]
        BY <1>4, <2>1
      <3> QED
        BY <1>3, <2>3, <3>1
    <2> QED
      BY <1>3, <2>2, <2>3
  <1>8. Formed(file)' /\ Distinct(file, Lines)'
    <2>1. Formed(file) /\ Distinct(file, Lines)
      BY DEF LogInv
    <2> QED
      BY <1>1, <1>3, <2>1 DEF Formed, Distinct, Duplicate, Line, IsEvent, Newline
  <1>9. \A v \in Writers : Task(v)'
    BY <1>2, <1>7 DEF Task, Tasks
  <1> QED
    BY <1>5, <1>6, <1>8, <1>9 DEF LogInv

LEMMA LogOthers ==
    ASSUME LogInv, SafeInv', KeptInv', PlainInv', NEW w \in Writers,
           \/ BeginAppend(w) \/ BeginAppendOnce(w) \/ BeginTransaction(w)
           \/ Release(w) \/ OsError(w) \/ Kill(w)
    PROVE  LogInv'
  <1>1. CASE BeginAppend(w) \/ BeginAppendOnce(w) \/ BeginTransaction(w)
    <2>1. PICK m, work : Begin(w, m, work)
      BY <1>1 DEF BeginAppend, BeginAppendOnce, BeginTransaction
    <2>2. /\ pc' = [pc EXCEPT ![w] = "want"] /\ mode' = [mode EXCEPT ![w] = m]
          /\ todo' = [todo EXCEPT ![w] = work]
          /\ UNCHANGED <<file, durable, acked, snap, ev, kopf, groesse>>
      BY <2>1 DEF Begin, cache
    <2>3. pc'[w] \notin Tasks /\ \A v \in Writers \ {w} :
             pc'[v] = pc[v] /\ mode'[v] = mode[v] /\ todo'[v] = todo[v]
      BY <2>2, LogTypes DEF TypeOK, Tasks
    <2> QED
      BY <2>2, <2>3, LogQuiet
  <1>2. CASE Release(w) \/ OsError(w) \/ Kill(w)
    <2>1. /\ \E l \in {"idle", "release"} : pc' = [pc EXCEPT ![w] = l]
          /\ todo' \in {todo, [todo EXCEPT ![w] = << >>]}
          /\ snap' \in {snap, [snap EXCEPT ![w] = << >>]}
          /\ ev' \in {ev, [ev EXCEPT ![w] = None]}
          /\ \/ kopf' = kopf /\ groesse' = groesse
             \/ kopf' = [kopf EXCEPT ![w] = None] /\ groesse' = [groesse EXCEPT ![w] = 0]
          /\ UNCHANGED <<file, durable, acked, mode>>
      BY <1>2 DEF Release, OsError, Kill, Goto, local, cache
    <2>2. pc'[w] \notin Tasks /\ \A v \in Writers \ {w} :
             pc'[v] = pc[v] /\ todo'[v] = todo[v] /\ snap'[v] = snap[v] /\ ev'[v] = ev[v]
      BY <2>1, LogTypes DEF TypeOK, Tasks
    <2>3. \A v \in Writers : (kopf'[v] = kopf[v] /\ groesse'[v] = groesse[v]) \/ kopf'[v] = None
      BY <2>1, LogTypes DEF TypeOK
    <2> QED
      BY <2>1, <2>2, <2>3, LogQuiet
  <1> QED
    BY <1>1, <1>2

(* What a loss of power leaves is whole lines and at most a piece. *)
LEMMA PowerShape ==
    ASSUME CutsShow, LogInv, PowerLoss
    PROVE  /\ Formed(file') /\ file' \in Seq(Chunk)
           /\ Half(Len(file')) \in 0..Lines
           /\ \A i \in 1..Half(Len(file')) : Line(file', i) = Line(file, i)
  <1> USE LogTypes
  <1>1. PICK k \in durable..Len(file) : Survives(k)
    BY DEF PowerLoss
  <1>2. k \in Nat /\ k <= Len(file) /\ k \in 0..Len(file)
    OBVIOUS
  <1> DEFINE g == SubSeq(file, 1, k)
             h == Half(k)
  <1>3. g \in Seq(Chunk) /\ Len(g) = k /\ \A i \in 1..k : g[i] = file[i]
    BY <1>2, StartOfFile
  <1>4. h \in Nat /\ (k = 2 * h \/ k = 2 * h + 1) /\ h <= Lines
    <2>1. h \in Nat /\ (k = 2 * h \/ k = 2 * h + 1)
      BY <1>2, HalfFact
    <2> HIDE DEF h
    <2> QED
      BY <1>2, <2>1
  <1>5. \A i \in 1..Lines : IsEvent(file[2 * i - 1]) /\ file[2 * i] = Newline
    BY DEF LogInv, Formed, Lines
  <1>6. ~Clean => ~IsEvent(file[Len(file)])
    BY DEF LogInv, Formed, Lines, Clean
  <1> HIDE DEF g, h
  <1>7. \A i \in 1..h : i \in 1..Lines /\ 2 * i - 1 \in 1..k /\ 2 * i \in 1..k
    BY <1>2, <1>4
  <1>8. \A i \in 1..h : g[2 * i - 1] = file[2 * i - 1] /\ g[2 * i] = file[2 * i]
    BY <1>3, <1>7
  <1>9. k = 2 * h + 1 => \/ h < Lines /\ IsEvent(file[k])
                         \/ k = Len(file) /\ ~IsEvent(file[k])
    <2> SUFFICES ASSUME k = 2 * h + 1
                 PROVE  (h < Lines /\ IsEvent(file[k])) \/ (k = Len(file) /\ ~IsEvent(file[k]))
      OBVIOUS
    <2>1. CASE h < Lines
      <3>1. h + 1 \in 1..Lines /\ 2 * (h + 1) - 1 = k
        BY <1>4, <2>1
      <3> QED
        BY <1>5, <2>1, <3>1
    <2>2. CASE h = Lines
      <3>1. k = Len(file) /\ ~Clean
        BY <1>2, <2>2 DEF Clean
      <3> QED
        BY <1>6, <3>1
    <2> QED
      BY <1>4, <2>1, <2>2
  <1>10. CASE k \in LineEnds /\ file' = g
    <2>1. k = 2 * h + 1 => ~IsEvent(g[k])
      <3> SUFFICES ASSUME k = 2 * h + 1 PROVE ~IsEvent(g[k])
        OBVIOUS
      <3>1. k \in 1..k /\ k # 0
        BY <1>4
      <3>2. CASE k = Len(file)
        <4>1. ~(h < Lines)
          BY <1>2, <1>4, <3>2
        <4> QED
          BY <1>3, <1>9, <3>1, <4>1
      <3>3. CASE k # Len(file)
        <4>1. ~IsEvent(file[k])
          BY <1>10, <3>1, <3>3 DEF LineEnds, CutsShow
        <4> QED
          BY <1>3, <3>1, <4>1
      <3> QED
        BY <3>2, <3>3
    <2>2. Half(Len(file')) = h /\ file' = g
      BY <1>3, <1>10 DEF h
    <2>3. Formed(file')
      BY <1>3, <1>4, <1>5, <1>7, <1>8, <2>1, <2>2 DEF Formed
    <2> QED
      BY <1>3, <1>4, <1>8, <2>2, <2>3 DEF Line
  <1>11. CASE k < Len(file) /\ IsEvent(file[k + 1])
                /\ \E q \in Cuts \ {"whole"} : file' = Append(g, [what |-> q])
    <2>1. PICK x \in Piece : file' = Append(g, x)
      BY <1>11, EnvironmentAssumption DEF Piece, CutPlaces
    <2>2. x \in Chunk /\ ~IsEvent(x)
      BY ChunkCases
    <2>3. k = 2 * h
      <3> SUFFICES ASSUME k = 2 * h + 1 PROVE FALSE
        BY <1>4
      <3>1. h + 1 \in 1..Lines /\ 2 * (h + 1) = k + 1
        BY <1>4, <1>11, <1>9
      <3>2. file[k + 1] = Newline
        BY <1>5, <3>1
      <3> QED
        BY <1>11, <3>2, ChunkCases
    <2>4. /\ file' \in Seq(Chunk) /\ Len(file') = 2 * h + 1 /\ file'[2 * h + 1] = x
          /\ \A i \in 1..k : file'[i] = g[i]
      BY <1>3, <2>1, <2>2, <2>3
    <2>5. Half(Len(file')) = h
      BY <1>4, <2>4 DEF Half
    <2>6. \A i \in 1..h : file'[2 * i - 1] = file[2 * i - 1] /\ file'[2 * i] = file[2 * i]
      BY <1>7, <1>8, <2>4
    <2>7. Formed(file')
      BY <1>5, <1>7, <2>2, <2>4, <2>5, <2>6 DEF Formed
    <2> QED
      BY <1>4, <2>4, <2>5, <2>6, <2>7 DEF Line
  <1> QED
    BY <1>1, <1>10, <1>11 DEF Survives, g

LEMMA LogPowerLoss ==
    ASSUME CutsShow, LogInv, SafeInv', KeptInv', PlainInv', PowerLoss
    PROVE  LogInv'
  <1>1. /\ \A w \in Writers : pc'[w] = "idle" /\ kopf'[w] = None
        /\ durable' = Len(file') /\ acked' = acked
    BY DEF PowerLoss
  <1>2. /\ Formed(file') /\ file' \in Seq(Chunk)
        /\ Half(Len(file')) \in 0..Lines /\ Lines \in Nat
        /\ \A i \in 1..Half(Len(file')) : Line(file', i) = Line(file, i)
    BY PowerShape, LogTypes
  <1>3. Formed(file)'
    BY <1>2 DEF Formed, IsEvent, Newline
  <1>4. Distinct(file, Lines)'
    <2>1. \A i, j \in 1..Half(Len(file')) : i < j /\ Line(file', i).kind \notin PlainKinds
             => ~Duplicate(Line(file', j), Line(file', i))
      <3>1. \A i \in 1..Half(Len(file')) : i \in 1..Lines
        BY <1>2
      <3> QED
        BY <1>2, <3>1 DEF LogInv, Distinct
    <2> QED
      BY <2>1 DEF Distinct, Lines, Line, Duplicate
  <1>5. EvenInv' /\ \A w \in Writers : Task(w)'
    BY <1>1 DEF EvenInv, Task
  <1>6. TakenInv'
    <2>1. durable <= durable' /\ durable \in Nat /\ durable' \in Nat
      BY <1>1, <1>2, PowerKeeps, LogTypes
    <2>2. Half(durable) \in Nat /\ Half(durable') \in Nat /\ Half(durable) <= Half(durable')
      BY <2>1, HalfFact
    <2> QED
      BY <1>1, <2>2 DEF LogInv, TakenInv
  <1> QED
    BY <1>3, <1>4, <1>5, <1>6 DEF LogInv

LEMMA LogNext ==
    ASSUME CutsShow, LogInv, [Next]_vars
    PROVE  LogInv'
  <1>1. SafeInv' /\ KeptInv' /\ PlainInv'
    BY SafeNext, KeptStep, PlainStep DEF LogInv, SafeInv
  <1>2. ASSUME UNCHANGED <<file, durable, acked, pc, mode, todo, snap, ev, kopf, groesse>>
        PROVE  LogInv'
    BY <1>1, <1>2, LogQuiet
  <1>3. ASSUME NEW r \in Readers, Read(r) PROVE LogInv'
    BY <1>2, <1>3 DEF Read, local, cache
  <1>4. CASE UNCHANGED vars
    BY <1>2, <1>4 DEF vars
  <1>5. \A w \in Writers : ~ShortWrite(w)
    BY DEF CutsShow, ShortWrite, Fault
  <1> QED
    BY <1>1, <1>3, <1>4, <1>5, LogLocking, LogStartWrite, LogFinishWrite, LogSync, LogOthers,
       LogPowerLoss
    DEF Next, Operate

-----------------------------------------------------------------------------
(* The refinement.                                                         *)

LEMMA MappedLog ==
    ASSUME LogInv
    PROVE  /\ DurableLog = LogOf(file, durable)
           /\ Half(durable) \in 0..Lines
  <1>1. file \in Seq(Chunk) /\ durable \in 0..Len(file) /\ Formed(file)
    BY LogTypes DEF LogInv
  <1>2. DurableLog = LogOf(file, durable)
    BY <1>1, DurableShape DEF DurableLog, DurableLines
  <1>3. Half(durable) \in 0..Lines
    <2>1. /\ durable \in Nat /\ durable <= Len(file)
          /\ Lines \in Nat /\ (Len(file) = 2 * Lines \/ Len(file) = 2 * Lines + 1)
      BY LogTypes
    <2>2. Half(durable) \in Nat /\ (durable = 2 * Half(durable) \/ durable = 2 * Half(durable) + 1)
      BY <2>1, HalfFact
    <2> QED
      BY <2>1, <2>2
  <1> QED
    BY <1>2, <1>3

(* The same of the state after a step. *)
LEMMA MappedLogNext ==
    ASSUME LogInv'
    PROVE  /\ DurableLog' = LogOf(file', durable')
           /\ Half(durable') \in Nat
           /\ \A i \in 1..Half(durable') : Line(file', i) \in Event
           /\ \A i, j \in 1..Half(durable') : i < j /\ Line(file', i).kind \notin PlainKinds
                 => ~Duplicate(Line(file', j), Line(file', i))
           /\ \A e \in acked' : e.seq \in 1..Half(durable')
  <1> DEFINE f == file'
             d == durable'
             n == Half(Len(f))
  <1>1. f \in Seq(Chunk) /\ d \in 0..Len(f)
    BY DEF LogInv, SafeInv, TypeInv, TypeOK
  <1>2. Formed(f) /\ Distinct(f, n)
    BY DEF LogInv, Formed, Distinct, Lines, Line, Duplicate, IsEvent, Newline
  <1>3. DurableLog' = [i \in 1..Cardinality({i \in Readable(f) : 2 * i <= d}) |->
                          [kind |-> Line(f, i).kind, val |-> Line(f, i).val]]
    BY DEF DurableLog, DurableLines, Readable, GoodLine, WholeLines, LineCount, Line, IsEvent, Newline
  <1>4. \A e \in acked' : e.seq \in 1..Half(d)
    BY DEF LogInv, TakenInv
  <1> HIDE DEF f, d
  <1>5. DurableLog' = LogOf(f, d)
    BY <1>1, <1>2, <1>3, DurableShape
  <1>6. Half(d) \in Nat /\ \A i \in 1..Half(d) : i \in 1..n
    <2>1. d \in Nat /\ Len(f) \in Nat /\ d <= Len(f)
      BY <1>1
    <2>2. /\ Half(d) \in Nat /\ (d = 2 * Half(d) \/ d = 2 * Half(d) + 1)
          /\ n \in Nat /\ (Len(f) = 2 * n \/ Len(f) = 2 * n + 1)
      BY <2>1, HalfFact
    <2> HIDE DEF n
    <2> QED
      BY <2>1, <2>2
  <1>7. \A i \in 1..n : Line(f, i) \in Event
    BY <1>1, <1>2, FormedLines
  <1> HIDE DEF n
  <1> QED
    BY <1>2, <1>4, <1>5, <1>6, <1>7 DEF f, d, Distinct

LEMMA LogInit == Init => LogInv /\ Log!Init
  <1> SUFFICES ASSUME Init PROVE LogInv /\ Log!Init
    OBVIOUS
  <1>1. /\ SafeInv /\ file = << >> /\ Len(file) = 0 /\ durable = 0 /\ acked = {}
        /\ \A w \in Writers : pc[w] = "idle" /\ kopf[w] = None /\ todo[w] = << >>
    BY SafeInit DEF Init
  <1>2. Half(0) = 0 /\ Lines = 0
    BY <1>1 DEF Half, Lines
  <1>3. Formed(file) /\ Distinct(file, Lines)
    BY <1>1, <1>2 DEF Formed, Distinct
  <1>4. LogInv
    BY <1>1, <1>3 DEF LogInv, KeptInv, PlainInv, EvenInv, TakenInv, Task
  <1>5. DurableLog = << >>
    BY <1>1, <1>2, <1>4, MappedLog DEF LogOf
  <1>6. AckedPositions = {}
    BY <1>1 DEF AckedPositions
  <1> QED
    BY <1>4, <1>5, <1>6 DEF Log!Init

LEMMA LogStep ==
    ASSUME LogInv, LogInv', [Next]_vars
    PROVE  [Log!Next]_<<DurableLog, AckedPositions>>
  <1> DEFINE a == Half(durable)
             b == Half(durable')
             s == DurableLog
             t == DurableLog'
  <1>1. /\ s = LogOf(file, durable) /\ a \in Nat
        /\ t = LogOf(file', durable') /\ b \in Nat
        /\ \A i \in 1..b : Line(file', i) \in Event
        /\ \A i, j \in 1..b : i < j /\ Line(file', i).kind \notin PlainKinds
              => ~Duplicate(Line(file', j), Line(file', i))
        /\ \A e \in acked' : e.seq \in 1..b
    BY MappedLog, MappedLogNext, LogTypes
  <1>2. Grows /\ durable \in Nat /\ durable' \in Nat
    <2>1. TypeInv /\ KeptInv
      BY DEF LogInv, SafeInv
    <2>2. TypeOK /\ TypeOK'
      BY DEF LogInv, SafeInv, TypeInv
    <2>3. file \in Seq(Chunk) /\ durable \in 0..Len(file)
      BY <2>2 DEF TypeOK
    <2>4. file' \in Seq(Chunk) /\ durable' \in 0..Len(file')
      BY <2>2 DEF TypeOK
    <2>5. Len(file) \in Nat /\ Len(file') \in Nat
      BY <2>3, <2>4
    <2>6. durable \in Nat /\ durable' \in Nat
      BY <2>3, <2>4, <2>5
    <2> QED
      BY <2>1, <2>6, StepGrows
  <1>3. /\ durable = 2 * a \/ durable = 2 * a + 1
        /\ durable' = 2 * b \/ durable' = 2 * b + 1
        /\ a <= b
    <2>1. /\ durable = 2 * a \/ durable = 2 * a + 1
          /\ durable' = 2 * b \/ durable' = 2 * b + 1
      BY <1>2, HalfFact
    <2> HIDE DEF a, b
    <2> QED
      BY <1>1, <1>2, <2>1 DEF Grows
  <1>4. \A i \in 1..a : Line(file', i) = Line(file, i)
    <2>1. \A i \in 1..a : 2 * i - 1 \in 1..durable
      BY <1>1, <1>2, <1>3
    <2> QED
      BY <1>2, <2>1 DEF Grows, Line
  <1>5. /\ s = [i \in 1..a |-> [kind |-> Line(file, i).kind, val |-> Line(file, i).val]]
        /\ t = [i \in 1..b |-> [kind |-> Line(file', i).kind, val |-> Line(file', i).val]]
    BY <1>1 DEF LogOf
  <1>6. AckedPositions \subseteq AckedPositions' /\ AckedPositions' \subseteq 1..b
    <2>1. acked \subseteq acked'
      BY DEF Next, Operate, vars, BeginAppend, BeginAppendOnce, BeginTransaction, Begin, Lock,
         Verify, Scan, TakeHead, StartWrite, FinishWrite, Sync, Release, ShortWrite, OsError, Kill,
         Read, PowerLoss
    <2> QED
      BY <1>1, <2>1 DEF AckedPositions
  <1> HIDE DEF a, b
  <1>7. t \in Seq(Log!Content) /\ Len(t) = b
    <2>1. \A i \in 1..b : [kind |-> Line(file', i).kind, val |-> Line(file', i).val] \in Log!Content
      BY <1>1 DEF Event, Log!Content, Log!Kinds, Kinds
    <2> QED
      BY <1>1, <1>5, <2>1
  <1>8. Len(s) = a /\ s \in Seq(Log!Content) /\ \A i \in 1..a : s[i] = t[i]
    <2>1. \A i \in 1..a : i \in 1..b
      BY <1>1, <1>3
    <2>2. \A i \in 1..a : s[i] = t[i]
      BY <1>4, <1>5, <2>1
    <2>3. s = [i \in 1..a |-> t[i]]
      BY <1>5, <2>2
    <2>4. \A i \in 1..a : t[i] \in Log!Content
      BY <1>7, <2>1
    <2> HIDE DEF s, t
    <2> QED
      BY <1>1, <2>2, <2>3, <2>4
  <1>9. s = SubSeq(t, 1, Len(s))
    <2> HIDE DEF s, t
    <2>1. a \in 0..Len(t)
      BY <1>1, <1>3, <1>7
    <2> QED
      BY <1>7, <1>8, <2>1
  <1>10. Log!Unique(t)
    <2> SUFFICES ASSUME NEW i \in 1..b, NEW j \in 1..b, i < j, t[i].kind \notin PlainKinds,
                        Log!SameOnce(t[i], t[j])
                 PROVE  FALSE
      BY <1>7 DEF Log!Unique
    <2>1. /\ t[i].kind = Line(file', i).kind /\ t[i].val = Line(file', i).val
          /\ t[j].kind = Line(file', j).kind /\ t[j].val = Line(file', j).val
      BY <1>5
    <2>2. Duplicate(Line(file', j), Line(file', i))
      BY <2>1 DEF Log!SameOnce, Duplicate
    <2> QED
      BY <1>1, <2>1, <2>2
  <1>11. CASE a < b
    BY <1>6, <1>7, <1>8, <1>9, <1>10, <1>11 DEF Log!Next, Log!Publish
  <1>12. CASE a = b
    <2>1. t = s
      BY <1>4, <1>5, <1>12
    <2>2. \A w \in Writers : ~Sync(w)
      <3> SUFFICES ASSUME NEW w \in Writers, Sync(w) PROVE FALSE
        OBVIOUS
      <3>1. /\ pc[w] = "sync" /\ durable' = Len(file)
            /\ durable <= Len(file) - 2 /\ Len(file) = 2 * Lines /\ Lines \in Nat
        BY LogTypes DEF Sync, LogInv, Task, Clean
      <3> QED
        BY <1>1, <1>2, <1>3, <1>12, <3>1
    <2>3. acked' = acked
      BY <2>2 DEF Next, Operate, vars, BeginAppend, BeginAppendOnce, BeginTransaction, Begin, Lock,
         Verify, Scan, TakeHead, StartWrite, FinishWrite, Release, ShortWrite, OsError, Kill,
         Read, PowerLoss
    <2> QED
      BY <2>1, <2>3 DEF AckedPositions
  <1> QED
    BY <1>1, <1>3, <1>11, <1>12

(* The file implements the abstract log: whatever processes are killed,    *)
(* fail or lose power, what is durable only grows, a once-only content is  *)
(* published once although its duplicate rule and its append are separate  *)
(* steps, and what was returned to a caller is a position of the durable   *)
(* log (journal.py append, append_once and transaction).                   *)
THEOREM JournalImplementsLog ==
    ASSUME CutsShow
    PROVE  Spec => ImplementsEventLog
  <1>1. Init => LogInv /\ Log!Init
    BY LogInit
  <1>2. LogInv /\ [Next]_vars => LogInv' /\ [Log!Next]_<<DurableLog, AckedPositions>>
    BY LogNext, LogStep
  <1>3. Spec => Log!Spec
    BY <1>1, <1>2, PTL DEF Spec, Log!Spec
  <1> QED
    BY <1>3 DEF ImplementsEventLog

-----------------------------------------------------------------------------
(* What a reader was shown stays in the file as long as the machine is up. *)

Shows(f, s) == \A i \in 1..Len(s) : 2 * i - 1 <= Len(f) /\ Line(f, i) = s[i]

ViewInv == \A r \in Readers : view[r].outcome = "ok" => Shows(file, view[r].events)

(* A line that is in the file is not written over: what is still being     *)
(* written shows either nothing of its event or all of it.                 *)
LEMMA LinesStay ==
    ASSUME SafeInv, [Next]_vars, ~PowerLoss, NEW s \in Seq(Event), Shows(file, s)
    PROVE  Shows(file', s)
  <1>1. file \in Seq(Chunk) /\ Len(file) \in Nat /\ Len(s) \in Nat
    BY DEF SafeInv, TypeInv, TypeOK
  <1>2. \A i \in 1..Len(s) : /\ i \in Nat /\ 2 * i - 1 \in 1..Len(file)
                             /\ file[2 * i - 1] = s[i] /\ IsEvent(s[i])
    <2>1. \A i \in 1..Len(s) : s[i] \in Event
      OBVIOUS
    <2> QED
      BY <1>1, <2>1, ChunkCases DEF Shows, Line
  <1>3. CASE UNCHANGED file
    BY <1>3
  <1>4. ASSUME NEW w \in Writers, StartWrite(w) PROVE Shows(file', s)
    <2>1. PICK place \in Cuts : file' = Append(file, Cut(place, ev[w]))
      BY <1>4 DEF StartWrite
    <2>2. Cut(place, ev[w]) \in Chunk
      BY <1>4, CutFact DEF StartWrite, SafeInv, TypeInv, WorkInv, Writing
    <2>3. Len(file') = Len(file) + 1 /\ \A j \in 1..Len(file) : file'[j] = file[j]
      BY <1>1, <2>1, <2>2
    <2>4. \A i \in 1..Len(s) : 2 * i - 1 <= Len(file') /\ file'[2 * i - 1] = s[i]
      <3> SUFFICES ASSUME NEW i \in 1..Len(s)
                   PROVE  2 * i - 1 <= Len(file') /\ file'[2 * i - 1] = s[i]
        OBVIOUS
      <3>1. i \in Nat /\ 2 * i - 1 \in 1..Len(file) /\ file[2 * i - 1] = s[i]
        BY <1>2
      <3>2. file'[2 * i - 1] = file[2 * i - 1]
        BY <2>3, <3>1
      <3>3. 2 * i - 1 <= Len(file')
        BY <1>1, <2>3, <3>1
      <3> QED
        BY <3>1, <3>2, <3>3
    <2> QED
      BY <2>4 DEF Shows, Line
  <1>5. ASSUME NEW w \in Writers, FinishWrite(w) PROVE Shows(file', s)
    <2>1. /\ file' = [file EXCEPT ![Len(file)] = ev[w]] \o <<Newline>>
          /\ Len(file) >= 1
          /\ IsEvent(file[Len(file)]) => file[Len(file)] = ev[w]
      BY <1>5 DEF FinishWrite, SafeInv, WriteInv
    <2>2. ev[w] \in Chunk /\ Newline \in Chunk
      BY <1>5, ChunkCases DEF FinishWrite, SafeInv, TypeInv, WorkInv, Writing
    <2>3. /\ Len(file') = Len(file) + 1 /\ file'[Len(file)] = ev[w]
          /\ \A j \in 1..(Len(file) - 1) : file'[j] = file[j]
      BY <1>1, <2>1, <2>2, Finished
    <2>4. \A j \in 1..Len(file) : j = Len(file) \/ j \in 1..(Len(file) - 1)
      BY <1>1
    <2>5. \A j \in 1..Len(file) : IsEvent(file[j]) => file'[j] = file[j]
      BY <2>1, <2>3, <2>4
    <2>6. \A i \in 1..Len(s) : 2 * i - 1 <= Len(file') /\ file'[2 * i - 1] = s[i]
      BY <1>1, <1>2, <2>3, <2>5
    <2> QED
      BY <2>6 DEF Shows, Line
  <1>6. ASSUME NEW w \in Writers,
               \/ BeginAppend(w) \/ BeginAppendOnce(w) \/ BeginTransaction(w)
               \/ Lock(w) \/ Verify(w) \/ Scan(w) \/ TakeHead(w) \/ Sync(w) \/ Release(w)
               \/ ShortWrite(w) \/ OsError(w) \/ Kill(w)
        PROVE  UNCHANGED file
    BY <1>6 DEF BeginAppend, BeginAppendOnce, BeginTransaction, Begin, Lock, Verify, Scan,
       TakeHead, Sync, Release, ShortWrite, OsError, Kill
  <1>7. ASSUME NEW r \in Readers, Read(r) PROVE UNCHANGED file
    BY <1>7 DEF Read
  <1>8. CASE UNCHANGED vars
    BY <1>3, <1>8 DEF vars
  <1> QED
    BY <1>3, <1>4, <1>5, <1>6, <1>7, <1>8 DEF Next, Operate

(* A reader that is shown the journal is shown the file as it is. *)
LEMMA ReadShows ==
    ASSUME TypeInv, NEW r \in Readers, Read(r), view'[r].outcome = "ok"
    PROVE  /\ view'[r].events = Events(file) /\ view'[r].events \in Seq(Event)
           /\ Len(view'[r].events) = LineCount(file)
           /\ Shows(file, view'[r].events)
  <1>1. file \in Seq(Chunk) /\ DOMAIN view = Readers
    BY DEF TypeInv, TypeOK
  <1>2. Parses(file) /\ view'[r].events = Events(file)
    BY <1>1 DEF Read
  <1>3. Events(file) \in Seq(Event) /\ LineCount(file) \in Nat
    BY <1>1, <1>2, EventsType, LineBounds
  <1>4. Len(Events(file)) = LineCount(file)
    BY <1>3 DEF Events
  <1>5. \A i \in 1..LineCount(file) : 2 * i - 1 <= Len(file) /\ Line(file, i) = Events(file)[i]
    <2>1. \A i \in 1..LineCount(file) : Line(file, i) = Events(file)[i]
      BY DEF Events
    <2>2. \A i \in 1..LineCount(file) : i \in Int
      BY <1>3
    <2> QED
      BY <1>1, <2>1, <2>2, LineBounds
  <1> QED
    BY <1>2, <1>3, <1>4, <1>5 DEF Shows

LEMMA OnlyReadsShow ==
    ASSUME TypeInv, [Next]_vars, ~PowerLoss, NEW r \in Readers
    PROVE  view'[r] = view[r] \/ Read(r)
  <1>1. ASSUME NEW w \in Writers,
               \/ BeginAppend(w) \/ BeginAppendOnce(w) \/ BeginTransaction(w)
               \/ Operate(w) \/ ShortWrite(w) \/ OsError(w) \/ Kill(w)
        PROVE  UNCHANGED view
    BY <1>1 DEF BeginAppend, BeginAppendOnce, BeginTransaction, Begin, Operate, Lock, Verify, Scan,
       TakeHead, StartWrite, FinishWrite, Sync, Release, ShortWrite, OsError, Kill, Fault, env
  <1>2. ASSUME NEW q \in Readers, Read(q) PROVE view'[r] = view[r] \/ Read(r)
    BY <1>2 DEF Read, TypeInv, TypeOK
  <1>3. CASE UNCHANGED vars
    BY <1>3 DEF vars
  <1> QED
    BY <1>1, <1>2, <1>3 DEF Next

LEMMA ViewStep ==
    ASSUME SafeInv, ViewInv, [Next]_vars
    PROVE  ViewInv'
  <1>1. TypeOK /\ TypeInv
    BY DEF SafeInv, TypeInv
  <1> SUFFICES ASSUME NEW r \in Readers, view'[r].outcome = "ok"
               PROVE  Shows(file', view'[r].events)
    BY DEF ViewInv
  <1>2. ~PowerLoss
    BY DEF PowerLoss
  <1>3. CASE view'[r] = view[r]
    <2>1. view[r].events \in Seq(Event) /\ Shows(file, view[r].events)
      BY <1>1, <1>3 DEF TypeOK, ViewInv
    <2> QED
      BY <1>2, <1>3, <2>1, LinesStay
  <1>4. CASE Read(r)
    BY <1>1, <1>4, ReadShows DEF Read
  <1>5. view'[r] = view[r] \/ Read(r)
    BY <1>1, <1>2, OnlyReadsShow
  <1> QED
    BY <1>3, <1>4, <1>5

(* Successive snapshots of a reader extend each other: no reader, although *)
(* it takes no lock and may meet a line half written, is shown an event    *)
(* that is later gone or another one, until power is lost (journal.py      *)
(* verified_events, _append_locked).                                       *)
THEOREM SnapshotsAdvance == Spec => ReadersAdvance
  <1>1. Init => SafeInv /\ ViewInv
    BY SafeInit DEF Init, ViewInv
  <1>2. SafeInv /\ ViewInv /\ [Next]_vars => (SafeInv /\ ViewInv)'
    BY SafeNext, ViewStep
  <1> DEFINE Advance == \A r \in Readers :
                 view[r].outcome = "ok" /\ view'[r].outcome = "ok"
                     => IsStart(view[r].events, view'[r].events)
  <1>3. SafeInv /\ ViewInv /\ [Next]_vars => [Advance]_vars
    <2> SUFFICES ASSUME SafeInv, ViewInv, [Next]_vars, NEW r \in Readers,
                        view[r].outcome = "ok", view'[r].outcome = "ok"
                 PROVE  IsStart(view[r].events, view'[r].events)
      OBVIOUS
    <2> DEFINE s == view[r].events
    <2>1. /\ TypeInv /\ file \in Seq(Chunk) /\ s \in Seq(Event) /\ Len(s) \in Nat
          /\ Shows(file, s) /\ ~PowerLoss
      BY DEF SafeInv, TypeInv, TypeOK, ViewInv, PowerLoss
    <2> HIDE DEF s
    <2>2. CASE view'[r] = view[r]
      <3>1. s = SubSeq(s, 1, Len(s))
        BY <2>1
      <3> QED
        BY <2>1, <2>2, <3>1 DEF IsStart, s
    <2>3. CASE Read(r)
      <3> DEFINE t == view'[r].events
      <3>1. t \in Seq(Event) /\ Len(t) = LineCount(file) /\ Shows(file, t)
        BY <2>1, <2>3, ReadShows
      <3> HIDE DEF t
      <3>2. Len(s) <= Len(t)
        <4>1. Len(s) > 0 => 2 * Len(s) - 1 <= Len(file)
          BY <2>1 DEF Shows
        <4> QED
          BY <2>1, <3>1, <4>1, LineBounds
      <3>3. \A i \in 1..Len(s) : i \in 1..Len(t) /\ s[i] = t[i]
        BY <2>1, <3>1, <3>2 DEF Shows
      <3>4. s = SubSeq(t, 1, Len(s))
        BY <2>1, <3>1, <3>2, <3>3
      <3> QED
        BY <3>2, <3>4 DEF IsStart, s, t
    <2> QED
      BY <2>1, <2>2, <2>3, OnlyReadsShow
  <1>4. Spec => [][Advance]_vars
    BY <1>1, <1>2, <1>3, PTL DEF Spec
  <1> QED
    BY <1>4 DEF ReadersAdvance
=============================================================================
