----------------------------- MODULE ItemsProofs -----------------------------
(***************************************************************************)
(* Proofs about Items, for any number of items, slots, buffer size,        *)
(* retries, tokens and events.  The inductive invariant follows a line     *)
(* from the item it answers to the file.  PhaseOK and ItemsOK say who may  *)
(* hold the lock and where an item can be at each phase of a run; CountOK, *)
(* that the counters count the items found done and those counted since.   *)
(* FreshOK: an item still to be answered has no line anywhere, in a file,  *)
(* a buffer or a flush.  OnceOK: no item has two, which is why no download *)
(* holds one twice.  CoveredOK: an item that is settled has a line or is   *)
(* harmed, which is why a finished job has answers for all.  TallyOK: with *)
(* no harm done the counters are the numbers of lines.                     *)
(***************************************************************************)
EXTENDS Items, FiniteSetTheorems, TLAPS

Stops == {"paused", "canceled", "queued"}
Running == run.pc \in {"loop", "gather"}

RowType == [status : Terminal \cup {"queued", "running", "paused"},
            completed : 0..N, failed : 0..N]
FileType == [lines : Seq(0..N), open : BOOLEAN]
Ends == {"none", "failed"} \cup Stops \cup Finished
RunType == [pc : {"off", "loop", "gather", "drain", "write", "final"},
            done : SUBSET Items, next : 1..(N + 1), completed : 0..N, failed : 0..N,
            stop : {"none"} \cup Stops, end : Ends]
Pcs == {"new", "waiting", "limited", "posted", "answered", "flushing",
        "counted", "skipped", "raised"}
ItemType == [pc : Pcs, tries : 0..(MaxRetries + 1), good : BOOLEAN]
FlushType == [by : 0..TheRun, out : Seq(Items), err : Seq(Items)]
StrayType == [file : Files, lines : Seq(Items), landed : BOOLEAN]
(* A buffer at its limit has been flushed.                                 *)
BufOK == buf \in [Files -> Seq(Items)] /\ \A f \in Files : Len(buf[f]) < FlushSize

TypeInv ==
    /\ row \in RowType
    /\ file \in [Files -> FileType]
    /\ run \in RunType
    /\ item \in [Items -> ItemType]
    /\ BufOK
    /\ flush \in FlushType
    /\ stray \subseteq StrayType
    /\ bucket \in 0..Tpm
    /\ harmed \subseteq Items
    /\ events \in 0..MaxEvents

(* An item that waits for the limiter has a try left.                      *)
TriesOK ==
    \A i \in Items :
        /\ item[i].pc \in {"new", "waiting"} => item[i].tries = 0
        /\ item[i].pc = "limited" => item[i].tries <= MaxRetries

(* The buffers and the lock, by the phase of the run. *)
PhaseOK ==
    /\ run.pc = "off" <=> row.status # "running"
    /\ run.pc = "off" => run = NoRun
    /\ run.pc \in {"off", "write", "final"} => buf = [f \in Files |-> <<>>]
    /\ run.pc = "write" <=> flush.by = TheRun
    /\ flush.by = 0 => flush = NoFlush
    /\ Running => run.end = "none"
    /\ run.pc \in {"drain", "write", "final"} => run.end # "none"

(* Where the items are, by the phase of the run.  A finished run has       *)
(* settled them all.                                                       *)
InProgress == {"waiting", "limited", "posted", "answered", "flushing"}
ItemsOK ==
    /\ ~Running => \A i \in Items : item[i].pc \notin InProgress
    /\ run.pc = "off" => \A i \in Items : item[i].pc = "new"
    /\ \A i \in Items : item[i].pc = "flushing" <=> flush.by = i
    /\ \A i \in run.done : item[i].pc = "new"
    /\ run.pc = "loop" => \A i \in run.next..N : item[i].pc = "new"
    /\ Running => \A i \in 1..(run.next - 1) : i \in run.done \/ item[i].pc # "new"
    /\ run.pc = "gather" => run.next = N + 1
    /\ Running => \A i \in Items : item[i].pc = "skipped" => run.stop # "none"
    /\ run.end \in Finished => \A i \in Items : i \in run.done \/ item[i].pc \in {"counted", "raised"}

(* Every item counts once, in the scan or in the run.                      *)
CountedItems == {i \in Items : item[i].pc = "counted"}
CountOK == run.completed + run.failed = Cardinality(run.done \cup CountedItems)

(* The items that have a line in a file, or on their way to it.            *)
Held(f) == Readable(file[f]) \cup Range(flush[f]) \cup Range(buf[f])
Out == Held("out")
Err == Held("err")

(* Items whose abandoned append came, and items still to be answered.      *)
Late == {i \in Items : \E s \in stray : s.landed /\ i \in Range(s.lines)}
Fresh(i) ==
    \/ item[i].pc \in {"waiting", "limited", "posted", "answered"}
    \/ run.pc = "loop" /\ i >= run.next /\ i \notin run.done

FreshOK == \A i \in Items : Fresh(i) => i \notin Out \cup Err \/ i \in Late \cap harmed

(* An item has one line, over the file, what is being written and the      *)
(* buffer, over both files.                                                *)
OneIn(s, i) == \A k, l \in DOMAIN s : s[k] = i /\ s[l] = i => k = l
OnceAt(f, i) ==
    /\ OneIn(file[f].lines, i) /\ OneIn(flush[f], i) /\ OneIn(buf[f], i)
    /\ ~(i \in Range(file[f].lines) /\ i \in Range(flush[f]))
    /\ ~(i \in Range(file[f].lines) /\ i \in Range(buf[f]))
    /\ ~(i \in Range(flush[f]) /\ i \in Range(buf[f]))
OnceOK ==
    \A i \in Items \ Late : OnceAt("out", i) /\ OnceAt("err", i) /\ i \notin Out \cap Err

(* A run that has not failed or been stopped.                              *)
InEffect == run.pc # "off" /\ run.end \in {"none"} \cup Finished
Settled(i) == i \in run.done \/ item[i].pc \in {"flushing", "counted", "raised"}
CoveredOK ==
    /\ InEffect => \A i \in Items : Settled(i) => i \in Out \cup Err \cup harmed
    /\ row.status \in Finished => Items \subseteq Out \cup Err \cup harmed

(* The item that flushes has a line and does not count yet.                *)
Flushing == {i \in Items : item[i].pc = "flushing"}
TallyOK ==
    harmed = {} =>
        /\ InEffect =>
              /\ run.completed = Cardinality(Out \ Flushing)
              /\ run.failed = Cardinality(Err \ (Out \cup Flushing))
              /\ \A i \in Items : item[i].pc # "raised"
              /\ \A i \in Flushing : IF item[i].good THEN i \in Out ELSE i \in Err \ Out
        /\ row.status \in Finished =>
              /\ row.completed = Cardinality(Out)
              /\ row.failed = Cardinality(Err \ Out)
              /\ row.completed + row.failed = N

IInv ==
    /\ TypeInv
    /\ TriesOK
    /\ PhaseOK
    /\ ItemsOK
    /\ CountOK
    /\ FreshOK
    /\ OnceOK
    /\ CoveredOK
    /\ TallyOK

-----------------------------------------------------------------------------
(* The elements of a sequence, for the operations the writer uses. *)
LEMMA EmptyRange == Range(<<>>) = {}
BY DEF Range

LEMMA RangeIn ==
    ASSUME NEW S, NEW s \in Seq(S)
    PROVE  Range(s) \subseteq S
BY DEF Range

LEMMA RangeAppend ==
    ASSUME NEW S, NEW s \in Seq(S), NEW e \in S
    PROVE  Range(Append(s, e)) = Range(s) \cup {e}
<1>1. /\ DOMAIN Append(s, e) = 1..(Len(s) + 1) /\ DOMAIN s = 1..Len(s)
      /\ Append(s, e)[Len(s) + 1] = e
      /\ \A k \in 1..Len(s) : Append(s, e)[k] = s[k]
    OBVIOUS
<1>. QED BY <1>1 DEF Range

(* Where the elements of a concatenation are. *)
LEMMA Indices ==
    ASSUME NEW S, NEW s \in Seq(S), NEW t \in Seq(S)
    PROVE  /\ DOMAIN (s \o t) = 1..(Len(s) + Len(t))
           /\ DOMAIN s = 1..Len(s) /\ DOMAIN t = 1..Len(t)
           /\ Len(s) \in Nat /\ Len(t) \in Nat
           /\ \A k \in 1..Len(s) : k \in DOMAIN (s \o t) /\ (s \o t)[k] = s[k]
           /\ \A k \in 1..Len(t) : /\ Len(s) + k \in DOMAIN (s \o t)
                                  /\ (s \o t)[Len(s) + k] = t[k]
           /\ \A k \in DOMAIN (s \o t) :
                 \/ k \in DOMAIN s /\ (s \o t)[k] = s[k]
                 \/ k - Len(s) \in DOMAIN t /\ k > Len(s) /\ (s \o t)[k] = t[k - Len(s)]
OBVIOUS

LEMMA RangeConcat ==
    ASSUME NEW S, NEW s \in Seq(S), NEW t \in Seq(S)
    PROVE  Range(s \o t) = Range(s) \cup Range(t)
<1>1. ASSUME NEW e \in Range(s \o t)
      PROVE  e \in Range(s) \cup Range(t)
  <2>1. PICK k \in DOMAIN (s \o t) : e = (s \o t)[k]
    BY DEF Range
  <2>2. \/ k \in DOMAIN s /\ e = s[k]
        \/ k - Len(s) \in DOMAIN t /\ e = t[k - Len(s)]
    BY <2>1, Indices
  <2>. QED BY <2>2, Zenon DEF Range
<1>2. ASSUME NEW e \in Range(s)
      PROVE  e \in Range(s \o t)
  <2>1. PICK k \in 1..Len(s) : e = s[k]
    BY Indices DEF Range
  <2>2. k \in DOMAIN (s \o t) /\ e = (s \o t)[k]
    BY <2>1, Indices
  <2>. QED BY <2>2, Zenon DEF Range
<1>3. ASSUME NEW e \in Range(t)
      PROVE  e \in Range(s \o t)
  <2>1. PICK k \in 1..Len(t) : e = t[k]
    BY Indices DEF Range
  <2>2. Len(s) + k \in DOMAIN (s \o t) /\ e = (s \o t)[Len(s) + k]
    BY <2>1, Indices
  <2>. QED BY <2>2, Zenon DEF Range
<1>. QED BY <1>1, <1>2, <1>3

LEMMA OneInConcat ==
    ASSUME NEW S, NEW s \in Seq(S), NEW t \in Seq(S), NEW i,
           OneIn(s, i), OneIn(t, i), ~(i \in Range(s) /\ i \in Range(t))
    PROVE  OneIn(s \o t, i)
<1>1. SUFFICES ASSUME NEW k \in DOMAIN (s \o t), NEW l \in DOMAIN (s \o t),
                      (s \o t)[k] = i, (s \o t)[l] = i
               PROVE  k = l
    BY DEF OneIn
<1>2. /\ Len(s) \in Nat /\ k \in Nat /\ l \in Nat
      /\ \/ k \in DOMAIN s /\ s[k] = i
         \/ k - Len(s) \in DOMAIN t /\ t[k - Len(s)] = i
      /\ \/ l \in DOMAIN s /\ s[l] = i
         \/ l - Len(s) \in DOMAIN t /\ t[l - Len(s)] = i
    BY <1>1, Indices
<1>3. \/ k \in DOMAIN s /\ l \in DOMAIN s /\ s[k] = i /\ s[l] = i
      \/ /\ k - Len(s) \in DOMAIN t /\ l - Len(s) \in DOMAIN t
         /\ t[k - Len(s)] = i /\ t[l - Len(s)] = i
    BY <1>2 DEF Range
<1>4. k = l \/ k - Len(s) = l - Len(s)
    BY <1>3 DEF OneIn
<1>. QED BY <1>2, <1>4

(* What putting lines at the end of a file does, however far it got: no    *)
(* line comes from elsewhere, and none is there twice that was not.        *)
Extends(f, ls, g) ==
    /\ g \in FileType
    /\ Readable(g) \subseteq Readable(f) \cup Range(ls)
    /\ \A i \in Items :
          OneIn(f.lines, i) /\ OneIn(ls, i) /\ ~(i \in Range(f.lines) /\ i \in Range(ls))
              => OneIn(g.lines, i)

LEMMA Appending ==
    ASSUME NEW f \in FileType, NEW ls \in Seq(0..N)
    PROVE  Extends(f, ls, Appended(f, ls))
<1>. N \in Nat
    BY ItemsAssumption
<1>1. CASE ls = <<>>
  <2>1. Appended(f, ls) = f
    BY <1>1 DEF Appended
  <2>. QED BY <2>1 DEF Extends
<1>2. CASE ls # <<>> /\ ~f.open
  <2>1. Appended(f, ls) = [lines |-> f.lines \o ls, open |-> FALSE]
    BY <1>2 DEF Appended
  <2>2. f.lines \in Seq(0..N) /\ f.lines \o ls \in Seq(0..N)
    BY DEF FileType
  <2>3. Range(f.lines \o ls) = Range(f.lines) \cup Range(ls)
    BY <2>2, RangeConcat, Zenon
  <2>4. ASSUME NEW i \in Items, OneIn(f.lines, i), OneIn(ls, i),
               ~(i \in Range(f.lines) /\ i \in Range(ls))
        PROVE  OneIn(f.lines \o ls, i)
    BY <2>2, <2>4, OneInConcat
  <2>. QED BY <2>1, <2>2, <2>3, <2>4 DEF Extends, FileType, Readable
<1>3. CASE ls # <<>> /\ f.open
  <2>. DEFINE h == [f.lines EXCEPT ![Len(f.lines)] = 0]
              g == h \o Tail(ls)
  <2>1. Appended(f, ls) = [lines |-> g, open |-> FALSE]
    BY <1>3 DEF Appended
  <2>2. /\ h \in Seq(0..N) /\ Len(h) = Len(f.lines) /\ Tail(ls) \in Seq(0..N)
        /\ Len(Tail(ls)) = Len(ls) - 1
    <3>1. f.lines \in Seq(0..N) /\ 0 \in 0..N
        BY DEF FileType
    <3>2. h \in Seq(0..N) /\ Len(h) = Len(f.lines)
      <4>1. DOMAIN f.lines = 1..Len(f.lines) /\ Len(f.lines) \in Nat
          BY <3>1
      <4>2. f.lines \in [1..Len(f.lines) -> 0..N]
          BY <3>1
      <4>3. \A n \in Nat : \A q \in [1..n -> 0..N] : [q EXCEPT ![n] = 0] \in [1..n -> 0..N]
          BY <3>1
      <4>4. h \in [1..Len(f.lines) -> 0..N]
          BY <4>1, <4>2, <4>3
      <4>. HIDE DEF h
      <4>. QED BY <4>1, <4>4
    <3>3. Tail(ls) \in Seq(0..N) /\ Len(Tail(ls)) = Len(ls) - 1
        BY <1>3
    <3>. QED BY <3>2, <3>3
  <2>6. \A k \in DOMAIN h : k \in DOMAIN f.lines /\ (h[k] = 0 \/ h[k] = f.lines[k])
    BY <2>2
  <2>7. \A k \in DOMAIN Tail(ls) : k + 1 \in DOMAIN ls /\ Tail(ls)[k] = ls[k + 1]
    BY <1>3
  <2>3. g \in Seq(0..N) /\ Range(g) = Range(h) \cup Range(Tail(ls))
    <3>. HIDE DEF h
    <3>1. h \in Seq(0..N) /\ Tail(ls) \in Seq(0..N)
        BY <2>2
    <3>2. Range(h \o Tail(ls)) = Range(h) \cup Range(Tail(ls))
        BY <3>1, RangeConcat, Zenon
    <3>. QED BY <3>1, <3>2
  <2>4. Range(h) \subseteq Range(f.lines) \cup {0} /\ Range(Tail(ls)) \subseteq Range(ls)
    <3>. HIDE DEF h
    <3>. QED BY <2>6, <2>7 DEF Range
  <2>5. ASSUME NEW i \in Items, OneIn(f.lines, i), OneIn(ls, i),
               ~(i \in Range(f.lines) /\ i \in Range(ls))
        PROVE  OneIn(g, i)
    <3>1. OneIn(h, i) /\ (i \in Range(h) => i \in Range(f.lines))
        <4>1. i # 0
            BY DEF Items
        <4>. HIDE DEF h
        <4>. QED BY <2>6, <2>5, <4>1 DEF OneIn, Range
    <3>2. OneIn(Tail(ls), i) /\ (i \in Range(Tail(ls)) => i \in Range(ls))
        <4>1. \A k \in DOMAIN Tail(ls) : k \in Int
            BY <1>3
        <4>2. ASSUME NEW k \in DOMAIN Tail(ls), NEW l \in DOMAIN Tail(ls),
                     Tail(ls)[k] = i, Tail(ls)[l] = i
              PROVE  k = l
          <5>1. k + 1 = l + 1
            BY <2>7, <2>5, <4>2 DEF OneIn
          <5>. QED BY <5>1, <4>1
        <4>. QED BY <2>7, <4>2 DEF OneIn, Range
    <3>3. ~(i \in Range(h) /\ i \in Range(Tail(ls)))
        BY <3>1, <3>2, <2>5
    <3>. HIDE DEF h
    <3>. QED BY <2>2, <3>1, <3>2, <3>3, OneInConcat
  <2>. HIDE DEF g, h
  <2>. QED BY <2>1, <2>3, <2>4, <2>5 DEF Extends, FileType, Readable
<1>. QED BY <1>1, <1>2, <1>3 DEF FileType

(* A write that failed at line k has left the file as g.                   *)
CutAt(f, ls, k, g) ==
    LET a == Appended(f, SubSeq(ls, 1, k))
        torn == Appended(f, SubSeq(ls, 1, k - 1) \o <<0>>)
    IN  g \in {a, [a EXCEPT !.open = TRUE], [torn EXCEPT !.open = TRUE]}

(* The same for an append that was cut short. *)
LEMMA Cutting ==
    ASSUME NEW f \in FileType, NEW ls \in Seq(Items), NEW g \in CutShort(f, ls)
    PROVE  Extends(f, ls, g)
<1>. N \in Nat
    BY ItemsAssumption
<1>1. CASE g = f
    BY <1>1 DEF Extends
<1>2. ASSUME NEW k \in 1..Len(ls), NEW p \in Seq(0..N), NEW h \in FileType,
             h = Appended(f, p), g = h \/ g = [h EXCEPT !.open = TRUE],
             \A i \in Items : (OneIn(ls, i) => OneIn(p, i)) /\ (i \in Range(p) => i \in Range(ls))
      PROVE  Extends(f, ls, g)
  <2>1. Extends(f, p, h)
    BY <1>2, Appending
  <2>2. g \in FileType /\ g.lines = h.lines
    BY <1>2 DEF FileType
  <2>3. Readable(g) = Readable(h) /\ Readable(f) \subseteq Items /\ Readable(h) \subseteq Items
    BY <2>2, <1>2, RangeIn DEF Readable, FileType, Items
  <2>. QED BY <2>1, <2>2, <2>3, <1>2 DEF Extends
<1>3. ASSUME NEW k \in 1..Len(ls)
      PROVE  LET s == SubSeq(ls, 1, k)
                 t == SubSeq(ls, 1, k - 1) \o <<0>>
             IN  /\ s \in Seq(0..N) /\ t \in Seq(0..N)
                 /\ \A i \in Items : /\ OneIn(ls, i) => OneIn(s, i) /\ OneIn(t, i)
                                     /\ i \in Range(s) \/ i \in Range(t) => i \in Range(ls)
  <2>. DEFINE s == SubSeq(ls, 1, k)
              u == SubSeq(ls, 1, k - 1)
              t == u \o <<0>>
  <2>1. /\ s \in Seq(0..N) /\ Len(s) = k /\ \A l \in 1..k : l \in DOMAIN ls /\ s[l] = ls[l]
        /\ u \in Seq(0..N) /\ Len(u) = k - 1 /\ \A l \in 1..(k-1) : l \in DOMAIN ls /\ u[l] = ls[l]
    BY DEF Items
  <2>2. t \in Seq(0..N) /\ Len(t) = k /\ t[k] = 0 /\ \A l \in 1..(k - 1) : t[l] = ls[l]
    <3>. HIDE DEF u
    <3>. QED BY <2>1
  <2>3. ASSUME NEW i \in Items
        PROVE  /\ OneIn(ls, i) => OneIn(s, i) /\ OneIn(t, i)
               /\ i \in Range(s) \/ i \in Range(t) => i \in Range(ls)
    <3>. HIDE DEF s, t, u
    <3>1. DOMAIN s = 1..k /\ DOMAIN t = 1..k /\ i # 0
        BY <2>1, <2>2 DEF Items
    <3>2. \A l \in 1..k : l \in DOMAIN ls /\ s[l] = ls[l] /\ (t[l] = i => ls[l] = i)
        BY <2>1, <2>2, <3>1
    <3>. QED BY <3>1, <3>2 DEF OneIn, Range
  <2>. QED BY <2>1, <2>2, <2>3
<1>4. \/ g = f
      \/ \E k \in 1..Len(ls) : CutAt(f, ls, k, g)
    BY Zenon DEF CutShort, CutAt
<1>5. ASSUME NEW k \in 1..Len(ls), CutAt(f, ls, k, g)
      PROVE  Extends(f, ls, g)
  <2>. DEFINE s == SubSeq(ls, 1, k)
              t == SubSeq(ls, 1, k - 1) \o <<0>>
  <2>1. /\ s \in Seq(0..N) /\ t \in Seq(0..N)
        /\ \A i \in Items : (OneIn(ls, i) => OneIn(s, i)) /\ (i \in Range(s) => i \in Range(ls))
        /\ \A i \in Items : (OneIn(ls, i) => OneIn(t, i)) /\ (i \in Range(t) => i \in Range(ls))
    BY <1>3
  <2>2. \/ g = Appended(f, s) \/ g = [Appended(f, s) EXCEPT !.open = TRUE]
        \/ g = [Appended(f, t) EXCEPT !.open = TRUE]
    BY <1>5 DEF CutAt
  <2>. HIDE DEF s, t
  <2>3. Appended(f, s) \in FileType /\ Appended(f, t) \in FileType
    BY <2>1, Appending DEF Extends
  <2>. QED BY <2>1, <2>2, <2>3, <1>2
<1>. QED BY <1>1, <1>4, <1>5

-----------------------------------------------------------------------------
(* What a field of one item, of the run or of the flush is set to. *)
LEMMA ItemSet ==
    ASSUME NEW it \in [Items -> ItemType], NEW i \in Items, NEW p \in Pcs
    PROVE  LET new == [it EXCEPT ![i].pc = p]
           IN  /\ new \in [Items -> ItemType]
               /\ new[i] = [pc |-> p, tries |-> it[i].tries, good |-> it[i].good]
               /\ \A j \in Items : j # i => new[j] = it[j]
BY DEF ItemType

(* While an item is neither done nor counted, there is room to count it.   *)
LEMMA CountsRoom ==
    ASSUME TypeInv, CountOK, NEW i \in Items, i \notin run.done, item[i].pc # "counted"
    PROVE  /\ run.completed + run.failed < N
           /\ Cardinality(run.done \cup CountedItems \cup {i}) = run.completed + run.failed + 1
<1>. DEFINE S == run.done \cup CountedItems
<1>1. N \in Nat /\ IsFiniteSet(Items) /\ Cardinality(Items) = N
    BY ItemsAssumption, FS_Interval DEF Items
<1>2. S \subseteq Items /\ i \notin S /\ S \cup {i} \subseteq Items
    BY DEF TypeInv, CountedItems, RunType
<1>3. IsFiniteSet(S) /\ IsFiniteSet(S \cup {i}) /\ Cardinality(S \cup {i}) <= N
    BY <1>1, <1>2, FS_Subset
<1>4. Cardinality(S \cup {i}) = Cardinality(S) + 1 /\ Cardinality(S) \in Nat
    BY <1>2, <1>3, FS_AddElement, FS_CardinalityType
<1>5. Cardinality(S) = run.completed + run.failed
    BY DEF CountOK
<1>. QED BY <1>1, <1>3, <1>4, <1>5

(* What a scan of the files counts. *)
LEMMA Scanning ==
    ASSUME TypeInv
    PROVE  /\ Scanned \subseteq Items /\ Successes \subseteq Scanned
           /\ IsFiniteSet(Scanned)
           /\ Cardinality(Successes) \in 0..N /\ Cardinality(Scanned \ Successes) \in 0..N
           /\ Cardinality(Successes) + Cardinality(Scanned \ Successes) = Cardinality(Scanned)
<1>1. N \in Nat /\ IsFiniteSet(Items) /\ Cardinality(Items) = N
    BY ItemsAssumption, FS_Interval DEF Items
<1>2. file["out"].lines \in Seq(0..N) /\ file["err"].lines \in Seq(0..N)
    BY DEF TypeInv, Files, FileType
<1>3. Scanned \subseteq Items /\ Successes \subseteq Scanned
    BY <1>1, <1>2, RangeIn DEF Scanned, Successes, Readable, Items
<1>4. IsFiniteSet(Scanned) /\ IsFiniteSet(Successes) /\ IsFiniteSet(Scanned \ Successes)
    BY <1>1, <1>3, FS_Subset
<1>5. Cardinality(Scanned) <= N /\ Cardinality(Scanned) \in Nat
      /\ Cardinality(Successes) \in Nat /\ Cardinality(Scanned \ Successes) \in Nat
    BY <1>1, <1>3, <1>4, FS_Subset, FS_CardinalityType
<1>6. Cardinality(Scanned \ Successes) = Cardinality(Scanned) - Cardinality(Scanned \cap Successes)
    BY <1>4, FS_Difference
<1>7. Scanned \cap Successes = Successes
    BY <1>3
<1>8. Cardinality(Scanned \ Successes) = Cardinality(Scanned) - Cardinality(Successes)
    BY <1>6, <1>7
<1>. HIDE DEF Scanned, Successes
<1>. QED BY <1>1, <1>3, <1>4, <1>5, <1>8

(* Each file's next content when lines are appended to it, whole or not. *)
LEMMA PartOK ==
    ASSUME TypeInv
    PROVE  /\ Part \in Files
           /\ file[Part] \in FileType /\ flush[Part] \in Seq(Items)
           /\ Extends(file[Part], flush[Part], Appended(file[Part], flush[Part]))
           /\ \A g \in CutShort(file[Part], flush[Part]) : Extends(file[Part], flush[Part], g)
<1>1. Part \in Files
    BY DEF Part, Files
<1>2. flush["out"] \in Seq(Items) /\ flush["err"] \in Seq(Items)
    BY DEF TypeInv, FlushType
<1>3. file[Part] \in FileType /\ flush[Part] \in Seq(Items)
    BY <1>1, <1>2 DEF TypeInv, Files
<1>4. flush[Part] \in Seq(0..N)
    BY <1>3, ItemsAssumption DEF Items
<1>. QED BY <1>1, <1>3, <1>4, Appending, Cutting

(* Records of these types. *)
LEMMA Sets ==
    /\ \A r \in RunType, p \in {"off", "loop", "gather", "drain", "write", "final"} :
          [r EXCEPT !.pc = p] \in RunType
    /\ \A r \in RunType, e \in Ends : [r EXCEPT !.pc = "drain", !.end = e] \in RunType
    /\ \A r \in RunType : [r EXCEPT !.pc = "final", !.end = "failed"] \in RunType
    /\ \A r \in RunType, s \in Stops : [r EXCEPT !.stop = s] \in RunType
    /\ \A r \in RunType, n \in 1..N : [r EXCEPT !.next = n + 1] \in RunType
    /\ NoRun \in RunType /\ NoFlush \in FlushType
    /\ NewItem \in ItemType /\ Counted \in ItemType
    /\ [f \in Files |-> <<>>] \in [Files -> Seq(Items)]
    /\ [i \in Items |-> NewItem] \in [Items -> ItemType]
    /\ Empty \in FileType
<1>. N \in Nat /\ MaxRetries \in Nat
    BY ItemsAssumption
<1>1. \A r \in RunType, p \in {"off", "loop", "gather", "drain", "write", "final"} :
          [r EXCEPT !.pc = p] \in RunType
    BY DEF RunType
<1>2. \A r \in RunType, e \in Ends : [r EXCEPT !.pc = "drain", !.end = e] \in RunType
    BY DEF RunType
<1>3. \A r \in RunType : [r EXCEPT !.pc = "final", !.end = "failed"] \in RunType
    BY DEF RunType, Ends
<1>4. \A r \in RunType, s \in Stops : [r EXCEPT !.stop = s] \in RunType
    BY DEF RunType
<1>5. \A r \in RunType, n \in 1..N : [r EXCEPT !.next = n + 1] \in RunType
    BY DEF RunType
<1>6. NoRun \in RunType /\ NoFlush \in FlushType
    BY DEF NoRun, RunType, NoFlush, FlushType, Ends, TheRun
<1>7. NewItem \in ItemType /\ Counted \in ItemType
  <2>1. NewItem \in ItemType
    BY DEF NewItem, ItemType, Pcs
  <2>. QED BY <2>1 DEF Counted, ItemType, Pcs
<1>8. [f \in Files |-> <<>>] \in [Files -> Seq(Items)] /\ Empty \in FileType
    BY DEF Empty, FileType
<1>. QED BY <1>1, <1>2, <1>3, <1>4, <1>5, <1>6, <1>7, <1>8

(* The flush is the run's or an item's. *)
LEMMA ByItem ==
    ASSUME TypeInv
    PROVE  flush.by \in Items \cup {0, TheRun} /\ 0 \notin Items /\ TheRun \notin Items
<1>1. flush.by \in 0..TheRun
    BY DEF TypeInv, FlushType
<1>. QED BY <1>1, ItemsAssumption DEF Items, TheRun

(* An item counts once, as a success or as a failure. *)
LEMMA BumpType ==
    ASSUME TypeInv, NEW i \in Items, run.completed + run.failed < N
    PROVE  /\ Bump(i) \in RunType
           /\ Bump(i).completed + Bump(i).failed = run.completed + run.failed + 1
           /\ Bump(i).completed = IF item[i].good THEN run.completed + 1 ELSE run.completed
           /\ Bump(i).failed = IF item[i].good THEN run.failed ELSE run.failed + 1
           /\ Bump(i).pc = run.pc /\ Bump(i).done = run.done /\ Bump(i).next = run.next
           /\ Bump(i).stop = run.stop /\ Bump(i).end = run.end
<1>1. run \in RunType /\ N \in Nat
    BY ItemsAssumption DEF TypeInv
<1>2. CASE item[i].good
  <2>1. Bump(i) = [run EXCEPT !.completed = @ + 1]
    BY <1>1, <1>2 DEF Bump, RunType
  <2>. QED BY <1>1, <1>2, <2>1 DEF RunType
<1>3. CASE ~item[i].good
  <2>1. Bump(i) = [run EXCEPT !.failed = @ + 1]
    BY <1>1, <1>3 DEF Bump, RunType
  <2>. QED BY <1>1, <1>3, <2>1 DEF RunType
<1>. QED BY <1>2, <1>3

(* Damage concerns items only. *)
LEMMA DamagedIn ==
    ASSUME NEW f \in FileType, NEW ls \in Seq(Items), NEW g
    PROVE  Damaged(f, ls, g) \subseteq Items
<1>1. Range(f.lines) \subseteq 0..N /\ Range(ls) \subseteq Items
    BY RangeIn DEF FileType
<1>. QED BY <1>1, ItemsAssumption DEF Damaged, Readable, Items

(* The types are kept by every step. *)
LEMMA TypeStep ==
    ASSUME TypeInv, TriesOK, PhaseOK, ItemsOK, CountOK, [Next]_vars
    PROVE  TypeInv'
<1>. USE DEF memory
<1>0. /\ N \in Nat /\ FlushSize \in Nat \ {0} /\ MaxRetries \in Nat /\ Tpm \in Nat
      /\ Estimate \in [Items -> Nat \ {0}] /\ MaxEvents \in Nat
    BY ItemsAssumption DEF Items
<1>. DEFINE NoLines == [f \in Files |-> <<>>]
            Anew == [i \in Items |-> NewItem]
<1>00. /\ NoLines \in [Files -> Seq(Items)] /\ (buf' = NoLines => BufOK')
       /\ Anew \in [Items -> ItemType]
       /\ bucket \in 0..Tpm /\ Tpm \in 0..Tpm
       /\ (Happens => events' \in 0..MaxEvents)
  <2>1. NoLines \in [Files -> Seq(Items)] /\ Anew \in [Items -> ItemType]
    BY Sets
  <2>2. ASSUME buf' = NoLines
        PROVE  BufOK'
    <3>1. \A f \in Files : NoLines[f] = <<>> /\ Len(<<>>) = 0
        OBVIOUS
    <3>. HIDE DEF NoLines
    <3>. QED BY <1>0, <2>1, <2>2, <3>1 DEF BufOK
  <2>. QED BY <1>0, <2>1, <2>2 DEF TypeInv, Happens
<1>000. run \in RunType /\ item \in [Items -> ItemType] /\ row \in RowType
        /\ file \in [Files -> FileType]
    BY DEF TypeInv
<1>. HIDE DEF NoLines, Anew
<1>1. CASE UNCHANGED vars
    BY <1>1 DEF TypeInv, vars, BufOK
<1>2. CASE Load
  <2>. DEFINE c == Restored.completed
              d == Restored.failed
  <2>1. c \in 0..N /\ d \in 0..N /\ Scanned \subseteq Items
    BY Scanning DEF Restored
  <2>. HIDE DEF c, d
  <2>2. run' \in RunType
    <3>1. run' = [NoRun EXCEPT !.pc = "loop", !.done = Scanned, !.completed = c, !.failed = d]
        BY <1>2 DEF Load, c, d
    <3>2. run' = [pc |-> "loop", done |-> Scanned, next |-> 1, completed |-> c, failed |-> d,
                  stop |-> "none", end |-> "none"]
        BY <3>1 DEF NoRun
    <3>. QED BY <2>1, <3>2, <1>0 DEF RunType, Ends
  <2>3. row' \in RowType
    BY <1>2, <2>1 DEF Load, RowType, c, d
  <2>. QED BY <1>2, <2>2, <2>3, <1>00 DEF Load, TypeInv, BufOK, Anew
<1>3. ASSUME NEW i \in Items, Dispatch(i)
      PROVE  TypeInv'
  <2>1. i \in 1..N /\ "waiting" \in Pcs
    BY DEF Items, Pcs
  <2>2. item' \in [Items -> ItemType] /\ run' \in RunType
    BY <1>3, <2>1, <1>000, ItemSet, Sets DEF Dispatch
  <2>. QED BY <1>3, <2>2 DEF Dispatch, TypeInv, BufOK
<1>4. CASE AllDispatched
    BY <1>4, <1>000, Sets DEF AllDispatched, TypeInv, BufOK
<1>5. ASSUME NEW e \in Ends, Abort(e), events' \in 0..MaxEvents
      PROVE  TypeInv'
  <2>1. /\ flush.out \in Seq(Items) /\ flush.err \in Seq(Items)
        /\ flush["out"] = flush.out /\ flush["err"] = flush.err
    BY DEF TypeInv, FlushType
  <2>2. stray' \subseteq StrayType
    <3>1. ASSUME NEW f \in Files
          PROVE  [file |-> f, lines |-> flush[f], landed |-> FALSE] \in StrayType
        BY <2>1 DEF StrayType, Files
    <3>. QED BY <1>5, <3>1 DEF Abort, TypeInv, Files
  <2>3. item' \in [Items -> ItemType]
    BY <1>5, <1>000, Sets DEF Abort
  <2>. QED BY <1>5, <1>000, <2>2, <2>3, Sets DEF Abort, TypeInv, BufOK
<1>6. CASE LoopStops
    BY <1>6, <1>5, <1>000 DEF LoopStops, TypeInv, RunType, Ends
<1>7. CASE LoopFails
    BY <1>7, <1>5, <1>00 DEF LoopFails, Ends
<1>8. CASE Gathered
  <2>1. EndOf(run) \in Ends
    BY <1>000 DEF EndOf, RunType, Ends, Finished
  <2>. QED BY <1>8, <2>1, <1>000, Sets DEF Gathered, TypeInv, BufOK
<1>9. CASE Drain
  <2>1. flush' \in FlushType
    BY <1>9, <1>0 DEF Drain, TypeInv, BufOK, FlushType, TheRun, Files
  <2>. QED BY <1>9, <2>1, <1>00, <1>000, Sets DEF Drain, TypeInv, NoLines
<1>10. CASE Finalize
  <2>1. row' \in RowType
    <3>1. CASE run.end = "failed"
      <4>1. row' = [row EXCEPT !.status = "failed"]
          BY <1>10, <3>1 DEF Finalize
      <4>. QED BY <4>1, <1>000 DEF RowType, Terminal
    <3>2. CASE run.end # "failed"
      <4>1. row' = [status |-> run.end, completed |-> run.completed, failed |-> run.failed]
          BY <1>10, <3>2 DEF Finalize
      <4>2. run.end # "none" /\ run.end \in Ends /\ run.completed \in 0..N /\ run.failed \in 0..N
          BY <1>10, <1>000 DEF Finalize, PhaseOK, RunType
      <4>3. run.end \in Terminal \cup {"queued", "running", "paused"}
          BY <3>2, <4>2 DEF Ends, Stops, Terminal
      <4>. QED BY <4>1, <4>2, <4>3 DEF RowType
    <3>. QED BY <3>1, <3>2
  <2>. QED BY <1>10, <2>1, <1>00, Sets DEF Finalize, TypeInv, BufOK, Anew
<1>11. ASSUME NEW i \in Items, Enter(i)
      PROVE  TypeInv'
  <2>1. (IF run.stop = "none" THEN "limited" ELSE "skipped") \in Pcs
    BY DEF Pcs
  <2>2. item' \in [Items -> ItemType]
    BY <1>11, <2>1, <1>000, ItemSet DEF Enter
  <2>. QED BY <1>11, <2>2 DEF Enter, TypeInv, BufOK
<1>12. ASSUME NEW i \in Items, Acquire(i)
      PROVE  TypeInv'
  <2>1. bucket' \in 0..Tpm
    BY <1>12, <1>0, <1>00 DEF Acquire
  <2>2. item' \in [Items -> ItemType]
    BY <1>12, <1>0, <1>000 DEF Acquire, ItemType, Pcs, TriesOK
  <2>. QED BY <1>12, <2>1, <2>2 DEF Acquire, TypeInv, BufOK
<1>13. CASE Refill
  <2>1. bucket' \in 0..Tpm
    BY <1>13, <1>0, <1>00 DEF Refill, Capacity
  <2>. QED BY <1>13, <2>1 DEF Refill, TypeInv, BufOK
<1>14. ASSUME NEW i \in Items, Answer(i)
      PROVE  TypeInv'
  <2>1. \A good \in BOOLEAN : [pc |-> "answered", tries |-> 0, good |-> good] \in ItemType
    BY <1>0 DEF ItemType, Pcs
  <2>2. item' \in [Items -> ItemType]
    <3>1. CASE \E good \in BOOLEAN :
                item' = [item EXCEPT ![i] = [pc |-> "answered", tries |-> 0, good |-> good]]
        BY <3>1, <2>1, <1>000
    <3>2. CASE item' = [item EXCEPT ![i].pc = "limited"]
        BY <3>2, <1>000, ItemSet DEF Pcs
    <3>. QED BY <1>14, <3>1, <3>2 DEF Answer
  <2>. QED BY <1>14, <2>2 DEF Answer, TypeInv, BufOK
<1>15. ASSUME NEW i \in Items, Store(i)
      PROVE  TypeInv'
  <2>. DEFINE f == IF item[i].good THEN "out" ELSE "err"
              b == [buf EXCEPT ![f] = Append(@, i)]
  <2>1. f \in Files /\ b \in [Files -> Seq(Items)] /\ b[f] = Append(buf[f], i)
        /\ \A g \in Files : g # f => b[g] = buf[g]
    BY DEF TypeInv, BufOK, Files
  <2>2. item[i].pc = "answered" /\ i \notin run.done /\ i \in 0..TheRun
    <3>1. item[i].pc = "answered"
        BY <1>15 DEF Store
    <3>. QED BY <3>1, <1>0 DEF ItemsOK, TheRun, Items
  <2>3. CASE Full(b[f])
    <3>1. /\ flush' = [by |-> i, out |-> b["out"], err |-> b["err"]]
          /\ buf' = NoLines
          /\ item' = [item EXCEPT ![i].pc = "flushing"]
          /\ UNCHANGED <<run, row, file, stray, bucket, harmed, events>>
        BY <1>15, <2>3 DEF Store, NoLines
    <3>2. item' \in [Items -> ItemType]
        BY <3>1, <1>000, ItemSet DEF Pcs
    <3>3. flush' \in FlushType
        <4>. HIDE DEF b
        <4>. QED BY <2>1, <2>2, <3>1 DEF Files, FlushType
    <3>. QED BY <3>1, <3>2, <3>3, <1>00 DEF TypeInv
  <2>4. CASE ~Full(b[f])
    <3>1. /\ buf' = b /\ item' = [item EXCEPT ![i] = Counted] /\ run' = Bump(i)
          /\ UNCHANGED <<flush, row, file, stray, bucket, harmed, events>>
        BY <1>15, <2>4 DEF Store
    <3>2. item' \in [Items -> ItemType]
        BY <3>1, <1>000, Sets
    <3>3. BufOK'
        <4>1. Len(b[f]) < FlushSize
            BY <2>1, <2>4, <1>0 DEF Full
        <4>. HIDE DEF b, f
        <4>. QED BY <2>1, <3>1, <4>1 DEF TypeInv, BufOK
    <3>4. run.completed + run.failed < N
        BY <2>2, CountsRoom
    <3>5. run' \in RunType
        BY <3>1, <3>4, BumpType
    <3>. QED BY <3>1, <3>2, <3>3, <3>5 DEF TypeInv
  <2>. QED BY <2>3, <2>4
<1>16. CASE Write
  <2>. DEFINE g == Appended(file[Part], flush[Part])
  <2>1. /\ Extends(file[Part], flush[Part], g) /\ g \in FileType /\ Part \in Files
    BY PartOK DEF Extends
  <2>2. /\ file' = [file EXCEPT ![Part] = g] /\ flush' = [flush EXCEPT ![Part] = <<>>]
        /\ harmed' = harmed \cup Damaged(file[Part], flush[Part], g)
        /\ UNCHANGED <<row, run, item, buf, stray, bucket, events>>
    BY <1>16 DEF Write
  <2>. HIDE DEF g
  <2>3. file' \in [Files -> FileType]
    BY <2>1, <2>2, <1>000
  <2>4. flush' \in FlushType
    <3>1. CASE Part = "out"
      <4>0. <<>> \in Seq(Items)
          OBVIOUS
      <4>1. PICK e \in Seq(Items) : e = <<>>
          BY <4>0, Zenon
      <4>2. flush' = [flush EXCEPT !["out"] = e] /\ flush \in FlushType
          BY <2>2, <3>1, <4>1, Zenon DEF TypeInv
      <4>. HIDE <4>1
      <4>. QED BY <4>2 DEF FlushType
    <3>2. CASE Part = "err"
      <4>0. <<>> \in Seq(Items)
          OBVIOUS
      <4>1. PICK e \in Seq(Items) : e = <<>>
          BY <4>0, Zenon
      <4>2. flush' = [flush EXCEPT !["err"] = e] /\ flush \in FlushType
          BY <2>2, <3>2, <4>1, Zenon DEF TypeInv
      <4>. HIDE <4>1
      <4>. QED BY <4>2 DEF FlushType
    <3>. QED BY <3>1, <3>2, <2>1 DEF Files
  <2>5. harmed' \subseteq Items
    <3>1. Damaged(file[Part], flush[Part], g) \subseteq Items
        BY PartOK, DamagedIn
    <3>. QED BY <3>1, <2>2 DEF TypeInv
  <2>. QED BY <2>2, <2>3, <2>4, <2>5 DEF TypeInv, BufOK
<1>17. CASE Flushed
  <2>1. CASE flush.by = TheRun
    <3>1. row' \in RowType
        BY <1>17, <2>1, <1>000 DEF Flushed, RowType, RunType
    <3>. QED BY <1>17, <2>1, <3>1, <1>000, Sets DEF Flushed, TypeInv, BufOK
  <2>2. CASE flush.by # TheRun
    <3>1. /\ item' = [item EXCEPT ![flush.by] = Counted]
          /\ run' = Bump(flush.by) /\ flush' = NoFlush /\ flush.by # 0
          /\ UNCHANGED <<row, file, buf, stray, bucket, harmed, events>>
        BY <1>17, <2>2 DEF Flushed
    <3>2. flush.by \in Items
        BY <3>1, <2>2, ByItem
    <3>3. item[flush.by].pc = "flushing" /\ flush.by \notin run.done
        BY <3>2 DEF ItemsOK
    <3>4. run.completed + run.failed < N
        BY <3>2, <3>3, CountsRoom
    <3>5. run' \in RunType
        BY <3>1, <3>2, <3>4, BumpType
    <3>6. item' \in [Items -> ItemType]
        BY <3>1, <3>2, <1>000, Sets
    <3>. QED BY <3>1, <3>5, <3>6, Sets DEF TypeInv, BufOK
  <2>. QED BY <2>1, <2>2
<1>18. CASE WriteFails
  <2>1. PICK g \in CutShort(file[Part], flush[Part]) :
            /\ file' = [file EXCEPT ![Part] = g]
            /\ harmed' = harmed \cup Damaged(file[Part], flush[Part], g) \cup Range(flush.err)
                            \cup ({flush.by} \cap Items)
    BY <1>18 DEF WriteFails
  <2>2. g \in FileType /\ Part \in Files
    BY PartOK DEF Extends
  <2>3. file' \in [Files -> FileType]
    BY <2>1, <2>2, <1>000
  <2>4. harmed' \subseteq Items
    <3>1. Damaged(file[Part], flush[Part], g) \subseteq Items
        BY PartOK, DamagedIn
    <3>2. Range(flush.err) \subseteq Items
        BY RangeIn DEF TypeInv, FlushType
    <3>. QED BY <3>1, <3>2, <2>1 DEF TypeInv
  <2>5. item' \in [Items -> ItemType] /\ run' \in RunType /\ flush' = NoFlush
        /\ events' \in 0..MaxEvents /\ UNCHANGED <<row, buf, stray, bucket>>
    <3>1. CASE flush.by = TheRun
        BY <1>18, <3>1, <1>00, <1>000, Sets DEF WriteFails
    <3>2. CASE flush.by # TheRun
      <4>1. /\ item' = [item EXCEPT ![flush.by].pc = "raised"] /\ flush.by # 0
            /\ UNCHANGED <<run, row, buf, stray, bucket>> /\ flush' = NoFlush /\ Happens
          BY <1>18, <3>2 DEF WriteFails, WritingNow
      <4>2. flush.by \in Items
          BY <4>1, <3>2, ByItem
      <4>. QED BY <4>1, <4>2, <1>00, <1>000, ItemSet DEF Pcs
    <3>. QED BY <3>1, <3>2
  <2>. QED BY <2>3, <2>4, <2>5, Sets DEF TypeInv, BufOK
<1>19. ASSUME NEW s \in stray, Land(s)
      PROVE  TypeInv'
  <2>. DEFINE g == Appended(file[s.file], s.lines)
  <2>1. s.file \in Files /\ s.lines \in Seq(Items) /\ file[s.file] \in FileType
    BY DEF TypeInv, StrayType
  <2>2. Extends(file[s.file], s.lines, g)
    <3>1. s.lines \in Seq(0..N)
        BY <2>1, <1>0 DEF Items
    <3>. QED BY <2>1, <3>1, Appending
  <2>3. /\ file' = [file EXCEPT ![s.file] = g]
        /\ harmed' = harmed \cup Damaged(file[s.file], s.lines, g) \cup Range(s.lines)
        /\ stray' = (stray \ {s}) \cup {[s EXCEPT !.landed = TRUE]}
        /\ UNCHANGED <<row, run, item, buf, flush, bucket, events>>
    BY <1>19 DEF Land
  <2>. HIDE DEF g
  <2>4. Damaged(file[s.file], s.lines, g) \subseteq Items /\ Range(s.lines) \subseteq Items
    BY <2>1, DamagedIn, RangeIn
  <2>5. harmed' \subseteq Items
    BY <2>3, <2>4 DEF TypeInv
  <2>6. stray' \subseteq StrayType
    BY <2>3 DEF TypeInv, StrayType
  <2>7. file' \in [Files -> FileType]
    BY <2>1, <2>2, <2>3, <1>000 DEF Extends
  <2>. QED BY <2>3, <2>5, <2>6, <2>7 DEF TypeInv, BufOK
<1>20. ASSUME NEW status \in Stops, Stop(status)
      PROVE  TypeInv'
    BY <1>20, <1>00, <1>000, Sets DEF Stop, TypeInv, BufOK
<1>21. CASE Crash
  <2>1. file' \in [Files -> FileType]
    <3>1. CASE WritingNow
      <4>1. PICK g \in CutShort(file[Part], flush[Part]) : file' = [file EXCEPT ![Part] = g]
          BY <1>21, <3>1 DEF Crash
      <4>2. g \in FileType /\ Part \in Files
          BY PartOK DEF Extends
      <4>. QED BY <4>1, <4>2, <1>000
    <3>2. CASE ~WritingNow
        BY <1>21, <3>2, <1>000 DEF Crash
    <3>. QED BY <3>1, <3>2
  <2>2. row' \in RowType
    BY <1>21, <1>000 DEF Crash, RowType
  <2>. QED BY <1>21, <2>1, <2>2, <1>00, Sets DEF Crash, TypeInv, NoLines, Anew
<1>22. CASE Resume
  <2>1. row' \in RowType
    BY <1>22, <1>000 DEF Resume, RowType
  <2>. QED BY <1>22, <2>1, <1>00 DEF Resume, TypeInv, BufOK
<1>23. ASSUME NEW commits \in BOOLEAN, RetryFailed(commits)
      PROVE  TypeInv'
  <2>1. file' \in [Files -> FileType]
    BY <1>23, <1>000, Sets DEF RetryFailed
  <2>2. harmed' \subseteq Items
    <3>1. file["err"].lines \in Seq(0..N)
        BY <1>000 DEF Files, FileType
    <3>2. Readable(file["err"]) \subseteq Items
        BY <3>1, RangeIn, <1>0 DEF Readable, Items
    <3>. QED BY <3>2, <1>23 DEF RetryFailed, TypeInv
  <2>3. row' \in RowType
    <3>. DEFINE q == [row EXCEPT !.status = "queued"]
    <3>1. q \in RowType
        BY <1>000 DEF RowType
    <3>2. [row EXCEPT !.status = "queued", !.failed = 0] \in RowType
      <4>1. [q EXCEPT !.failed = 0] \in RowType
        <5>. HIDE DEF q
        <5>. QED BY <3>1, <1>0 DEF RowType
      <4>. QED BY <4>1, Zenon
    <3>. QED BY <3>2, <1>23, <1>000 DEF RetryFailed
  <2>. QED BY <1>23, <2>1, <2>2, <2>3, <1>00 DEF RetryFailed, TypeInv, BufOK
<1>. QED BY <1>1, <1>2, <1>3, <1>4, <1>6, <1>7, <1>8, <1>9, <1>10, <1>11, <1>12, <1>13, <1>14,
            <1>15, <1>16, <1>17, <1>18, <1>19, <1>20, <1>21, <1>22, <1>23
         DEF Next, Looping, Processing, Writing, Faults, Requests, Stops

(* What stops a run is its end. *)
LEMMA RunStop ==
    ASSUME TypeInv
    PROVE  /\ run.stop \in Ends /\ run.stop \notin Finished
           /\ "failed" \in Ends /\ "failed" \notin Finished
BY DEF TypeInv, RunType, Ends, Stops, Finished

(* A phase of the run, and the state of the lock that goes with it. *)
LEMMA FlushSet ==
    ASSUME TypeInv, Part \in Files
    PROVE  [flush EXCEPT ![Part] = <<>>].by = flush.by
BY DEF TypeInv, FlushType, Files

(* The retries, the lock, the places of the items and the counters: one    *)
(* lemma each, one case per action.                                        *)
LEMMA TriesStep ==
    ASSUME TypeInv, TriesOK, ItemsOK, [Next]_vars
    PROVE  TriesOK'
<1>0. item \in [Items -> ItemType] /\ MaxRetries \in Nat
    BY ItemsAssumption DEF TypeInv
<1>. USE DEF memory
<1>1. CASE UNCHANGED vars
    BY <1>1, <1>0 DEF vars, TriesOK, ItemType, NewItem, Counted, vars
<1>2. CASE Load
    BY <1>2, <1>0 DEF Load, TriesOK, ItemType, NewItem, Counted, vars
<1>3. ASSUME NEW i \in Items, Dispatch(i)
      PROVE  TriesOK'
  <2>1. item' = item \/ item' = [item EXCEPT ![i].pc = "waiting"]
    BY <1>3 DEF Dispatch
  <2>2. "waiting" \in Pcs /\ item[i].tries = 0
    BY <1>3, <1>0 DEF Pcs, Dispatch, TriesOK, ItemsOK, Items, TypeInv, RunType
  <2>3. ASSUME item' = [item EXCEPT ![i].pc = "waiting"]
        PROVE  item'[i].tries = 0 /\ item'[i].pc = "waiting" /\ \A j \in Items : j # i => item'[j] = item[j]
    <3>1. item'[i] = [pc |-> "waiting", tries |-> item[i].tries, good |-> item[i].good]
          /\ \A j \in Items : j # i => item'[j] = item[j]
        BY <2>2, <2>3, <1>0, ItemSet, Zenon
    <3>. QED BY <3>1, <2>2
  <2>. QED BY <2>1, <2>3 DEF TriesOK
<1>4. CASE AllDispatched
    BY <1>4, <1>0 DEF AllDispatched, TriesOK, ItemType, NewItem, Counted, vars
<1>5. ASSUME NEW e \in Ends, e \notin Finished \cup {"none"}, Abort(e), run.pc = "loop"
      PROVE  TriesOK'
    BY <1>5, <1>0 DEF Abort, TriesOK, ItemType, NewItem, Counted, vars
<1>6. CASE LoopStops
    BY <1>6, <1>5, RunStop DEF LoopStops
<1>7. CASE LoopFails
    BY <1>7, <1>5, RunStop DEF LoopFails
<1>8. CASE Gathered
    BY <1>8, <1>0 DEF Gathered, TriesOK, ItemType, NewItem, Counted, vars
<1>9. CASE Drain
    BY <1>9, <1>0 DEF Drain, TriesOK, ItemType, NewItem, Counted, vars
<1>10. CASE Finalize
    BY <1>10, <1>0 DEF Finalize, TriesOK, ItemType, NewItem, Counted, vars
<1>11. ASSUME NEW i \in Items, Enter(i)
      PROVE  TriesOK'
    BY <1>11, <1>0 DEF Enter, TriesOK, ItemType, NewItem, Counted, vars
<1>12. ASSUME NEW i \in Items, Acquire(i)
      PROVE  TriesOK'
    BY <1>12, <1>0 DEF Acquire, TriesOK, ItemType, NewItem, Counted, vars
<1>13. CASE Refill
    BY <1>13, <1>0 DEF Refill, TriesOK, ItemType, NewItem, Counted, vars
<1>14. ASSUME NEW i \in Items, Answer(i)
      PROVE  TriesOK'
    BY <1>14, <1>0 DEF Answer, TriesOK, ItemType, NewItem, Counted, vars
<1>15. ASSUME NEW i \in Items, Store(i)
      PROVE  TriesOK'
    BY <1>15, <1>0 DEF Store, TriesOK, ItemType, NewItem, Counted, vars
<1>16. CASE Write
    BY <1>16, <1>0 DEF Write, TriesOK, ItemType, NewItem, Counted, vars
<1>17. CASE Flushed
    BY <1>17, <1>0 DEF Flushed, TriesOK, ItemType, NewItem, Counted, vars
<1>18. CASE WriteFails
    BY <1>18, <1>0 DEF WriteFails, TriesOK, ItemType, NewItem, Counted, vars
<1>19. ASSUME NEW s \in stray, Land(s)
      PROVE  TriesOK'
    BY <1>19, <1>0 DEF Land, TriesOK, ItemType, NewItem, Counted, vars
<1>20. ASSUME NEW status \in Stops, Stop(status)
      PROVE  TriesOK'
    BY <1>20, <1>0 DEF Stop, TriesOK, ItemType, NewItem, Counted, vars
<1>21. CASE Crash
    BY <1>21, <1>0 DEF Crash, TriesOK, ItemType, NewItem, Counted, vars
<1>22. CASE Resume
    BY <1>22, <1>0 DEF Resume, TriesOK, ItemType, NewItem, Counted, vars
<1>23. ASSUME NEW commits \in BOOLEAN, RetryFailed(commits)
      PROVE  TriesOK'
    BY <1>23, <1>0 DEF RetryFailed, TriesOK, ItemType, NewItem, Counted, vars
<1>. QED BY <1>1, <1>2, <1>3, <1>4, <1>6, <1>7, <1>8, <1>9, <1>10, <1>11, <1>12, <1>13, <1>14,
            <1>15, <1>16, <1>17, <1>18, <1>19, <1>20, <1>21, <1>22, <1>23
         DEF Next, Looping, Processing, Writing, Faults, Requests, Stops

LEMMA PhaseStep ==
    ASSUME TypeInv, PhaseOK, ItemsOK, [Next]_vars
    PROVE  PhaseOK'
<1>0. run \in RunType /\ row \in RowType /\ N \in Nat
    BY ItemsAssumption DEF TypeInv
<1>. USE DEF memory
<1>1. CASE UNCHANGED vars
    BY <1>1, <1>0 DEF vars, PhaseOK, RunType, RowType, NoRun, NoFlush, Running, vars, Terminal, Finished
<1>2. CASE Load
    BY <1>2, <1>0 DEF Load, PhaseOK, RunType, RowType, NoRun, NoFlush, Running, vars, Terminal, Finished
<1>3. ASSUME NEW i \in Items, Dispatch(i)
      PROVE  PhaseOK'
    BY <1>3, <1>0 DEF Dispatch, PhaseOK, RunType, RowType, NoRun, NoFlush, Running, vars, Terminal, Finished
<1>4. CASE AllDispatched
    BY <1>4, <1>0 DEF AllDispatched, PhaseOK, RunType, RowType, NoRun, NoFlush, Running, vars, Terminal, Finished
<1>5. ASSUME NEW e \in Ends, e \notin Finished \cup {"none"}, Abort(e), run.pc = "loop"
      PROVE  PhaseOK'
  <2>1. run' = [run EXCEPT !.pc = "drain", !.end = e] /\ flush' = NoFlush /\ UNCHANGED <<row, buf>>
    BY <1>5 DEF Abort
  <2>2. run'.pc = "drain" /\ run'.end = e
    BY <2>1, <1>0 DEF RunType
  <2>3. flush'.by = 0 /\ 0 # TheRun
    BY <2>1, <1>0 DEF NoFlush, TheRun
  <2>. QED BY <1>5, <2>1, <2>2, <2>3 DEF PhaseOK, Running
<1>6. CASE LoopStops
    BY <1>6, <1>5, RunStop DEF LoopStops
<1>7. CASE LoopFails
    BY <1>7, <1>5, RunStop DEF LoopFails
<1>8. CASE Gathered
  <2>1. EndOf(run) # "none"
    BY DEF EndOf
  <2>2. run' = [run EXCEPT !.pc = "drain", !.end = EndOf(run)]
        /\ UNCHANGED <<row, item, buf, flush>> /\ run.pc = "gather"
    BY <1>8 DEF Gathered
  <2>3. run'.pc = "drain" /\ run'.end = EndOf(run)
    BY <2>2, <1>0 DEF RunType
  <2>. QED BY <2>1, <2>2, <2>3 DEF PhaseOK, Running
<1>9. CASE Drain
    BY <1>9, <1>0 DEF Drain, PhaseOK, RunType, RowType, NoRun, NoFlush, Running, vars, Terminal, Finished
<1>10. CASE Finalize
  <2>1. run' = NoRun /\ UNCHANGED <<buf, flush>> /\ run.pc = "final"
    BY <1>10 DEF Finalize
  <2>2. row'.status # "running"
    <3>1. CASE run.end = "failed"
        BY <1>10, <3>1, <1>0 DEF Finalize, RowType
    <3>2. CASE run.end # "failed"
      <4>1. row'.status = run.end
          BY <1>10, <3>2 DEF Finalize
      <4>. QED BY <4>1, <1>0 DEF RunType, Ends, Stops, Finished
    <3>. QED BY <3>1, <3>2
  <2>3. run'.pc = "off" /\ run'.end = "none"
    BY <2>1 DEF NoRun
  <2>. QED BY <2>1, <2>2, <2>3 DEF PhaseOK, Running
<1>11. ASSUME NEW i \in Items, Enter(i)
      PROVE  PhaseOK'
    BY <1>11, <1>0 DEF Enter, PhaseOK, RunType, RowType, NoRun, NoFlush, Running, vars, Terminal, Finished
<1>12. ASSUME NEW i \in Items, Acquire(i)
      PROVE  PhaseOK'
    BY <1>12, <1>0 DEF Acquire, PhaseOK, RunType, RowType, NoRun, NoFlush, Running, vars, Terminal, Finished
<1>13. CASE Refill
    BY <1>13, <1>0 DEF Refill, PhaseOK, RunType, RowType, NoRun, NoFlush, Running, vars, Terminal, Finished
<1>14. ASSUME NEW i \in Items, Answer(i)
      PROVE  PhaseOK'
    BY <1>14, <1>0 DEF Answer, PhaseOK, RunType, RowType, NoRun, NoFlush, Running, vars, Terminal, Finished
<1>15. ASSUME NEW i \in Items, Store(i)
      PROVE  PhaseOK'
  <2>1. Running /\ flush.by = 0 /\ row' = row
    BY <1>15 DEF Store, ItemsOK, InProgress
  <2>2. CASE flush' = flush /\ run' = Bump(i)
    <3>1. run'.pc = run.pc /\ run'.end = run.end
        BY <2>2, <1>0 DEF Bump, RunType
    <3>. QED BY <2>1, <2>2, <3>1 DEF PhaseOK, Running
  <2>3. CASE run' = run /\ flush'.by = i
    <3>1. i # TheRun /\ i # 0
        BY ByItem
    <3>. QED BY <2>1, <2>3, <3>1 DEF PhaseOK, Running
  <2>. QED BY <1>15, <2>2, <2>3 DEF Store
<1>16. CASE Write
  <2>1. flush'.by = flush.by /\ flush.by # 0 /\ UNCHANGED <<row, run, buf>>
    BY <1>16, PartOK, FlushSet DEF Write, WritingNow
  <2>. QED BY <2>1 DEF PhaseOK, Running
<1>17. CASE Flushed
  <2>1. flush' = NoFlush /\ flush'.by = 0 /\ 0 # TheRun /\ buf' = buf
    BY <1>17, <1>0 DEF Flushed, NoFlush, TheRun
  <2>2. CASE flush.by = TheRun
    <3>1. run' = [run EXCEPT !.pc = "final"] /\ row'.status = row.status
        BY <1>17, <2>2, <1>0 DEF Flushed, RowType
    <3>2. run'.pc = "final" /\ run'.end = run.end
        BY <3>1, <1>0 DEF RunType
    <3>. QED BY <2>1, <2>2, <3>1, <3>2 DEF PhaseOK, Running
  <2>3. CASE flush.by # TheRun
    <3>1. run' = Bump(flush.by) /\ row' = row
        BY <1>17, <2>3 DEF Flushed
    <3>2. run'.pc = run.pc /\ run'.end = run.end
        BY <3>1, <1>0 DEF Bump, RunType
    <3>3. run.pc # "off"
        BY <1>17, <2>3, ByItem DEF Flushed, ItemsOK
    <3>. QED BY <2>1, <2>3, <3>1, <3>2, <3>3 DEF PhaseOK, Running
  <2>. QED BY <2>2, <2>3
<1>18. CASE WriteFails
  <2>1. flush' = NoFlush /\ flush'.by = 0 /\ 0 # TheRun /\ UNCHANGED <<row, buf>>
    BY <1>18, <1>0 DEF WriteFails, NoFlush, TheRun
  <2>2. CASE flush.by = TheRun
    <3>1. run' = [run EXCEPT !.pc = "final", !.end = "failed"]
        BY <1>18, <2>2 DEF WriteFails
    <3>2. run'.pc = "final" /\ run'.end = "failed"
        BY <3>1, <1>0 DEF RunType
    <3>. QED BY <2>1, <2>2, <3>1, <3>2 DEF PhaseOK, Running
  <2>3. CASE flush.by # TheRun
    <3>1. run' = run
        BY <1>18, <2>3 DEF WriteFails
    <3>. QED BY <2>1, <2>3, <3>1 DEF PhaseOK, Running
  <2>. QED BY <2>2, <2>3
<1>19. ASSUME NEW s \in stray, Land(s)
      PROVE  PhaseOK'
    BY <1>19, <1>0 DEF Land, PhaseOK, RunType, RowType, NoRun, NoFlush, Running, vars, Terminal, Finished
<1>20. ASSUME NEW status \in Stops, Stop(status)
      PROVE  PhaseOK'
    BY <1>20, <1>0 DEF Stop, PhaseOK, RunType, RowType, NoRun, NoFlush, Running, vars, Terminal, Finished
<1>21. CASE Crash
  <2>1. /\ run' = NoRun /\ flush' = NoFlush /\ buf' = [f \in Files |-> <<>>]
        /\ row' = [row EXCEPT !.status = "queued"]
    BY <1>21 DEF Crash
  <2>2. row'.status = "queued" /\ flush'.by = 0 /\ 0 # TheRun /\ run'.pc = "off" /\ run'.end = "none"
    BY <2>1, <1>0 DEF RowType, NoFlush, NoRun, TheRun
  <2>. QED BY <2>1, <2>2 DEF PhaseOK, Running
<1>22. CASE Resume
    BY <1>22, <1>0 DEF Resume, PhaseOK, RunType, RowType, NoRun, NoFlush, Running, vars, Terminal, Finished
<1>23. ASSUME NEW commits \in BOOLEAN, RetryFailed(commits)
      PROVE  PhaseOK'
    BY <1>23, <1>0 DEF RetryFailed, PhaseOK, RunType, RowType, NoRun, NoFlush, Running, vars, Terminal, Finished
<1>. QED BY <1>1, <1>2, <1>3, <1>4, <1>6, <1>7, <1>8, <1>9, <1>10, <1>11, <1>12, <1>13, <1>14,
            <1>15, <1>16, <1>17, <1>18, <1>19, <1>20, <1>21, <1>22, <1>23
         DEF Next, Looping, Processing, Writing, Faults, Requests, Stops

(* The pending tasks, by where their items are.                            *)
LEMMA PendingIs ==
    /\ Pending \subseteq Items
    /\ \A i \in Items : i \in Pending <=> item[i].pc \in InProgress
BY DEF Pending, Busy, InProgress

(* When every item has counted, or every dispatched one has settled.       *)
LEMMA AllSettled ==
    ASSUME TypeInv, ItemsOK, CountOK, run.pc = "gather", Pending = {},
           EndOf(run) \in Finished
    PROVE  \A i \in Items : i \in run.done \/ item[i].pc \in {"counted", "raised"}
<1>0. /\ N \in Nat /\ IsFiniteSet(Items) /\ Cardinality(Items) = N
      /\ run \in RunType /\ item \in [Items -> ItemType]
    BY ItemsAssumption, FS_Interval DEF Items, TypeInv
<1>1. run.stop = "none" \/ run.completed + run.failed >= N
    BY <1>0 DEF EndOf, Finished, RunType, Stops
<1>2. CASE run.stop = "none"
  <2>1. SUFFICES ASSUME NEW i \in Items, i \notin run.done
                 PROVE  item[i].pc \in {"counted", "raised"}
    OBVIOUS
  <2>2. item[i].pc # "new" /\ item[i].pc # "skipped"
    BY <1>0, <1>2, <2>1 DEF ItemsOK, Running, Items
  <2>3. item[i].pc \notin InProgress
    BY PendingIs
  <2>4. item[i].pc \in Pcs
    BY <1>0 DEF ItemType
  <2>. QED BY <2>2, <2>3, <2>4 DEF Pcs, InProgress
<1>3. CASE run.completed + run.failed >= N
  <2>1. run.done \cup CountedItems \subseteq Items
    BY <1>0 DEF RunType, CountedItems
  <2>2. Cardinality(run.done \cup CountedItems) >= N
    BY <1>3 DEF CountOK
  <2>3. ASSUME run.done \cup CountedItems # Items
        PROVE  FALSE
    <3>1. /\ Cardinality(run.done \cup CountedItems) <= Cardinality(Items)
          /\ Cardinality(run.done \cup CountedItems) # Cardinality(Items)
        BY <1>0, <2>1, <2>3, FS_Subset, Zenon
    <3>2. Cardinality(run.done \cup CountedItems) \in Nat
        BY <1>0, <2>1, FS_Subset, FS_CardinalityType
    <3>. QED BY <1>0, <2>2, <3>1, <3>2
  <2>. QED BY <2>3 DEF CountedItems
<1>. QED BY <1>1, <1>2, <1>3

(* One item moves on, the others stay where they are. *)
Moves(i, p) ==
    /\ item'[i].pc = p
    /\ \A j \in Items : j # i => item'[j].pc = item[j].pc

(* The updates of one item that the actions make.                          *)
LEMMA MovesBy ==
    ASSUME TypeInv, NEW i \in Items
    PROVE  /\ \A p \in Pcs : item' = [item EXCEPT ![i].pc = p] => Moves(i, p)
           /\ item' = [item EXCEPT ![i] = Counted] => Moves(i, "counted")
           /\ \A g \in BOOLEAN :
                  item' = [item EXCEPT ![i] = [pc |-> "answered", tries |-> 0, good |-> g]]
                      => Moves(i, "answered")
           /\ item' = [item EXCEPT ![i].pc = "posted", ![i].tries = @ + 1] => Moves(i, "posted")
<1>1. item \in [Items -> ItemType]
    BY DEF TypeInv
<1>2. ASSUME NEW p \in Pcs, item' = [item EXCEPT ![i].pc = p]
      PROVE  Moves(i, p)
  <2>1. /\ item'[i] = [pc |-> p, tries |-> item[i].tries, good |-> item[i].good]
        /\ \A j \in Items : j # i => item'[j] = item[j]
    BY <1>1, <1>2, ItemSet, Zenon
  <2>. QED BY <2>1 DEF Moves
<1>3. ASSUME item' = [item EXCEPT ![i] = Counted]
      PROVE  Moves(i, "counted")
  <2>1. item'[i] = Counted /\ \A j \in Items : j # i => item'[j] = item[j]
    BY <1>1, <1>3
  <2>2. Counted.pc = "counted"
    BY DEF Counted, NewItem
  <2>. QED BY <2>1, <2>2 DEF Moves
<1>4. ASSUME NEW g \in BOOLEAN,
             item' = [item EXCEPT ![i] = [pc |-> "answered", tries |-> 0, good |-> g]]
      PROVE  Moves(i, "answered")
    BY <1>1, <1>4 DEF Moves
<1>5. ASSUME item' = [item EXCEPT ![i].pc = "posted", ![i].tries = @ + 1]
      PROVE  Moves(i, "posted")
    BY <1>1, <1>5 DEF Moves, ItemType
<1>. QED BY <1>2, <1>3, <1>4, <1>5

LEMMA ItemsStep ==
    ASSUME TypeInv, TypeInv', PhaseOK, ItemsOK, CountOK, [Next]_vars
    PROVE  ItemsOK'
<1>0. run \in RunType /\ item \in [Items -> ItemType] /\ N \in Nat
    BY ItemsAssumption DEF TypeInv
<1>00. run.done \subseteq Items /\ run.next..N \subseteq Items /\ 1..(run.next - 1) \subseteq Items
    BY <1>0 DEF RunType, Items
<1>. USE DEF memory
<1>1. CASE UNCHANGED vars
    BY <1>1 DEF vars, ItemsOK, Running, vars
<1>2. CASE Load
  <2>1. run'.pc = "loop" /\ run'.next = 1 /\ run'.end = "none" /\ flush' = flush /\ run.pc = "off"
    BY <1>2 DEF Load, NoRun
  <2>2. \A i \in Items : item'[i].pc = "new"
    BY <1>2 DEF Load, NewItem
  <2>3. flush'.by \notin Items
    BY <2>1 DEF ItemsOK
  <2>4. run'.done \subseteq Items /\ run'.next..N \subseteq Items /\ 1..(run'.next - 1) = {}
    BY <2>1, <1>0 DEF Items, TypeInv, RunType
  <2>. QED BY <2>1, <2>2, <2>3, <2>4, <1>0 DEF ItemsOK, Running, InProgress, Finished
<1>3. ASSUME NEW i \in Items, Dispatch(i)
      PROVE  ItemsOK'
  <2>1. /\ run.pc = "loop" /\ run.next = i /\ run' = [run EXCEPT !.next = i + 1]
        /\ flush' = flush /\ run.stop = "none"
        /\ item' = IF i \in run.done THEN item ELSE [item EXCEPT ![i].pc = "waiting"]
    BY <1>3 DEF Dispatch
  <2>2. /\ run'.pc = "loop" /\ run'.next = i + 1 /\ run'.done = run.done
        /\ run'.stop = run.stop /\ run'.end = run.end
    BY <2>1, <1>0 DEF RunType
  <2>3. CASE i \in run.done
    BY <2>1, <2>2, <2>3, <1>0 DEF ItemsOK, Running, InProgress, Items
  <2>4. CASE i \notin run.done
    <3>1. Moves(i, "waiting")
        BY <2>1, <2>4, MovesBy DEF Pcs
    <3>2. item[i].pc = "new"
        BY <2>1, <1>0 DEF ItemsOK, Items
    <3>. QED BY <2>1, <2>2, <2>4, <3>1, <3>2, <1>0 DEF Moves, ItemsOK, Running, InProgress, Items
  <2>. QED BY <2>3, <2>4
<1>4. CASE AllDispatched
  <2>1. run' = [run EXCEPT !.pc = "gather"] /\ UNCHANGED <<item, flush>> /\ run.pc = "loop" /\ run.next > N
    BY <1>4 DEF AllDispatched
  <2>2. /\ run'.pc = "gather" /\ run'.next = run.next /\ run'.done = run.done
        /\ run'.stop = run.stop /\ run'.end = run.end /\ run.next = N + 1
    BY <2>1, <1>0 DEF RunType
  <2>. QED BY <2>1, <2>2 DEF ItemsOK, Running
<1>5. ASSUME NEW e \in Ends, e \notin Finished \cup {"none"}, Abort(e), run.pc = "loop"
      PROVE  ItemsOK'
  <2>1. /\ run' = [run EXCEPT !.pc = "drain", !.end = e] /\ flush' = NoFlush
        /\ item' = [i \in Items |-> IF i \in Pending THEN NewItem ELSE item[i]]
    BY <1>5 DEF Abort
  <2>2. run'.pc = "drain" /\ run'.end = e /\ run'.done = run.done
    BY <2>1, <1>0 DEF RunType
  <2>3. flush'.by = 0 /\ 0 \notin Items
    BY <2>1, ByItem DEF NoFlush
  <2>4. /\ \A i \in Items : item[i].pc \in InProgress => item'[i].pc = "new"
        /\ \A i \in Items : item[i].pc \notin InProgress => item'[i] = item[i]
    BY <2>1, PendingIs DEF NewItem
  <2>. QED BY <2>2, <2>3, <2>4, <1>5, <1>00 DEF ItemsOK, Running, InProgress
<1>6. CASE LoopStops
    BY <1>6, <1>5, RunStop DEF LoopStops
<1>7. CASE LoopFails
    BY <1>7, <1>5, RunStop DEF LoopFails
<1>8. CASE Gathered
  <2>1. run' = [run EXCEPT !.pc = "drain", !.end = EndOf(run)]
        /\ UNCHANGED <<item, flush>> /\ run.pc = "gather" /\ Pending = {}
    BY <1>8 DEF Gathered
  <2>2. run'.pc = "drain" /\ run'.end = EndOf(run) /\ run'.done = run.done
    BY <2>1, <1>0 DEF RunType
  <2>3. \A i \in Items : item[i].pc \notin InProgress
    BY <2>1, PendingIs
  <2>4. EndOf(run) \in Finished
            => \A i \in Items : i \in run.done \/ item[i].pc \in {"counted", "raised"}
    BY <2>1, AllSettled
  <2>. QED BY <2>1, <2>2, <2>3, <2>4 DEF ItemsOK, Running
<1>9. CASE Drain
  <2>1. run' = [run EXCEPT !.pc = "write"] /\ UNCHANGED item /\ run.pc = "drain" /\ flush.by = 0
        /\ flush'.by = TheRun
    BY <1>9 DEF Drain
  <2>2. run'.pc = "write" /\ run'.end = run.end /\ run'.done = run.done
    BY <2>1, <1>0 DEF RunType
  <2>. QED BY <2>1, <2>2, ByItem DEF ItemsOK, Running, InProgress
<1>10. CASE Finalize
  <2>1. run' = NoRun /\ UNCHANGED flush /\ run.pc = "final" /\ item' = [i \in Items |-> NewItem]
    BY <1>10 DEF Finalize
  <2>2. run'.pc = "off" /\ run'.end = "none" /\ run'.done = {}
    BY <2>1 DEF NoRun
  <2>3. \A i \in Items : item'[i].pc = "new"
    BY <2>1 DEF NewItem
  <2>. QED BY <2>1, <2>2, <2>3 DEF ItemsOK, Running, InProgress, Finished
<1>11. ASSUME NEW i \in Items, Enter(i)
      PROVE  ItemsOK'
  <2>1. item[i].pc = "waiting" /\ UNCHANGED <<run, flush>>
    BY <1>11 DEF Enter
  <2>2. Moves(i, IF run.stop = "none" THEN "limited" ELSE "skipped")
    BY <1>11, MovesBy DEF Enter, Pcs
  <2>. QED BY <2>1, <2>2, <1>00 DEF Moves, ItemsOK, Running, InProgress
<1>12. ASSUME NEW i \in Items, Acquire(i)
      PROVE  ItemsOK'
  <2>1. item[i].pc = "limited" /\ UNCHANGED <<run, flush>>
    BY <1>12 DEF Acquire
  <2>2. Moves(i, "posted")
    BY <1>12, MovesBy DEF Acquire
  <2>. QED BY <2>1, <2>2, <1>00 DEF Moves, ItemsOK, Running, InProgress
<1>13. CASE Refill
    BY <1>13 DEF Refill, ItemsOK, Running, vars
<1>14. ASSUME NEW i \in Items, Answer(i)
      PROVE  ItemsOK'
  <2>1. item[i].pc = "posted" /\ UNCHANGED <<run, flush>>
    BY <1>14 DEF Answer
  <2>2. Moves(i, "answered") \/ Moves(i, "limited")
    BY <1>14, MovesBy DEF Answer, Pcs
  <2>. QED BY <2>1, <2>2, <1>00 DEF Moves, ItemsOK, Running, InProgress
<1>15. ASSUME NEW i \in Items, Store(i)
      PROVE  ItemsOK'
  <2>1. item[i].pc = "answered" /\ flush.by = 0
    BY <1>15 DEF Store
  <2>2. CASE run' = Bump(i) /\ flush' = flush /\ item' = [item EXCEPT ![i] = Counted]
    <3>1. Moves(i, "counted")
        BY <2>2, MovesBy
    <3>2. run'.pc = run.pc /\ run'.next = run.next /\ run'.done = run.done
          /\ run'.stop = run.stop /\ run'.end = run.end
        BY <2>2, <1>0 DEF Bump, RunType
    <3>. QED BY <2>1, <2>2, <3>1, <3>2, <1>0 DEF Moves, ItemsOK, Running, InProgress
  <2>3. CASE run' = run /\ flush'.by = i /\ item' = [item EXCEPT ![i].pc = "flushing"]
    <3>1. Moves(i, "flushing")
        BY <2>3, MovesBy DEF Pcs
    <3>. QED BY <2>1, <2>3, <3>1, ByItem DEF Moves, ItemsOK, Running, InProgress
  <2>. QED BY <1>15, <2>2, <2>3 DEF Store
<1>16. CASE Write
  <2>1. flush'.by = flush.by /\ UNCHANGED <<run, item>>
    BY <1>16, PartOK, FlushSet DEF Write
  <2>. QED BY <2>1 DEF ItemsOK, Running
<1>17. CASE Flushed
  <2>1. flush' = NoFlush /\ flush'.by = 0
    BY <1>17 DEF Flushed, NoFlush
  <2>2. CASE flush.by = TheRun
    <3>1. run' = [run EXCEPT !.pc = "final"] /\ UNCHANGED item /\ run.pc = "write"
        BY <1>17, <2>2 DEF Flushed, PhaseOK
    <3>2. run'.pc = "final" /\ run'.end = run.end /\ run'.done = run.done
        BY <3>1, <1>0 DEF RunType
    <3>. QED BY <2>1, <2>2, <3>1, <3>2, ByItem DEF ItemsOK, Running
  <2>3. CASE flush.by # TheRun
    <3>1. run' = Bump(flush.by) /\ item' = [item EXCEPT ![flush.by] = Counted] /\ flush.by \in Items
        BY <1>17, <2>3, ByItem DEF Flushed
    <3>2. run'.pc = run.pc /\ run'.next = run.next /\ run'.done = run.done
          /\ run'.stop = run.stop /\ run'.end = run.end
        BY <3>1, <1>0 DEF Bump, RunType
    <3>3. Moves(flush.by, "counted") /\ item[flush.by].pc = "flushing"
        BY <3>1, MovesBy DEF ItemsOK
    <3>. QED BY <2>1, <3>1, <3>2, <3>3, ByItem DEF Moves, ItemsOK, Running, InProgress
  <2>. QED BY <2>2, <2>3
<1>18. CASE WriteFails
  <2>1. flush' = NoFlush /\ flush'.by = 0 /\ flush.by # 0
    BY <1>18 DEF WriteFails, WritingNow, NoFlush
  <2>2. CASE flush.by = TheRun
    <3>1. run' = [run EXCEPT !.pc = "final", !.end = "failed"] /\ UNCHANGED item /\ run.pc = "write"
        BY <1>18, <2>2 DEF WriteFails, PhaseOK
    <3>2. run'.pc = "final" /\ run'.end = "failed" /\ run'.done = run.done
        BY <3>1, <1>0 DEF RunType
    <3>. QED BY <2>1, <2>2, <3>1, <3>2, ByItem DEF ItemsOK, Running, Finished
  <2>3. CASE flush.by # TheRun
    <3>1. run' = run /\ item' = [item EXCEPT ![flush.by].pc = "raised"] /\ flush.by \in Items
        BY <1>18, <2>1, <2>3, ByItem DEF WriteFails
    <3>3. Moves(flush.by, "raised") /\ item[flush.by].pc = "flushing"
        BY <3>1, MovesBy DEF ItemsOK, Pcs
    <3>. QED BY <2>1, <3>1, <3>3, ByItem DEF Moves, ItemsOK, Running, InProgress
  <2>. QED BY <2>2, <2>3
<1>19. ASSUME NEW s \in stray, Land(s)
      PROVE  ItemsOK'
    BY <1>19 DEF Land, ItemsOK, Running, vars
<1>20. ASSUME NEW status \in Stops, Stop(status)
      PROVE  ItemsOK'
  <2>1. run' = [run EXCEPT !.stop = status] /\ UNCHANGED <<item, flush>> /\ status # "none"
    BY <1>20 DEF Stop, Stops
  <2>2. /\ run'.pc = run.pc /\ run'.next = run.next /\ run'.done = run.done
        /\ run'.stop = status /\ run'.end = run.end
    BY <2>1, <1>0 DEF RunType
  <2>. QED BY <2>1, <2>2 DEF ItemsOK, Running
<1>21. CASE Crash
  <2>1. run' = NoRun /\ flush' = NoFlush /\ item' = [i \in Items |-> NewItem]
    BY <1>21 DEF Crash
  <2>2. run'.pc = "off" /\ run'.end = "none" /\ run'.done = {} /\ flush'.by = 0
    BY <2>1 DEF NoRun, NoFlush
  <2>3. \A i \in Items : item'[i].pc = "new"
    BY <2>1 DEF NewItem
  <2>. QED BY <2>2, <2>3, ByItem DEF ItemsOK, Running, InProgress, Finished
<1>22. CASE Resume
    BY <1>22 DEF Resume, ItemsOK, Running, vars
<1>23. ASSUME NEW commits \in BOOLEAN, RetryFailed(commits)
      PROVE  ItemsOK'
    BY <1>23 DEF RetryFailed, ItemsOK, Running, vars
<1>. QED BY <1>1, <1>2, <1>3, <1>4, <1>6, <1>7, <1>8, <1>9, <1>10, <1>11, <1>12, <1>13, <1>14,
            <1>15, <1>16, <1>17, <1>18, <1>19, <1>20, <1>21, <1>22, <1>23
         DEF Next, Looping, Processing, Writing, Faults, Requests, Stops

(* The counters move with the counted items only. *)
LEMMA CountSame ==
    ASSUME CountOK, CountedItems' = CountedItems, run'.done = run.done,
           run'.completed = run.completed, run'.failed = run.failed
    PROVE  CountOK'
BY DEF CountOK

(* Counting one item more.                                                 *)
LEMMA CountOne ==
    ASSUME TypeInv, ItemsOK, CountOK, NEW i \in Items, i \notin run.done, item[i].pc # "counted",
           run' = Bump(i), Moves(i, "counted")
    PROVE  CountOK'
<1>1. run.completed + run.failed < N
      /\ Cardinality(run.done \cup CountedItems \cup {i}) = run.completed + run.failed + 1
    BY CountsRoom
<1>2. run'.done = run.done /\ run'.completed + run'.failed = run.completed + run.failed + 1
    BY <1>1, BumpType
<1>3. CountedItems' = CountedItems \cup {i}
    BY DEF CountedItems, Moves
<1>4. run'.done \cup CountedItems' = run.done \cup CountedItems \cup {i}
    BY <1>2, <1>3
<1>. QED BY <1>1, <1>2, <1>4 DEF CountOK

LEMMA CountStep ==
    ASSUME TypeInv, ItemsOK, CountOK, [Next]_vars
    PROVE  CountOK'
<1>0. run \in RunType /\ item \in [Items -> ItemType] /\ N \in Nat
    BY ItemsAssumption DEF TypeInv
<1>. USE DEF memory
<1>1. CASE UNCHANGED vars
    BY <1>1, CountSame DEF vars, vars, CountedItems
<1>2. CASE Load
  <2>1. /\ run'.done = Scanned /\ run'.completed = Restored.completed
        /\ run'.failed = Restored.failed
    BY <1>2 DEF Load, NoRun
  <2>2. CountedItems' = {}
    BY <1>2 DEF Load, NewItem, CountedItems
  <2>. QED BY <2>1, <2>2, Scanning DEF CountOK, Restored
<1>3. ASSUME NEW i \in Items, Dispatch(i)
      PROVE  CountOK'
  <2>1. run'.done = run.done /\ run'.completed = run.completed /\ run'.failed = run.failed
    BY <1>3, <1>0 DEF Dispatch, RunType
  <2>2. item[i].pc = "new"
    BY <1>3, <1>0 DEF Dispatch, ItemsOK, Items
  <2>3. item' = item \/ Moves(i, "waiting")
    BY <1>3, MovesBy DEF Dispatch, Pcs
  <2>4. CountedItems' = CountedItems
    BY <2>2, <2>3 DEF Moves, CountedItems
  <2>. QED BY <2>1, <2>4, CountSame
<1>4. CASE AllDispatched
  <2>1. run'.done = run.done /\ run'.completed = run.completed /\ run'.failed = run.failed
    BY <1>4, <1>0 DEF AllDispatched, RunType
  <2>2. CountedItems' = CountedItems
    BY <1>4 DEF AllDispatched, CountedItems
  <2>. QED BY <2>1, <2>2, CountSame
<1>5. ASSUME NEW e \in Ends, e \notin Finished \cup {"none"}, Abort(e), run.pc = "loop"
      PROVE  CountOK'
  <2>1. run'.done = run.done /\ run'.completed = run.completed /\ run'.failed = run.failed
    BY <1>5, <1>0 DEF Abort, RunType
  <2>2. CountedItems' = CountedItems
    BY <1>5, PendingIs DEF Abort, CountedItems, NewItem, InProgress
  <2>. QED BY <2>1, <2>2, CountSame
<1>6. CASE LoopStops
    BY <1>6, <1>5, RunStop DEF LoopStops
<1>7. CASE LoopFails
    BY <1>7, <1>5, RunStop DEF LoopFails
<1>8. CASE Gathered
  <2>1. run'.done = run.done /\ run'.completed = run.completed /\ run'.failed = run.failed
    BY <1>8, <1>0 DEF Gathered, RunType
  <2>2. CountedItems' = CountedItems
    BY <1>8 DEF Gathered, CountedItems
  <2>. QED BY <2>1, <2>2, CountSame
<1>9. CASE Drain
  <2>1. run'.done = run.done /\ run'.completed = run.completed /\ run'.failed = run.failed
    BY <1>9, <1>0 DEF Drain, RunType
  <2>2. CountedItems' = CountedItems
    BY <1>9 DEF Drain, CountedItems
  <2>. QED BY <2>1, <2>2, CountSame
<1>10. CASE Finalize
  <2>1. run'.done = {} /\ run'.completed = 0 /\ run'.failed = 0
    BY <1>10 DEF Finalize, NoRun
  <2>2. CountedItems' = {}
    BY <1>10 DEF Finalize, CountedItems, NewItem
  <2>. QED BY <2>1, <2>2, FS_EmptySet DEF CountOK
<1>11. ASSUME NEW i \in Items, Enter(i)
      PROVE  CountOK'
  <2>1. run'.done = run.done /\ run'.completed = run.completed /\ run'.failed = run.failed
    BY <1>11, <1>0 DEF Enter, RunType
  <2>2. item[i].pc = "waiting"
    BY <1>11 DEF Enter
  <2>3. Moves(i, "limited") \/ Moves(i, "skipped")
    BY <1>11, MovesBy DEF Enter, Pcs
  <2>4. CountedItems' = CountedItems
    BY <2>2, <2>3 DEF Moves, CountedItems
  <2>. QED BY <2>1, <2>4, CountSame
<1>12. ASSUME NEW i \in Items, Acquire(i)
      PROVE  CountOK'
  <2>1. run'.done = run.done /\ run'.completed = run.completed /\ run'.failed = run.failed
    BY <1>12, <1>0 DEF Acquire, RunType
  <2>2. item[i].pc = "limited"
    BY <1>12 DEF Acquire
  <2>3. Moves(i, "posted")
    BY <1>12, MovesBy DEF Acquire, Pcs
  <2>4. CountedItems' = CountedItems
    BY <2>2, <2>3 DEF Moves, CountedItems
  <2>. QED BY <2>1, <2>4, CountSame
<1>13. CASE Refill
    BY <1>13, CountSame DEF Refill, vars, CountedItems
<1>14. ASSUME NEW i \in Items, Answer(i)
      PROVE  CountOK'
  <2>1. run'.done = run.done /\ run'.completed = run.completed /\ run'.failed = run.failed
    BY <1>14, <1>0 DEF Answer, RunType
  <2>2. item[i].pc = "posted"
    BY <1>14 DEF Answer
  <2>3. Moves(i, "answered") \/ Moves(i, "limited")
    BY <1>14, MovesBy DEF Answer, Pcs
  <2>4. CountedItems' = CountedItems
    BY <2>2, <2>3 DEF Moves, CountedItems
  <2>. QED BY <2>1, <2>4, CountSame
<1>15. ASSUME NEW i \in Items, Store(i)
      PROVE  CountOK'
  <2>1. item[i].pc = "answered" /\ i \notin run.done
    BY <1>15 DEF Store, ItemsOK
  <2>2. CASE run' = Bump(i) /\ item' = [item EXCEPT ![i] = Counted]
    BY <2>1, <2>2, MovesBy, CountOne
  <2>3. CASE run' = run /\ item' = [item EXCEPT ![i].pc = "flushing"]
    <3>1. Moves(i, "flushing")
        BY <2>3, MovesBy DEF Pcs
    <3>2. CountedItems' = CountedItems
        BY <2>1, <3>1 DEF Moves, CountedItems
    <3>. QED BY <2>3, <3>2, CountSame
  <2>. QED BY <1>15, <2>2, <2>3 DEF Store
<1>16. CASE Write
    BY <1>16, CountSame DEF Write, vars, CountedItems
<1>17. CASE Flushed
  <2>2. CASE flush.by = TheRun
    <3>1. run' = [run EXCEPT !.pc = "final"] /\ UNCHANGED item
        BY <1>17, <2>2 DEF Flushed
    <3>2. run'.done = run.done /\ run'.completed = run.completed /\ run'.failed = run.failed
        BY <3>1, <1>0 DEF RunType
    <3>. QED BY <3>1, <3>2, CountSame DEF CountedItems
  <2>3. CASE flush.by # TheRun
    <3>1. run' = Bump(flush.by) /\ item' = [item EXCEPT ![flush.by] = Counted] /\ flush.by \in Items
        BY <1>17, <2>3, ByItem DEF Flushed
    <3>2. item[flush.by].pc = "flushing" /\ flush.by \notin run.done
        BY <3>1 DEF ItemsOK
    <3>. QED BY <3>1, <3>2, MovesBy, CountOne
  <2>. QED BY <2>2, <2>3
<1>18. CASE WriteFails
  <2>2. CASE flush.by = TheRun
    <3>1. run' = [run EXCEPT !.pc = "final", !.end = "failed"] /\ UNCHANGED item
        BY <1>18, <2>2 DEF WriteFails
    <3>2. run'.done = run.done /\ run'.completed = run.completed /\ run'.failed = run.failed
        BY <3>1, <1>0 DEF RunType
    <3>. QED BY <3>1, <3>2, CountSame DEF CountedItems
  <2>3. CASE flush.by # TheRun
    <3>1. run' = run /\ item' = [item EXCEPT ![flush.by].pc = "raised"] /\ flush.by \in Items
        BY <1>18, <2>3, ByItem DEF WriteFails, WritingNow
    <3>2. item[flush.by].pc = "flushing" /\ Moves(flush.by, "raised")
        BY <3>1, MovesBy DEF ItemsOK, Pcs
    <3>3. CountedItems' = CountedItems
        BY <3>2 DEF Moves, CountedItems
    <3>. QED BY <3>1, <3>3, CountSame
  <2>. QED BY <2>2, <2>3
<1>19. ASSUME NEW s \in stray, Land(s)
      PROVE  CountOK'
    BY <1>19, CountSame DEF Land, vars, CountedItems
<1>20. ASSUME NEW status \in Stops, Stop(status)
      PROVE  CountOK'
  <2>1. run'.done = run.done /\ run'.completed = run.completed /\ run'.failed = run.failed
    BY <1>20, <1>0 DEF Stop, RunType
  <2>2. CountedItems' = CountedItems
    BY <1>20 DEF Stop, CountedItems
  <2>. QED BY <2>1, <2>2, CountSame
<1>21. CASE Crash
  <2>1. run'.done = {} /\ run'.completed = 0 /\ run'.failed = 0
    BY <1>21 DEF Crash, NoRun
  <2>2. CountedItems' = {}
    BY <1>21 DEF Crash, CountedItems, NewItem
  <2>. QED BY <2>1, <2>2, FS_EmptySet DEF CountOK
<1>22. CASE Resume
    BY <1>22, CountSame DEF Resume, vars, CountedItems
<1>23. ASSUME NEW commits \in BOOLEAN, RetryFailed(commits)
      PROVE  CountOK'
    BY <1>23, CountSame DEF RetryFailed, vars, CountedItems
<1>. QED BY <1>1, <1>2, <1>3, <1>4, <1>6, <1>7, <1>8, <1>9, <1>10, <1>11, <1>12, <1>13, <1>14,
            <1>15, <1>16, <1>17, <1>18, <1>19, <1>20, <1>21, <1>22, <1>23
         DEF Next, Looping, Processing, Writing, Faults, Requests, Stops

-----------------------------------------------------------------------------
(* The lines of one file, as the next state has them: none is new, and an  *)
(* item that was there once is not there twice.                            *)
Kept(f) ==
    /\ Held(f)' \subseteq Held(f)
    /\ \A i \in Items : OnceAt(f, i) => OnceAt(f, i)'

(* Nothing is in an empty sequence.                                        *)
LEMMA EmptyOnce == \A i : OneIn(<<>>, i) /\ i \notin Range(<<>>)
BY EmptyRange DEF OneIn

(* What is taken from the buffers may reach the file, or be lost.          *)
LEMMA Written ==
    ASSUME NEW f \in Files, NEW g, Extends(file[f], flush[f], g),
           file'[f] = g, flush'[f] = <<>>, buf'[f] = buf[f] \/ buf'[f] = <<>>
    PROVE  /\ Kept(f)
           /\ buf'[f] = buf[f] => Held(f) \ Held(f)' \subseteq Damaged(file[f], flush[f], g)
<1>1. /\ Readable(g) \subseteq Readable(file[f]) \cup Range(flush[f])
      /\ \A i \in Items :
            OneIn(file[f].lines, i) /\ OneIn(flush[f], i)
              /\ ~(i \in Range(file[f].lines) /\ i \in Range(flush[f])) => OneIn(g.lines, i)
    BY DEF Extends
<1>2. Range(flush'[f]) = {} /\ Range(buf'[f]) \subseteq Range(buf[f])
    BY EmptyRange, Zenon
<1>3. Held(f)' \subseteq Held(f)
    BY <1>1, <1>2 DEF Held
<1>4. ASSUME NEW i \in Items, OnceAt(f, i)
      PROVE  OnceAt(f, i)'
  <2>1. OneIn(g.lines, i)
    BY <1>1, <1>4 DEF OnceAt
  <2>2. OneIn(flush'[f], i) /\ i \notin Range(flush'[f]) /\ OneIn(buf'[f], i)
    BY <1>2, <1>4, EmptyOnce, Zenon DEF OnceAt
  <2>3. i \in Range(g.lines) => i \in Range(file[f].lines) \/ i \in Range(flush[f])
    BY <1>1, ItemsAssumption DEF Readable, Items
  <2>4. ~(i \in Range(g.lines) /\ i \in Range(buf'[f]))
    BY <1>2, <1>4, <2>3 DEF OnceAt
  <2>. QED BY <2>1, <2>2, <2>4, Zenon DEF OnceAt
<1>5. buf'[f] = buf[f] => Held(f) \ Held(f)' \subseteq Damaged(file[f], flush[f], g)
    BY <1>1, <1>2 DEF Held, Damaged
<1>. QED BY <1>3, <1>4, <1>5 DEF Kept

(* What the buffers held is lost.                                          *)
LEMMA Lost ==
    ASSUME NEW f \in Files, file'[f] = file[f] \/ file'[f] = Empty,
           flush'[f] = flush[f] \/ flush'[f] = <<>>, buf'[f] = buf[f] \/ buf'[f] = <<>>
    PROVE  /\ Kept(f)
           /\ Held(f) \ Held(f)' \subseteq
                 (IF file'[f] = file[f] THEN {} ELSE Readable(file[f]))
                   \cup (IF flush'[f] = flush[f] THEN {} ELSE Range(flush[f]))
                   \cup (IF buf'[f] = buf[f] THEN {} ELSE Range(buf[f]))
<1>1. /\ Range(flush'[f]) \subseteq Range(flush[f]) /\ Range(buf'[f]) \subseteq Range(buf[f])
      /\ Range(file'[f].lines) \subseteq Range(file[f].lines)
    BY EmptyRange DEF Empty
<1>2. ASSUME NEW i \in Items, OnceAt(f, i)
      PROVE  OnceAt(f, i)'
  <2>1. OneIn(file'[f].lines, i) /\ OneIn(flush'[f], i) /\ OneIn(buf'[f], i)
    BY <1>2, EmptyOnce DEF OnceAt, Empty
  <2>. QED BY <1>1, <1>2, <2>1 DEF OnceAt
<1>. QED BY <1>1, <1>2 DEF Kept, Held, Readable

(* The buffers become the lines to write.                                  *)
LEMMA Handed ==
    ASSUME NEW f \in Files, file'[f] = file[f], flush[f] = <<>>,
           flush'[f] = buf[f], buf'[f] = <<>>
    PROVE  Kept(f) /\ Held(f)' = Held(f)
<1>1. Range(flush[f]) = {} /\ Range(buf'[f]) = {} /\ Range(flush'[f]) = Range(buf[f])
    BY EmptyRange
<1>2. ASSUME NEW i \in Items, OnceAt(f, i)
      PROVE  OnceAt(f, i)'
  <2>1. OneIn(file'[f].lines, i) /\ OneIn(flush'[f], i) /\ OneIn(buf'[f], i)
    BY <1>2, EmptyOnce, Zenon DEF OnceAt
  <2>. QED BY <1>1, <1>2, <2>1 DEF OnceAt
<1>. QED BY <1>1, <1>2 DEF Kept, Held

(* One line more.                                                          *)
LEMMA Stored ==
    ASSUME BufOK, NEW f \in Files, NEW i \in Items, file'[f] = file[f], flush[f] = <<>>,
           \/ flush'[f] = <<>> /\ buf'[f] = Append(buf[f], i)
           \/ flush'[f] = Append(buf[f], i) /\ buf'[f] = <<>>
    PROVE  /\ Held(f)' = Held(f) \cup {i}
           /\ \A k \in Items : OnceAt(f, k) /\ (k = i => i \notin Held(f)) => OnceAt(f, k)'
<1>. DEFINE b == Append(buf[f], i)
<1>1. buf[f] \in Seq(Items) /\ Range(b) = Range(buf[f]) \cup {i} /\ Range(flush[f]) = {}
    BY EmptyRange, RangeAppend DEF BufOK
<1>2. ASSUME NEW k \in Items, OneIn(buf[f], k), k = i => i \notin Range(buf[f])
      PROVE  OneIn(b, k)
  <2>1. /\ DOMAIN b = 1..(Len(buf[f]) + 1) /\ DOMAIN buf[f] = 1..Len(buf[f])
        /\ Len(buf[f]) \in Nat
        /\ b[Len(buf[f]) + 1] = i
        /\ \A l \in 1..Len(buf[f]) : b[l] = buf[f][l]
    BY <1>1
  <2>. HIDE DEF b
  <2>. QED BY <1>2, <2>1 DEF OneIn, Range
<1>. HIDE DEF b
<1>3. ASSUME NEW k \in Items, OnceAt(f, k), k = i => i \notin Held(f)
      PROVE  OnceAt(f, k)'
  <2>1. k = i => i \notin Range(file[f].lines) /\ i \notin Range(buf[f])
    BY <1>3, ItemsAssumption DEF Held, Readable, Items
  <2>2. OneIn(b, k) /\ OneIn(file'[f].lines, k)
    BY <1>2, <1>3, <2>1 DEF OnceAt
  <2>3. ~(k \in Range(file'[f].lines) /\ k \in Range(b))
    BY <1>1, <1>3, <2>1 DEF OnceAt
  <2>4. CASE flush'[f] = <<>> /\ buf'[f] = b
    <3>1. OneIn(flush'[f], k) /\ k \notin Range(flush'[f])
        BY <2>4, EmptyOnce, Zenon
    <3>. QED BY <2>2, <2>3, <2>4, <3>1 DEF OnceAt
  <2>5. CASE flush'[f] = b /\ buf'[f] = <<>>
    <3>1. OneIn(buf'[f], k) /\ k \notin Range(buf'[f])
        BY <2>5, EmptyOnce, Zenon
    <3>. QED BY <2>2, <2>3, <2>5, <3>1 DEF OnceAt
  <2>. QED BY <2>4, <2>5 DEF b
<1>4. Held(f)' = Held(f) \cup {i}
    BY <1>1, EmptyRange DEF Held, b
<1>. QED BY <1>3, <1>4

(* An abandoned append reaches the file.                                   *)
LEMMA Landed ==
    ASSUME NEW f \in Files, NEW ls, NEW g, Extends(file[f], ls, g),
           file'[f] = g, flush'[f] = flush[f], buf'[f] = buf[f]
    PROVE  /\ Held(f)' \subseteq Held(f) \cup Range(ls)
           /\ Held(f) \ Held(f)' \subseteq Damaged(file[f], ls, g)
           /\ \A i \in Items : i \notin Range(ls) /\ OnceAt(f, i) /\ OneIn(ls, i) => OnceAt(f, i)'
<1>1. /\ Readable(g) \subseteq Readable(file[f]) \cup Range(ls)
      /\ \A i \in Items :
            OneIn(file[f].lines, i) /\ OneIn(ls, i)
              /\ ~(i \in Range(file[f].lines) /\ i \in Range(ls)) => OneIn(g.lines, i)
    BY DEF Extends
<1>2. ASSUME NEW i \in Items, i \notin Range(ls), OnceAt(f, i), OneIn(ls, i)
      PROVE  OnceAt(f, i)'
  <2>1. OneIn(g.lines, i)
    BY <1>1, <1>2 DEF OnceAt
  <2>2. i \in Range(g.lines) => i \in Range(file[f].lines)
    BY <1>1, <1>2, ItemsAssumption DEF Readable, Items
  <2>. QED BY <1>2, <2>1, <2>2 DEF OnceAt
<1>. QED BY <1>1, <1>2 DEF Held, Damaged

-----------------------------------------------------------------------------
NotLoad == ~Load
NoStore == \A i \in Items : ~Store(i)
NoLand == \A s \in stray : ~Land(s)

(* Every other step keeps the lines there are; and those it loses are      *)
(* harmed, unless it ends the run without success.                         *)
LinesKept ==
    /\ \A f \in Files : Kept(f)
    /\ InEffect' \/ row'.status \in Finished =>
          \A f \in Files : Held(f) \ Held(f)' \subseteq harmed'

(* A step that leaves the lines alone keeps them.                          *)
LEMMA SameLines ==
    ASSUME UNCHANGED <<file, flush, buf>>
    PROVE  LinesKept
<1>1. ASSUME NEW f \in Files
      PROVE  Kept(f) /\ Held(f)' = Held(f)
  <2>1. file' = file /\ flush' = flush /\ buf' = buf
    OBVIOUS
  <2>. QED BY <2>1, Lost DEF Held
<1>. QED BY <1>1 DEF LinesKept

(* Taking one file's lines from the flush leaves the other's.              *)
LEMMA FlushPart ==
    ASSUME TypeInv, NEW p \in Files
    PROVE  LET new == [flush EXCEPT ![p] = <<>>]
           IN  \A f \in Files : new[f] = IF f = p THEN <<>> ELSE flush[f]
<1>1. flush \in FlushType
    BY DEF TypeInv
<1>2. p = "out" \/ p = "err"
    BY DEF Files
<1>. QED BY <1>1, <1>2 DEF FlushType, Files

(* Only a store adds a line, and a landing one that may be there already.  *)
LEMMA LinesStep ==
    ASSUME TypeInv, PhaseOK, [Next]_vars, NoStore, NoLand
    PROVE  LinesKept
<1>0. run \in RunType /\ row \in RowType /\ file \in [Files -> FileType] /\ N \in Nat
    BY ItemsAssumption DEF TypeInv
<1>. USE DEF memory
<1>1. CASE UNCHANGED vars
    BY <1>1, SameLines DEF vars, vars
<1>2. CASE Load
    BY <1>2, SameLines DEF Load, vars
<1>3. ASSUME NEW i \in Items, Dispatch(i)
      PROVE  LinesKept
    BY <1>3, SameLines DEF Dispatch, vars
<1>4. CASE AllDispatched
    BY <1>4, SameLines DEF AllDispatched, vars
<1>6. CASE LoopStops
  <2>1. flush' = NoFlush /\ buf' = buf /\ file' = file /\ row' = row /\ run' = [run EXCEPT !.pc = "drain", !.end = run.stop]
    BY <1>6 DEF LoopStops, Abort
  <2>2. ~InEffect' /\ row'.status \notin Finished
    BY <1>6, <2>1, <1>0, RunStop DEF LoopStops, InEffect, RunType, PhaseOK, Finished
  <2>3. \A f \in Files : Kept(f)
    BY <2>1, Lost DEF NoFlush, Files
  <2>. QED BY <2>2, <2>3 DEF LinesKept
<1>7. CASE LoopFails
  <2>1. flush' = NoFlush /\ buf' = buf /\ file' = file /\ row' = row /\ run' = [run EXCEPT !.pc = "drain", !.end = "failed"]
    BY <1>7 DEF LoopFails, Abort
  <2>2. ~InEffect' /\ row'.status \notin Finished
    BY <1>7, <2>1, <1>0, RunStop DEF LoopFails, InEffect, RunType, PhaseOK, Finished
  <2>3. \A f \in Files : Kept(f)
    BY <2>1, Lost DEF NoFlush, Files
  <2>. QED BY <2>2, <2>3 DEF LinesKept
<1>8. CASE Gathered
    BY <1>8, SameLines DEF Gathered, vars
<1>9. CASE Drain
  <2>1. /\ flush' = [by |-> TheRun, out |-> buf["out"], err |-> buf["err"]] /\ file' = file
        /\ buf' = [f \in Files |-> <<>>] /\ flush = NoFlush
    BY <1>9 DEF Drain, PhaseOK
  <2>2. ASSUME NEW f \in Files
        PROVE  Kept(f) /\ Held(f)' = Held(f)
    <3>1. f = "out" \/ f = "err"
        BY DEF Files
    <3>2. file'[f] = file[f] /\ flush[f] = <<>> /\ flush'[f] = buf[f] /\ buf'[f] = <<>>
        BY <2>1, <3>1 DEF NoFlush
    <3>. QED BY <3>2, Handed
  <2>. QED BY <2>2 DEF LinesKept
<1>10. CASE Finalize
    BY <1>10, SameLines DEF Finalize, vars
<1>11. ASSUME NEW i \in Items, Enter(i)
      PROVE  LinesKept
    BY <1>11, SameLines DEF Enter, vars
<1>12. ASSUME NEW i \in Items, Acquire(i)
      PROVE  LinesKept
    BY <1>12, SameLines DEF Acquire, vars
<1>13. CASE Refill
    BY <1>13, SameLines DEF Refill, vars
<1>14. ASSUME NEW i \in Items, Answer(i)
      PROVE  LinesKept
    BY <1>14, SameLines DEF Answer, vars
<1>16. CASE Write
  <2>. DEFINE g == Appended(file[Part], flush[Part])
  <2>1. /\ file' = [file EXCEPT ![Part] = g] /\ flush' = [flush EXCEPT ![Part] = <<>>]
        /\ harmed' = harmed \cup Damaged(file[Part], flush[Part], g) /\ buf' = buf
    BY <1>16 DEF Write
  <2>2. Part \in Files /\ Extends(file[Part], flush[Part], g)
    BY PartOK
  <2>. HIDE DEF g
  <2>3. ASSUME NEW f \in Files
        PROVE  Kept(f) /\ Held(f) \ Held(f)' \subseteq harmed'
    <3>1. CASE f = Part
      <4>1. file'[f] = g /\ flush'[f] = <<>> /\ buf'[f] = buf[f] /\ Extends(file[f], flush[f], g)
          BY <2>1, <2>2, <3>1, <1>0, FlushPart
      <4>. QED BY <4>1, <3>1, <2>1, Written
    <3>2. CASE f # Part
      <4>1. file'[f] = file[f] /\ flush'[f] = flush[f] /\ buf'[f] = buf[f]
          BY <2>1, <2>2, <3>2, <1>0, FlushPart
      <4>. QED BY <4>1, Lost
    <3>. QED BY <3>1, <3>2
  <2>. QED BY <2>3 DEF LinesKept
<1>17. CASE Flushed
  <2>1. flush.out = <<>> /\ flush.err = <<>> /\ flush' = NoFlush /\ UNCHANGED <<file, buf>>
    BY <1>17 DEF Flushed, WritingNow
  <2>2. ASSUME NEW f \in Files
        PROVE  Kept(f) /\ Held(f) \ Held(f)' = {}
    <3>1. f = "out" \/ f = "err"
        BY DEF Files
    <3>2. file'[f] = file[f] /\ flush'[f] = flush[f] /\ buf'[f] = buf[f]
        BY <2>1, <3>1 DEF NoFlush
    <3>. QED BY <3>2, Lost
  <2>. QED BY <2>2 DEF LinesKept
<1>18. CASE WriteFails
  <2>1. PICK g \in CutShort(file[Part], flush[Part]) :
            /\ file' = [file EXCEPT ![Part] = g]
            /\ harmed' = harmed \cup Damaged(file[Part], flush[Part], g) \cup Range(flush.err)
                            \cup ({flush.by} \cap Items)
    BY <1>18 DEF WriteFails
  <2>2. Part \in Files /\ Extends(file[Part], flush[Part], g)
    BY PartOK
  <2>3. flush' = NoFlush /\ buf' = buf
    BY <1>18 DEF WriteFails
  <2>4. ASSUME NEW f \in Files
        PROVE  Kept(f) /\ Held(f) \ Held(f)' \subseteq harmed'
    <3>0. flush'[f] = <<>> /\ buf'[f] = buf[f]
        BY <2>3 DEF NoFlush, Files
    <3>1. CASE f = Part
      <4>1. file'[f] = g /\ Extends(file[f], flush[f], g)
          BY <2>1, <2>2, <3>1, <1>0
      <4>. QED BY <3>0, <4>1, <3>1, <2>1, Written
    <3>2. CASE f # Part
      <4>1. file'[f] = file[f]
          BY <2>1, <2>2, <3>2, <1>0
      <4>2. flush[f] = <<>> \/ flush[f] = flush.err
          BY <3>2 DEF Part, Files
      <4>3. Range(flush[f]) \subseteq harmed'
          BY <4>2, <2>1, EmptyRange
      <4>. QED BY <3>0, <4>1, <4>3, Lost
    <3>. QED BY <3>1, <3>2
  <2>. QED BY <2>4 DEF LinesKept
<1>20. ASSUME NEW status \in Stops, Stop(status)
      PROVE  LinesKept
    BY <1>20, SameLines DEF Stop, vars
<1>21. CASE Crash
  <2>1. /\ flush' = NoFlush /\ buf' = [f \in Files |-> <<>>]
        /\ row' = [row EXCEPT !.status = "queued"] /\ run' = NoRun
    BY <1>21 DEF Crash
  <2>2. ~InEffect' /\ row'.status \notin Finished
    BY <2>1, <1>0 DEF InEffect, NoRun, RowType, Finished
  <2>3. ASSUME NEW f \in Files
        PROVE  Kept(f)
    <3>0. flush'[f] = <<>> /\ buf'[f] = <<>>
        BY <2>1 DEF NoFlush, Files
    <3>1. CASE WritingNow /\ f = Part
      <4>1. PICK g \in CutShort(file[Part], flush[Part]) : file' = [file EXCEPT ![Part] = g]
          BY <1>21, <3>1 DEF Crash
      <4>2. file'[f] = g /\ Extends(file[f], flush[f], g)
          BY <4>1, <3>1, <1>0, PartOK
      <4>. QED BY <3>0, <4>2, Written
    <3>2. CASE ~(WritingNow /\ f = Part)
      <4>1. file'[f] = file[f]
          BY <1>21, <3>2, <1>0, PartOK DEF Crash
      <4>. QED BY <3>0, <4>1, Lost
    <3>. QED BY <3>1, <3>2
  <2>. QED BY <2>2, <2>3 DEF LinesKept
<1>22. CASE Resume
    BY <1>22, SameLines DEF Resume, vars
<1>23. ASSUME NEW commits \in BOOLEAN, RetryFailed(commits)
      PROVE  LinesKept
  <2>1. /\ file' = [file EXCEPT !["err"] = Empty] /\ UNCHANGED <<buf, flush>>
        /\ harmed' = harmed \cup Readable(file["err"])
    BY <1>23 DEF RetryFailed
  <2>2. ASSUME NEW f \in Files
        PROVE  Kept(f) /\ Held(f) \ Held(f)' \subseteq harmed'
    <3>1. file'[f] = file[f] \/ (f = "err" /\ file'[f] = Empty)
        BY <2>1, <1>0 DEF Files
    <3>. QED BY <2>1, <3>1, Lost
  <2>. QED BY <2>2 DEF LinesKept
<1>. QED BY <1>1, <1>2, <1>3, <1>4, <1>6, <1>7, <1>8, <1>9, <1>10, <1>11, <1>12, <1>13, <1>14,
            <1>16, <1>17, <1>18, <1>20, <1>21, <1>22, <1>23
         DEF Next, Looping, Processing, Writing, Faults, Requests, Stops, NoStore, NoLand

(* What is harmed stays so until the next scan.                            *)
LEMMA HarmedStays ==
    ASSUME [Next]_vars, NotLoad
    PROVE  harmed \subseteq harmed'
<1>. USE DEF memory
<1>1. CASE UNCHANGED vars
    BY <1>1 DEF vars, vars
<1>3. ASSUME NEW i \in Items, Dispatch(i)
      PROVE  harmed \subseteq harmed'
    BY <1>3 DEF Dispatch, vars
<1>4. CASE AllDispatched
    BY <1>4 DEF AllDispatched, vars
<1>6. CASE LoopStops
    BY <1>6 DEF LoopStops, Abort
<1>7. CASE LoopFails
    BY <1>7 DEF LoopFails, Abort
<1>8. CASE Gathered
    BY <1>8 DEF Gathered, vars
<1>9. CASE Drain
    BY <1>9 DEF Drain, vars
<1>10. CASE Finalize
    BY <1>10 DEF Finalize, vars
<1>11. ASSUME NEW i \in Items, Enter(i)
      PROVE  harmed \subseteq harmed'
    BY <1>11 DEF Enter, vars
<1>12. ASSUME NEW i \in Items, Acquire(i)
      PROVE  harmed \subseteq harmed'
    BY <1>12 DEF Acquire, vars
<1>13. CASE Refill
    BY <1>13 DEF Refill, vars
<1>14. ASSUME NEW i \in Items, Answer(i)
      PROVE  harmed \subseteq harmed'
    BY <1>14 DEF Answer, vars
<1>15. ASSUME NEW i \in Items, Store(i)
      PROVE  harmed \subseteq harmed'
    BY <1>15 DEF Store, vars
<1>16. CASE Write
    BY <1>16 DEF Write, vars
<1>17. CASE Flushed
    BY <1>17 DEF Flushed, vars
<1>18. CASE WriteFails
    BY <1>18 DEF WriteFails, vars
<1>19. ASSUME NEW s \in stray, Land(s)
      PROVE  harmed \subseteq harmed'
    BY <1>19 DEF Land, vars
<1>20. ASSUME NEW status \in Stops, Stop(status)
      PROVE  harmed \subseteq harmed'
    BY <1>20 DEF Stop, vars
<1>21. CASE Crash
    BY <1>21 DEF Crash, vars
<1>22. CASE Resume
    BY <1>22 DEF Resume, vars
<1>23. ASSUME NEW commits \in BOOLEAN, RetryFailed(commits)
      PROVE  harmed \subseteq harmed'
    BY <1>23 DEF RetryFailed, vars
<1>. QED BY <1>1, <1>3, <1>4, <1>6, <1>7, <1>8, <1>9, <1>10, <1>11, <1>12, <1>13, <1>14, <1>15,
            <1>16, <1>17, <1>18, <1>19, <1>20, <1>21, <1>22, <1>23
         DEF Next, Looping, Processing, Writing, Faults, Requests, Stops, NotLoad

(* What came late stays late: its append has landed.                       *)
LEMMA LateStays ==
    ASSUME [Next]_vars
    PROVE  Late \subseteq Late'
<1>. USE DEF memory
<1>1. CASE UNCHANGED vars
    BY <1>1 DEF vars, vars, Late
<1>2. CASE Load
    BY <1>2 DEF Load, vars, Late
<1>3. ASSUME NEW i \in Items, Dispatch(i)
      PROVE  Late \subseteq Late'
    BY <1>3 DEF Dispatch, vars, Late
<1>4. CASE AllDispatched
    BY <1>4 DEF AllDispatched, vars, Late
<1>6. CASE LoopStops
  <2>1. \A s \in stray : s.landed => s \in stray'
    BY <1>6 DEF LoopStops, Abort
  <2>. QED BY <2>1 DEF Late
<1>7. CASE LoopFails
  <2>1. \A s \in stray : s.landed => s \in stray'
    BY <1>7 DEF LoopFails, Abort
  <2>. QED BY <2>1 DEF Late
<1>8. CASE Gathered
    BY <1>8 DEF Gathered, vars, Late
<1>9. CASE Drain
    BY <1>9 DEF Drain, vars, Late
<1>10. CASE Finalize
    BY <1>10 DEF Finalize, vars, Late
<1>11. ASSUME NEW i \in Items, Enter(i)
      PROVE  Late \subseteq Late'
    BY <1>11 DEF Enter, vars, Late
<1>12. ASSUME NEW i \in Items, Acquire(i)
      PROVE  Late \subseteq Late'
    BY <1>12 DEF Acquire, vars, Late
<1>13. CASE Refill
    BY <1>13 DEF Refill, vars, Late
<1>14. ASSUME NEW i \in Items, Answer(i)
      PROVE  Late \subseteq Late'
    BY <1>14 DEF Answer, vars, Late
<1>15. ASSUME NEW i \in Items, Store(i)
      PROVE  Late \subseteq Late'
    BY <1>15 DEF Store, vars, Late
<1>16. CASE Write
    BY <1>16 DEF Write, vars, Late
<1>17. CASE Flushed
    BY <1>17 DEF Flushed, vars, Late
<1>18. CASE WriteFails
    BY <1>18 DEF WriteFails, vars, Late
<1>19. ASSUME NEW s \in stray, Land(s)
      PROVE  Late \subseteq Late'
  <2>1. \A u \in stray : u.landed => u \in stray'
    BY <1>19 DEF Land
  <2>. QED BY <2>1 DEF Late
<1>20. ASSUME NEW status \in Stops, Stop(status)
      PROVE  Late \subseteq Late'
    BY <1>20 DEF Stop, vars, Late
<1>21. CASE Crash
  <2>1. \A s \in stray : s.landed => s \in stray'
    BY <1>21 DEF Crash
  <2>. QED BY <2>1 DEF Late
<1>22. CASE Resume
    BY <1>22 DEF Resume, vars, Late
<1>23. ASSUME NEW commits \in BOOLEAN, RetryFailed(commits)
      PROVE  Late \subseteq Late'
    BY <1>23 DEF RetryFailed, vars, Late
<1>. QED BY <1>1, <1>2, <1>3, <1>4, <1>6, <1>7, <1>8, <1>9, <1>10, <1>11, <1>12, <1>13, <1>14,
            <1>15, <1>16, <1>17, <1>18, <1>19, <1>20, <1>21, <1>22, <1>23
         DEF Next, Looping, Processing, Writing, Faults, Requests, Stops

-----------------------------------------------------------------------------
(* What a step makes of the run, when it goes on and does not store.       *)
RunKept ==
    InEffect' =>
        /\ InEffect
        /\ \A i \in Items : Settled(i)' => Settled(i) \/ i \in harmed'
        /\ harmed' = {} =>
              /\ run'.completed = run.completed /\ run'.failed = run.failed
              /\ \A i \in Items :
                    /\ item'[i].pc = "raised" <=> item[i].pc = "raised"
                    /\ item'[i].pc = "flushing" <=> item[i].pc = "flushing"
                    /\ item[i].pc = "flushing" => item'[i].good = item[i].good

NotFlushed == ~Flushed

(* Three ways to keep it: the run stays, it ends, or one item moves on.    *)
LEMMA RunSame ==
    ASSUME run' = run, item' = item
    PROVE  RunKept
BY DEF RunKept, InEffect, Settled

LEMMA RunEnded ==
    ASSUME run'.pc = "off" \/ run'.end \notin {"none"} \cup Finished
    PROVE  RunKept
BY DEF RunKept, InEffect

LEMMA ItemMoved ==
    ASSUME TypeInv, NEW i \in Items, NEW p \in Pcs, run' = run, Moves(i, p),
           \A j \in Items : j # i => item'[j] = item[j],
           item[i].pc \notin {"flushing", "raised"}, p \notin {"flushing", "counted", "raised"}
    PROVE  RunKept
BY DEF RunKept, InEffect, Settled, Moves

(* So do all steps but the scan, a store and the end of a flush.           *)
LEMMA RunStep ==
    ASSUME TypeInv, PhaseOK, ItemsOK, [Next]_vars, NotLoad, NoStore, NotFlushed
    PROVE  RunKept
<1>0. run \in RunType /\ row \in RowType /\ item \in [Items -> ItemType] /\ N \in Nat
    BY ItemsAssumption DEF TypeInv
<1>. USE DEF memory
<1>1. CASE UNCHANGED vars
    BY <1>1, RunSame DEF vars, vars
<1>3. ASSUME NEW i \in Items, Dispatch(i)
      PROVE  RunKept
  <2>1. /\ run.pc = "loop" /\ run.next = i /\ run' = [run EXCEPT !.next = i + 1]
        /\ item' = IF i \in run.done THEN item ELSE [item EXCEPT ![i].pc = "waiting"]
    BY <1>3 DEF Dispatch
  <2>2. /\ run'.pc = "loop" /\ run'.done = run.done /\ run'.completed = run.completed
        /\ run'.failed = run.failed /\ run'.end = run.end
    BY <2>1, <1>0 DEF RunType
  <2>3. CASE i \in run.done
    BY <2>1, <2>2, <2>3 DEF RunKept, InEffect, Settled
  <2>4. CASE i \notin run.done
    <3>1. Moves(i, "waiting") /\ \A j \in Items : j # i => item'[j] = item[j]
        BY <2>1, <2>4, <1>0, MovesBy DEF Pcs
    <3>2. item[i].pc = "new"
        BY <2>1, <1>0 DEF ItemsOK, Items
    <3>. QED BY <2>1, <2>2, <3>1, <3>2 DEF RunKept, InEffect, Settled, Moves
  <2>. QED BY <2>3, <2>4
<1>4. CASE AllDispatched
  <2>1. run' = [run EXCEPT !.pc = "gather"] /\ item' = item /\ run.pc = "loop"
    BY <1>4 DEF AllDispatched
  <2>2. /\ run'.done = run.done /\ run'.completed = run.completed /\ run'.failed = run.failed
        /\ run'.end = run.end
    BY <2>1, <1>0 DEF RunType
  <2>. QED BY <2>1, <2>2 DEF RunKept, InEffect, Settled
<1>6. CASE LoopStops
  <2>1. run'.end = run.stop /\ run.stop \notin {"none"} \cup Finished
    BY <1>6, <1>0, RunStop DEF LoopStops, Abort, RunType, Finished
  <2>. QED BY <2>1, RunEnded
<1>7. CASE LoopFails
  <2>1. run'.end = "failed" /\ "failed" \notin {"none"} \cup Finished
    BY <1>7, <1>0, RunStop DEF LoopFails, Abort, RunType, Finished
  <2>. QED BY <2>1, RunEnded
<1>8. CASE Gathered
  <2>1. run' = [run EXCEPT !.pc = "drain", !.end = EndOf(run)] /\ item' = item /\ run.pc = "gather"
    BY <1>8 DEF Gathered
  <2>2. /\ run'.done = run.done /\ run'.completed = run.completed /\ run'.failed = run.failed
        /\ run.end = "none"
    BY <2>1, <1>0 DEF RunType, PhaseOK, Running
  <2>. QED BY <2>1, <2>2 DEF RunKept, InEffect, Settled
<1>9. CASE Drain
  <2>1. run' = [run EXCEPT !.pc = "write"] /\ item' = item /\ run.pc = "drain"
    BY <1>9 DEF Drain
  <2>2. /\ run'.done = run.done /\ run'.completed = run.completed /\ run'.failed = run.failed
        /\ run'.end = run.end
    BY <2>1, <1>0 DEF RunType
  <2>. QED BY <2>1, <2>2 DEF RunKept, InEffect, Settled
<1>10. CASE Finalize
  <2>1. run'.pc = "off"
    BY <1>10 DEF Finalize, NoRun
  <2>. QED BY <2>1, RunEnded
<1>11. ASSUME NEW i \in Items, Enter(i)
      PROVE  RunKept
  <2>1. run' = run /\ item[i].pc = "waiting" /\ \A j \in Items : j # i => item'[j] = item[j]
    BY <1>11, <1>0 DEF Enter
  <2>2. Moves(i, "limited") \/ Moves(i, "skipped")
    BY <1>11, MovesBy DEF Enter, Pcs
  <2>. QED BY <2>1, <2>2, ItemMoved DEF Pcs
<1>12. ASSUME NEW i \in Items, Acquire(i)
      PROVE  RunKept
  <2>1. run' = run /\ item[i].pc = "limited" /\ \A j \in Items : j # i => item'[j] = item[j]
    BY <1>12, <1>0 DEF Acquire
  <2>2. Moves(i, "posted")
    BY <1>12, MovesBy DEF Acquire, Pcs
  <2>. QED BY <2>1, <2>2, ItemMoved DEF Pcs
<1>13. CASE Refill
    BY <1>13, RunSame DEF Refill, vars
<1>14. ASSUME NEW i \in Items, Answer(i)
      PROVE  RunKept
  <2>1. run' = run /\ item[i].pc = "posted" /\ \A j \in Items : j # i => item'[j] = item[j]
    BY <1>14, <1>0 DEF Answer
  <2>2. Moves(i, "answered") \/ Moves(i, "limited")
    BY <1>14, MovesBy DEF Answer, Pcs
  <2>. QED BY <2>1, <2>2, ItemMoved DEF Pcs
<1>16. CASE Write
    BY <1>16, RunSame DEF Write, vars
<1>18. CASE WriteFails
  <2>2. CASE flush.by = TheRun
    <3>1. run' = [run EXCEPT !.pc = "final", !.end = "failed"]
        BY <1>18, <2>2 DEF WriteFails
    <3>2. run'.end = "failed"
        BY <3>1, <1>0 DEF RunType
    <3>. QED BY <3>2, RunEnded DEF Finished
  <2>3. CASE flush.by # TheRun
    <3>1. run' = run /\ item' = [item EXCEPT ![flush.by].pc = "raised"] /\ flush.by \in Items
        BY <1>18, <2>3, ByItem DEF WriteFails, WritingNow
    <3>2. flush.by \in harmed'
        BY <3>1, <1>18 DEF WriteFails
    <3>3. Moves(flush.by, "raised")
        BY <3>1, MovesBy DEF Pcs
    <3>. QED BY <3>1, <3>2, <3>3 DEF RunKept, InEffect, Settled, Moves
  <2>. QED BY <2>2, <2>3
<1>19. ASSUME NEW s \in stray, Land(s)
      PROVE  RunKept
    BY <1>19, RunSame DEF Land, vars
<1>20. ASSUME NEW status \in Stops, Stop(status)
      PROVE  RunKept
  <2>1. run' = [run EXCEPT !.stop = status] /\ item' = item
    BY <1>20 DEF Stop
  <2>2. /\ run'.done = run.done /\ run'.completed = run.completed /\ run'.failed = run.failed
        /\ run'.end = run.end /\ run'.pc = run.pc
    BY <2>1, <1>0 DEF RunType
  <2>. QED BY <2>1, <2>2 DEF RunKept, InEffect, Settled
<1>21. CASE Crash
  <2>1. run'.pc = "off"
    BY <1>21 DEF Crash, NoRun
  <2>. QED BY <2>1, RunEnded
<1>22. CASE Resume
    BY <1>22, RunSame DEF Resume, vars
<1>23. ASSUME NEW commits \in BOOLEAN, RetryFailed(commits)
      PROVE  RunKept
    BY <1>23, RunSame DEF RetryFailed, vars
<1>. QED BY <1>1, <1>3, <1>4, <1>6, <1>7, <1>8, <1>9, <1>10, <1>11, <1>12, <1>13, <1>14, <1>16,
            <1>18, <1>19, <1>20, <1>21, <1>22, <1>23
         DEF Next, Looping, Processing, Writing, Faults, Requests, Stops, NotLoad, NoStore, NotFlushed

NotFinalize == ~Finalize
(* Only the end of a run makes its job finished.                           *)
LEMMA RowStays ==
    ASSUME TypeInv, PhaseOK, [Next]_vars, NotFinalize
    PROVE  row'.status \in Finished => row' = row
<1>0. run \in RunType /\ row \in RowType /\ item \in [Items -> ItemType] /\ N \in Nat
    BY ItemsAssumption DEF TypeInv
<1>. USE DEF memory
<1>1. CASE UNCHANGED vars
    BY <1>1 DEF vars, vars
<1>2. CASE Load
  <2>1. row'.status \notin Finished
    BY <1>2, <1>0 DEF Load, RowType, Finished
  <2>. QED BY <2>1
<1>3. ASSUME NEW i \in Items, Dispatch(i)
      PROVE  row'.status \in Finished => row' = row
    BY <1>3 DEF Dispatch, vars
<1>4. CASE AllDispatched
    BY <1>4 DEF AllDispatched, vars
<1>6. CASE LoopStops
  <2>1. row' = row
    BY <1>6 DEF LoopStops, Abort
  <2>. QED BY <2>1
<1>7. CASE LoopFails
  <2>1. row' = row
    BY <1>7 DEF LoopFails, Abort
  <2>. QED BY <2>1
<1>8. CASE Gathered
    BY <1>8 DEF Gathered, vars
<1>9. CASE Drain
    BY <1>9 DEF Drain, vars
<1>11. ASSUME NEW i \in Items, Enter(i)
      PROVE  row'.status \in Finished => row' = row
    BY <1>11 DEF Enter, vars
<1>12. ASSUME NEW i \in Items, Acquire(i)
      PROVE  row'.status \in Finished => row' = row
    BY <1>12 DEF Acquire, vars
<1>13. CASE Refill
    BY <1>13 DEF Refill, vars
<1>14. ASSUME NEW i \in Items, Answer(i)
      PROVE  row'.status \in Finished => row' = row
    BY <1>14 DEF Answer, vars
<1>15. ASSUME NEW i \in Items, Store(i)
      PROVE  row'.status \in Finished => row' = row
    BY <1>15 DEF Store, vars
<1>16. CASE Write
    BY <1>16 DEF Write, vars
<1>17. CASE Flushed
  <2>1. row' = row \/ (flush.by = TheRun /\ row'.status = row.status)
    BY <1>17, <1>0 DEF Flushed, RowType
  <2>2. flush.by = TheRun => row.status \notin Finished
    BY DEF PhaseOK, Finished
  <2>. QED BY <2>1, <2>2
<1>18. CASE WriteFails
    BY <1>18 DEF WriteFails, vars
<1>19. ASSUME NEW s \in stray, Land(s)
      PROVE  row'.status \in Finished => row' = row
    BY <1>19 DEF Land, vars
<1>20. ASSUME NEW status \in Stops, Stop(status)
      PROVE  row'.status \in Finished => row' = row
    BY <1>20 DEF Stop, vars
<1>21. CASE Crash
  <2>1. row'.status \notin Finished
    BY <1>21, <1>0 DEF Crash, RowType, Finished
  <2>. QED BY <2>1
<1>22. CASE Resume
  <2>1. row'.status \notin Finished
    BY <1>22, <1>0 DEF Resume, RowType, Finished
  <2>. QED BY <2>1
<1>23. ASSUME NEW commits \in BOOLEAN, RetryFailed(commits)
      PROVE  row'.status \in Finished => row' = row
  <2>1. row' = row \/ row' = [row EXCEPT !.status = "queued", !.failed = 0]
    BY <1>23 DEF RetryFailed
  <2>2. row' = [row EXCEPT !.status = "queued", !.failed = 0] => row'.status = "queued"
    BY <1>0 DEF RowType
  <2>. QED BY <2>1, <2>2 DEF Finished
<1>. QED BY <1>1, <1>2, <1>3, <1>4, <1>6, <1>7, <1>8, <1>9, <1>11, <1>12, <1>13, <1>14, <1>15,
            <1>16, <1>17, <1>18, <1>19, <1>20, <1>21, <1>22, <1>23
         DEF Next, Looping, Processing, Writing, Faults, Requests, Stops, NotFinalize

(* No item becomes fresh but by a scan.                                    *)
LEMMA FreshStays ==
    ASSUME TypeInv, [Next]_vars, NotLoad
    PROVE  \A k \in Items : Fresh(k)' => Fresh(k)
<1>0. run \in RunType /\ row \in RowType /\ item \in [Items -> ItemType] /\ N \in Nat
    BY ItemsAssumption DEF TypeInv
<1>. USE DEF memory
<1>1. CASE UNCHANGED vars
    BY <1>1 DEF vars, vars, Fresh
<1>3. ASSUME NEW i \in Items, Dispatch(i)
      PROVE  \A k \in Items : Fresh(k)' => Fresh(k)
  <2>1. /\ run.pc = "loop" /\ run.next = i /\ run'.next = i + 1 /\ run'.done = run.done
    BY <1>3, <1>0 DEF Dispatch, RunType
  <2>2. item' = item \/ (i \notin run.done /\ Moves(i, "waiting"))
    BY <1>3, MovesBy DEF Dispatch, Pcs
  <2>3. \A j \in Items : j >= i + 1 => j >= run.next
    BY <2>1, <1>0 DEF Items
  <2>4. i >= run.next
    BY <2>1, <1>0 DEF Items
  <2>. QED BY <2>1, <2>2, <2>3, <2>4 DEF Fresh, Moves
<1>4. CASE AllDispatched
  <2>1. run'.pc # "loop" /\ item' = item
    BY <1>4, <1>0 DEF AllDispatched, RunType
  <2>. QED BY <2>1 DEF Fresh
<1>6. CASE LoopStops
  <2>1. run'.pc = "drain"
    BY <1>6, <1>0 DEF LoopStops, Abort, RunType
  <2>2. \A i \in Items : item'[i].pc \notin InProgress
    BY <1>6, PendingIs DEF LoopStops, Abort, InProgress, NewItem
  <2>. QED BY <2>1, <2>2 DEF Fresh, InProgress
<1>7. CASE LoopFails
  <2>1. run'.pc = "drain"
    BY <1>7, <1>0 DEF LoopFails, Abort, RunType
  <2>2. \A i \in Items : item'[i].pc \notin InProgress
    BY <1>7, PendingIs DEF LoopFails, Abort, InProgress, NewItem
  <2>. QED BY <2>1, <2>2 DEF Fresh, InProgress
<1>8. CASE Gathered
  <2>1. run'.pc # "loop" /\ item' = item
    BY <1>8, <1>0 DEF Gathered, RunType
  <2>. QED BY <2>1 DEF Fresh
<1>9. CASE Drain
  <2>1. run'.pc # "loop" /\ item' = item
    BY <1>9, <1>0 DEF Drain, RunType
  <2>. QED BY <2>1 DEF Fresh
<1>10. CASE Finalize
  <2>1. run'.pc = "off" /\ \A i \in Items : item'[i].pc = "new"
    BY <1>10 DEF Finalize, NoRun, NewItem
  <2>. QED BY <2>1 DEF Fresh
<1>11. ASSUME NEW i \in Items, Enter(i)
      PROVE  \A k \in Items : Fresh(k)' => Fresh(k)
  <2>1. run' = run /\ item[i].pc = "waiting"
    BY <1>11 DEF Enter
  <2>2. Moves(i, "limited") \/ Moves(i, "skipped")
    BY <1>11, MovesBy DEF Enter, Pcs
  <2>. QED BY <2>1, <2>2 DEF Fresh, Moves
<1>12. ASSUME NEW i \in Items, Acquire(i)
      PROVE  \A k \in Items : Fresh(k)' => Fresh(k)
  <2>1. run' = run /\ item[i].pc = "limited"
    BY <1>12 DEF Acquire
  <2>2. Moves(i, "posted")
    BY <1>12, MovesBy DEF Acquire, Pcs
  <2>. QED BY <2>1, <2>2 DEF Fresh, Moves
<1>13. CASE Refill
    BY <1>13 DEF Refill, vars, Fresh
<1>14. ASSUME NEW i \in Items, Answer(i)
      PROVE  \A k \in Items : Fresh(k)' => Fresh(k)
  <2>1. run' = run /\ item[i].pc = "posted"
    BY <1>14 DEF Answer
  <2>2. Moves(i, "answered") \/ Moves(i, "limited")
    BY <1>14, MovesBy DEF Answer, Pcs
  <2>. QED BY <2>1, <2>2 DEF Fresh, Moves
<1>15. ASSUME NEW i \in Items, Store(i)
      PROVE  \A k \in Items : Fresh(k)' => Fresh(k)
  <2>1. item[i].pc = "answered" /\ (Moves(i, "counted") \/ Moves(i, "flushing"))
    BY <1>15, MovesBy DEF Store, Pcs
  <2>2. run'.pc = run.pc /\ run'.next = run.next /\ run'.done = run.done
    BY <1>15, <1>0 DEF Store, Bump, RunType
  <2>. QED BY <2>1, <2>2 DEF Fresh, Moves
<1>16. CASE Write
    BY <1>16 DEF Write, vars, Fresh
<1>17. CASE Flushed
  <2>1. CASE flush.by = TheRun
    <3>1. run'.pc = "final" /\ item' = item
        BY <1>17, <2>1, <1>0 DEF Flushed, RunType
    <3>. QED BY <3>1 DEF Fresh
  <2>2. CASE flush.by # TheRun
    <3>1. run' = Bump(flush.by) /\ flush.by \in Items /\ Moves(flush.by, "counted")
        BY <1>17, <2>2, ByItem, MovesBy DEF Flushed
    <3>2. run'.pc = run.pc /\ run'.next = run.next /\ run'.done = run.done
        BY <3>1, <1>0 DEF Bump, RunType
    <3>. QED BY <3>1, <3>2 DEF Fresh, Moves
  <2>. QED BY <2>1, <2>2
<1>18. CASE WriteFails
  <2>1. CASE flush.by = TheRun
    <3>1. run'.pc = "final" /\ item' = item
        BY <1>18, <2>1, <1>0 DEF WriteFails, RunType
    <3>. QED BY <3>1 DEF Fresh
  <2>2. CASE flush.by # TheRun
    <3>1. run' = run /\ flush.by \in Items /\ Moves(flush.by, "raised")
        BY <1>18, <2>2, ByItem, MovesBy DEF WriteFails, WritingNow, Pcs
    <3>. QED BY <3>1 DEF Fresh, Moves
  <2>. QED BY <2>1, <2>2
<1>19. ASSUME NEW s \in stray, Land(s)
      PROVE  \A k \in Items : Fresh(k)' => Fresh(k)
    BY <1>19 DEF Land, vars, Fresh
<1>20. ASSUME NEW status \in Stops, Stop(status)
      PROVE  \A k \in Items : Fresh(k)' => Fresh(k)
  <2>1. run'.pc = run.pc /\ run'.next = run.next /\ run'.done = run.done /\ item' = item
    BY <1>20, <1>0 DEF Stop, RunType
  <2>. QED BY <2>1 DEF Fresh
<1>21. CASE Crash
  <2>1. run'.pc = "off" /\ \A i \in Items : item'[i].pc = "new"
    BY <1>21 DEF Crash, NoRun, NewItem
  <2>. QED BY <2>1 DEF Fresh
<1>22. CASE Resume
    BY <1>22 DEF Resume, vars, Fresh
<1>23. ASSUME NEW commits \in BOOLEAN, RetryFailed(commits)
      PROVE  \A k \in Items : Fresh(k)' => Fresh(k)
    BY <1>23 DEF RetryFailed, vars, Fresh
<1>. QED BY <1>1, <1>3, <1>4, <1>6, <1>7, <1>8, <1>9, <1>10, <1>11, <1>12, <1>13, <1>14, <1>15,
            <1>16, <1>17, <1>18, <1>19, <1>20, <1>21, <1>22, <1>23
         DEF Next, Looping, Processing, Writing, Faults, Requests, Stops, NotLoad

-----------------------------------------------------------------------------
(* What a store does: one line more, for an item no file has.              *)
StoresIn(f, i) ==
    /\ f \in Files /\ Held(f)' = Held(f) \cup {i}
    /\ \A g \in Files : g # f => Held(g)' = Held(g) /\ Kept(g)
    /\ \A k \in Items : OnceAt(f, k) /\ (k = i => i \notin Held(f)) => OnceAt(f, k)'

LEMMA StoreLines ==
    ASSUME TypeInv, PhaseOK, ItemsOK, FreshOK, NEW i \in Items, Store(i)
    PROVE  /\ item[i].good => StoresIn("out", i)
           /\ ~item[i].good => StoresIn("err", i)
           /\ i \notin Out \cup Err \/ i \in Late \cap harmed
           /\ Late' = Late /\ harmed' = harmed
<1>1. buf \in [Files -> Seq(Items)] /\ BufOK /\ item[i].pc = "answered"
    BY DEF TypeInv, BufOK, Store
<1>2. flush = NoFlush /\ \A g \in Files : flush[g] = <<>>
    BY DEF Store, PhaseOK, NoFlush, Files
<1>3. UNCHANGED <<file, stray, harmed>> /\ \A g \in Files : file'[g] = file[g]
    BY DEF Store
<1>4. ASSUME NEW f \in Files, f = IF item[i].good THEN "out" ELSE "err"
      PROVE  StoresIn(f, i)
  <2>. DEFINE b == [buf EXCEPT ![f] = Append(@, i)]
  <2>1. b[f] = Append(buf[f], i) /\ \A g \in Files : g # f => b[g] = buf[g]
    BY <1>1
  <2>2. \/ /\ flush' = [by |-> i, out |-> b["out"], err |-> b["err"]]
           /\ buf' = [g \in Files |-> <<>>]
        \/ buf' = b /\ flush' = flush
    BY <1>4 DEF Store
  <2>. HIDE DEF b
  <2>3. \A g \in Files : \/ flush'[g] = b[g] /\ buf'[g] = <<>>
                         \/ flush'[g] = <<>> /\ buf'[g] = b[g]
    BY <1>2, <2>2 DEF Files
  <2>4. \/ flush'[f] = <<>> /\ buf'[f] = Append(buf[f], i)
        \/ flush'[f] = Append(buf[f], i) /\ buf'[f] = <<>>
    BY <2>1, <2>3
  <2>5. file'[f] = file[f] /\ flush[f] = <<>>
    BY <1>2, <1>3
  <2>6. /\ Held(f)' = Held(f) \cup {i}
        /\ \A k \in Items : OnceAt(f, k) /\ (k = i => i \notin Held(f)) => OnceAt(f, k)'
    BY <1>1, <2>4, <2>5, Stored
  <2>7. ASSUME NEW g \in Files, g # f
        PROVE  Held(g)' = Held(g) /\ Kept(g)
    <3>1. b[g] = buf[g] /\ flush[g] = <<>> /\ file'[g] = file[g]
        BY <1>2, <1>3, <2>1, <2>7
    <3>2. CASE flush'[g] = b[g] /\ buf'[g] = <<>>
        BY <3>1, <3>2, Handed
    <3>3. CASE flush'[g] = <<>> /\ buf'[g] = b[g]
      <4>1. Kept(g)
          BY <3>1, <3>3, Lost
      <4>2. flush'[g] = flush[g] /\ buf'[g] = buf[g] /\ file'[g] = file[g]
          BY <3>1, <3>3
      <4>. QED BY <4>1, <4>2 DEF Held
    <3>. QED BY <2>3, <3>2, <3>3
  <2>. QED BY <2>6, <2>7 DEF StoresIn
<1>5. i \notin Out \cup Err \/ i \in Late \cap harmed
    BY <1>1 DEF FreshOK, Fresh
<1>6. Late' = Late /\ harmed' = harmed
    BY <1>3 DEF Late
<1>. QED BY <1>4, <1>5, <1>6 DEF Files

(* There are two files, and their lines are items.                         *)
LEMMA BothFiles ==
    ASSUME TypeInv
    PROVE  /\ Files = {"out", "err"}
           /\ Out \subseteq Items /\ Err \subseteq Items
<1>1. ASSUME NEW f \in Files
      PROVE  Held(f) \subseteq Items
  <2>1. file[f].lines \in Seq(0..N) /\ flush[f] \in Seq(Items) /\ buf[f] \in Seq(Items)
    BY DEF TypeInv, FileType, FlushType, BufOK, Files
  <2>2. Range(file[f].lines) \subseteq 0..N /\ Range(flush[f]) \subseteq Items
        /\ Range(buf[f]) \subseteq Items
    BY <2>1, RangeIn, Zenon
  <2>. QED BY <2>2, ItemsAssumption DEF Held, Readable, Items
<1>. QED BY <1>1 DEF Files, Out, Err

(* What a landing does.                                                    *)
LEMMA LandLines ==
    ASSUME TypeInv, NEW s \in stray, Land(s)
    PROVE  /\ \A f \in Files : Held(f)' \subseteq Held(f) \cup Range(s.lines)
           /\ \A f \in Files : Held(f) \ Held(f)' \subseteq harmed'
           /\ \A f \in Files : \A i \in Items :
                 i \notin Range(s.lines) /\ OnceAt(f, i) => OnceAt(f, i)'
           /\ Range(s.lines) \subseteq Late' \cap harmed'
           /\ Range(s.lines) = {} => \A f \in Files : Held(f)' \subseteq Held(f)
<1>. DEFINE p == s.file
            g == Appended(file[p], s.lines)
<1>1. p \in Files /\ s.lines \in Seq(Items) /\ file[p] \in FileType
    BY DEF TypeInv, StrayType
<1>2. s.lines \in Seq(0..N)
    BY <1>1, ItemsAssumption DEF Items
<1>3. Extends(file[p], s.lines, g)
    BY <1>1, <1>2, Appending
<1>4. /\ file' = [file EXCEPT ![p] = g] /\ UNCHANGED <<flush, buf>>
      /\ harmed' = harmed \cup Damaged(file[p], s.lines, g) \cup Range(s.lines)
      /\ [s EXCEPT !.landed = TRUE] \in stray'
    BY DEF Land, memory
<1>. HIDE DEF g
<1>5. Range(s.lines) \subseteq Late' \cap harmed'
  <2>1. [s EXCEPT !.landed = TRUE].landed /\ [s EXCEPT !.landed = TRUE].lines = s.lines
    BY DEF TypeInv, StrayType
  <2>2. Range(s.lines) \subseteq Items
    BY <1>1, RangeIn
  <2>. QED BY <1>4, <2>1, <2>2 DEF Late
<1>6. ASSUME NEW f \in Files
      PROVE  /\ Held(f)' \subseteq Held(f) \cup Range(s.lines)
             /\ Held(f) \ Held(f)' \subseteq harmed'
             /\ \A i \in Items : i \notin Range(s.lines) /\ OnceAt(f, i) => OnceAt(f, i)'
  <2>0. file \in [Files -> FileType]
    BY DEF TypeInv
  <2>1. CASE f = p
    <3>1. file'[f] = g /\ flush'[f] = flush[f] /\ buf'[f] = buf[f]
          /\ Extends(file[f], s.lines, g)
        BY <1>3, <1>4, <2>0, <2>1
    <3>2. \A i : i \notin Range(s.lines) => OneIn(s.lines, i)
        BY DEF OneIn, Range
    <3>3. Held(f) \ Held(f)' \subseteq Damaged(file[f], s.lines, g)
          /\ Held(f)' \subseteq Held(f) \cup Range(s.lines)
          /\ \A i \in Items : i \notin Range(s.lines) /\ OnceAt(f, i) /\ OneIn(s.lines, i)
                 => OnceAt(f, i)'
        BY <3>1, Landed
    <3>. QED BY <3>2, <3>3, <2>1, <1>4
  <2>2. CASE f # p
    <3>1. file'[f] = file[f] /\ flush'[f] = flush[f] /\ buf'[f] = buf[f]
        BY <1>4, <2>0, <2>2
    <3>. QED BY <3>1, Lost DEF Kept
  <2>. QED BY <2>1, <2>2
<1>. QED BY <1>5, <1>6

(* Only an item without a line stores one.                                 *)
LEMMA OnceStep ==
    ASSUME TypeInv, PhaseOK, ItemsOK, FreshOK, OnceOK, [Next]_vars
    PROVE  OnceOK'
<1>0. Late \subseteq Late' /\ Out = Held("out") /\ Err = Held("err")
    BY LateStays DEF Out, Err
<1>1. ASSUME NEW i \in Items, Store(i)
      PROVE  OnceOK'
  <2>1. SUFFICES ASSUME NEW k \in Items, k \notin Late'
                 PROVE  OnceAt("out", k)' /\ OnceAt("err", k)' /\ k \notin Out' \cap Err'
    BY DEF OnceOK
  <2>2. OnceAt("out", k) /\ OnceAt("err", k) /\ k \notin Out \cap Err
    BY <1>0, <2>1 DEF OnceOK
  <2>3. k = i => i \notin Out \cup Err
    BY <1>0, <1>1, <2>1, StoreLines
  <2>4. CASE item[i].good
    <3>1. /\ Held("out")' = Held("out") \cup {i} /\ Held("err")' = Held("err") /\ Kept("err")
          /\ OnceAt("out", k) /\ (k = i => i \notin Held("out")) => OnceAt("out", k)'
        BY <1>1, <2>4, StoreLines, BothFiles DEF StoresIn
    <3>. QED BY <1>0, <2>2, <2>3, <3>1 DEF Kept, Out, Err
  <2>5. CASE ~item[i].good
    <3>1. /\ Held("err")' = Held("err") \cup {i} /\ Held("out")' = Held("out") /\ Kept("out")
          /\ OnceAt("err", k) /\ (k = i => i \notin Held("err")) => OnceAt("err", k)'
        BY <1>1, <2>5, StoreLines, BothFiles DEF StoresIn
    <3>. QED BY <1>0, <2>2, <2>3, <3>1 DEF Kept, Out, Err
  <2>. QED BY <2>4, <2>5
<1>2. ASSUME NEW s \in stray, Land(s)
      PROVE  OnceOK'
    BY <1>0, <1>2, LandLines, BothFiles DEF OnceOK, Out, Err
<1>3. CASE NoStore /\ NoLand
  <2>1. Kept("out") /\ Kept("err")
    BY <1>3, LinesStep, BothFiles DEF LinesKept
  <2>. QED BY <1>0, <2>1 DEF Kept, OnceOK, Out, Err
<1>. QED BY <1>1, <1>2, <1>3 DEF NoStore, NoLand

(* A scan finds what the files hold, with nothing in memory.               *)
LEMMA AtRest ==
    ASSUME TypeInv, PhaseOK, ItemsOK, run.pc \in {"off", "final"}
    PROVE  Out = Readable(file["out"]) /\ Err = Readable(file["err"])
<1>1. flush = NoFlush /\ buf = [f \in Files |-> <<>>]
  <2>1. flush.by = 0
    BY ByItem DEF PhaseOK, ItemsOK, InProgress, Running
  <2>. QED BY <2>1 DEF PhaseOK
<1>2. flush["out"] = <<>> /\ flush["err"] = <<>> /\ buf["out"] = <<>> /\ buf["err"] = <<>>
    BY <1>1 DEF NoFlush, Files
<1>. QED BY <1>2, EmptyRange DEF Out, Err, Held
(* Counting an item leaves the rest of the run alone.                      *)
LEMMA RunMoves ==
    ASSUME TypeInv
    PROVE  \A i : /\ Bump(i).pc = run.pc /\ Bump(i).next = run.next /\ Bump(i).done = run.done
                  /\ Bump(i).stop = run.stop /\ Bump(i).end = run.end
                  /\ Bump(i).completed = IF item[i].good THEN run.completed + 1 ELSE run.completed
                  /\ Bump(i).failed = IF item[i].good THEN run.failed ELSE run.failed + 1
<1>1. run \in RunType
    BY DEF TypeInv
<1>. QED BY <1>1 DEF Bump, RunType


(* A scan makes the items without a line fresh, and a store ends that.     *)
LEMMA FreshStep ==
    ASSUME TypeInv, PhaseOK, ItemsOK, FreshOK, [Next]_vars
    PROVE  FreshOK'
<1>0. Late \subseteq Late' /\ Out = Held("out") /\ Err = Held("err")
    BY LateStays DEF Out, Err
<1>1. CASE Load
  <2>1. Out' = Out /\ Err' = Err /\ run'.done = Scanned
    BY <1>1 DEF Load, Out, Err, Held, NoRun
  <2>2. Scanned = Out \cup Err
    BY <1>1, AtRest DEF Load, Scanned
  <2>3. \A i \in Items : item'[i].pc = "new"
    BY <1>1 DEF Load, NewItem
  <2>. QED BY <2>1, <2>2, <2>3 DEF FreshOK, Fresh
<1>2. CASE NotLoad
  <2>0. harmed \subseteq harmed' /\ \A k \in Items : Fresh(k)' => Fresh(k)
    BY <1>2, HarmedStays, FreshStays
  <2>1. ASSUME NEW i \in Items, Store(i)
        PROVE  FreshOK'
    <3>1. ~Fresh(i)'
      <4>1. item[i].pc = "answered" /\ (Moves(i, "counted") \/ Moves(i, "flushing"))
          BY <2>1, MovesBy DEF Store, Pcs
      <4>2. run'.pc = run.pc /\ run'.next = run.next
          BY <2>1, RunMoves DEF Store
      <4>3. run.pc = "loop" => ~(i >= run.next)
          BY <4>1, ItemsAssumption DEF ItemsOK, Items
      <4>. QED BY <4>1, <4>2, <4>3 DEF Fresh, Moves
    <3>2. Out' \cup Err' \subseteq Out \cup Err \cup {i}
        BY <1>0, <2>1, StoreLines DEF StoresIn, Kept, Files, Out, Err
    <3>. QED BY <1>0, <2>0, <3>1, <3>2 DEF FreshOK
  <2>2. ASSUME NEW s \in stray, Land(s)
        PROVE  FreshOK'
    BY <1>0, <2>0, <2>2, LandLines, BothFiles DEF FreshOK, Out, Err
  <2>3. CASE NoStore /\ NoLand
    <3>1. Kept("out") /\ Kept("err")
        BY <2>3, LinesStep, BothFiles DEF LinesKept
    <3>. QED BY <1>0, <2>0, <3>1 DEF Kept, FreshOK, Out, Err
  <2>. QED BY <2>1, <2>2, <2>3 DEF NoStore, NoLand
<1>. QED BY <1>1, <1>2 DEF NotLoad

(* Settled items keep their lines or come to harm.                         *)
LEMMA CoveredStep ==
    ASSUME TypeInv, PhaseOK, ItemsOK, FreshOK, CoveredOK, [Next]_vars
    PROVE  CoveredOK'
<1>0. Out = Held("out") /\ Err = Held("err") /\ run \in RunType
    BY DEF Out, Err, TypeInv
<1>1. CASE Load
  <2>1. Out' = Out /\ Err' = Err /\ run'.done = Scanned /\ row'.status \notin Finished
    BY <1>1 DEF Load, Out, Err, Held, NoRun, Finished
  <2>2. Scanned = Out \cup Err
    BY <1>1, AtRest DEF Load, Scanned
  <2>3. \A i \in Items : item'[i].pc = "new"
    BY <1>1 DEF Load, NewItem
  <2>. QED BY <2>1, <2>2, <2>3 DEF CoveredOK, Settled
<1>2. ASSUME NEW i \in Items, Store(i)
      PROVE  CoveredOK'
  <2>1. Out' \cup Err' = Out \cup Err \cup {i} /\ harmed' = harmed
    BY <1>0, <1>2, StoreLines DEF StoresIn, Files, Out, Err
  <2>2. /\ row' = row /\ run'.pc = run.pc /\ run'.end = run.end /\ run'.done = run.done
        /\ Moves(i, "counted") \/ Moves(i, "flushing")
    BY <1>2, RunMoves, MovesBy DEF Store, Pcs
  <2>. QED BY <2>1, <2>2 DEF CoveredOK, InEffect, Settled, Moves
<1>3. CASE NotLoad /\ NoStore
  <2>0. harmed \subseteq harmed'
    BY <1>3, HarmedStays
  <2>1. InEffect' \/ row'.status \in Finished => Out \cup Err \subseteq Out' \cup Err' \cup harmed'
    <3>1. ASSUME NEW s \in stray, Land(s)
          PROVE  Out \cup Err \subseteq Out' \cup Err' \cup harmed'
        BY <1>0, <3>1, LandLines, BothFiles DEF Out, Err
    <3>2. CASE NoLand
        BY <1>0, <1>3, <3>2, LinesStep, BothFiles DEF LinesKept, Out, Err
    <3>. QED BY <3>1, <3>2 DEF NoLand
  <2>2. InEffect' => /\ InEffect
                     /\ \A i \in Items : Settled(i)' => Settled(i) \/ i \in harmed'
    <3>1. CASE Flushed
      <4>1. CASE flush.by = TheRun
        <5>1. run'.done = run.done /\ run'.end = run.end /\ item' = item /\ run.pc = "write"
          BY <1>0, <3>1, <4>1 DEF Flushed, RunType, PhaseOK
        <5>. QED BY <5>1 DEF InEffect, Settled
      <4>2. CASE flush.by # TheRun
        <5>1. flush.by \in Items /\ run' = Bump(flush.by) /\ Moves(flush.by, "counted")
          BY <3>1, <4>2, ByItem, MovesBy DEF Flushed
        <5>2. run'.pc = run.pc /\ run'.end = run.end /\ run'.done = run.done
          BY <5>1, RunMoves
        <5>3. item[flush.by].pc = "flushing"
          BY <5>1 DEF ItemsOK
        <5>. QED BY <5>1, <5>2, <5>3 DEF InEffect, Settled, Moves
      <4>. QED BY <4>1, <4>2
    <3>2. CASE NotFlushed
        BY <1>3, <3>2, RunStep DEF RunKept
    <3>. QED BY <3>1, <3>2 DEF NotFlushed
  <2>3. ASSUME InEffect'
        PROVE  \A i \in Items : Settled(i)' => i \in Out' \cup Err' \cup harmed'
    BY <2>0, <2>1, <2>2, <2>3 DEF CoveredOK
  <2>4. ASSUME row'.status \in Finished
        PROVE  Items \subseteq Out' \cup Err' \cup harmed'
    <3>1. CASE Finalize
      <4>1. row'.status = "failed" \/ row'.status = run.end
          BY <3>1 DEF Finalize, TypeInv, RowType
      <4>2. InEffect /\ run.end \in Finished
          BY <2>4, <3>1, <4>1 DEF Finalize, InEffect, Finished
      <4>3. \A i \in Items : Settled(i)
          BY <4>2 DEF ItemsOK, Settled
      <4>. QED BY <2>0, <2>1, <2>4, <4>2, <4>3 DEF CoveredOK
    <3>2. CASE NotFinalize
      <4>1. row' = row
          BY <2>4, <3>2, RowStays
      <4>. QED BY <2>0, <2>1, <2>4, <4>1 DEF CoveredOK
    <3>. QED BY <3>1, <3>2 DEF NotFinalize
  <2>. QED BY <2>3, <2>4 DEF CoveredOK
<1>. QED BY <1>1, <1>2, <1>3 DEF NotLoad, NoStore

(* One element more.                                                       *)
LEMMA OneMore ==
    ASSUME NEW S \in SUBSET Items, NEW i \in Items, i \notin S
    PROVE  Cardinality(S \cup {i}) = Cardinality(S) + 1
<1>1. IsFiniteSet(Items)
    BY ItemsAssumption, FS_Interval DEF Items
<1>2. IsFiniteSet(S)
    BY <1>1, FS_Subset
<1>. QED BY <1>2, FS_AddElement

(* The counters follow the lines: at a store, or at the end of its flush.  *)
LEMMA TallyStep ==
    ASSUME TypeInv, PhaseOK, ItemsOK, CountOK, FreshOK, CoveredOK, TallyOK, [Next]_vars
    PROVE  TallyOK'
<1>0. /\ Out = Held("out") /\ Err = Held("err") /\ run \in RunType /\ item \in [Items -> ItemType]
      /\ Out \subseteq Items /\ Err \subseteq Items
    BY BothFiles DEF Out, Err, TypeInv
<1>00. Flushing = {flush.by} \cap Items
    BY DEF Flushing, ItemsOK
<1>1. CASE Load
  <2>1. Out' = Out /\ Err' = Err /\ row'.status \notin Finished
    BY <1>1 DEF Load, Out, Err, Held, Finished
  <2>2. run'.completed = Cardinality(Successes) /\ run'.failed = Cardinality(Scanned \ Successes)
    BY <1>1 DEF Load, NoRun, Restored
  <2>3. Out = Successes /\ Err \ Out = Scanned \ Successes
    BY <1>1, AtRest DEF Load, Scanned, Successes
  <2>4. Flushing' = {} /\ \A i \in Items : item'[i].pc # "raised"
    BY <1>1 DEF Load, NewItem, Flushing
  <2>5. Out' \ Flushing' = Successes /\ Err' \ (Out' \cup Flushing') = Scanned \ Successes
    BY <2>1, <2>3, <2>4
  <2>. HIDE DEF Successes, Scanned
  <2>. QED BY <2>1, <2>2, <2>4, <2>5 DEF TallyOK
<1>2. ASSUME NEW i \in Items, Store(i), harmed' = {}
      PROVE  TallyOK'
  <2>1. /\ item[i].good => StoresIn("out", i)
        /\ ~item[i].good => StoresIn("err", i)
        /\ harmed = {} /\ i \notin Out \cup Err
    BY <1>2, StoreLines
  <2>2. /\ item[i].good => Out' = Out \cup {i} /\ Err' = Err
        /\ ~item[i].good => Out' = Out /\ Err' = Err \cup {i}
    BY <1>0, <2>1 DEF StoresIn, Files, Out, Err
  <2>3. flush.by = 0 /\ item[i].pc = "answered" /\ row' = row
    BY <1>2 DEF Store
  <2>4. Flushing = {} /\ row.status \notin Finished /\ Running
    BY <1>00, <2>3, ByItem DEF ItemsOK, InProgress, PhaseOK, Running, Finished
  <2>5. CASE run' = Bump(i) /\ item' = [item EXCEPT ![i] = Counted]
    <3>1. /\ run'.completed = IF item[i].good THEN run.completed + 1 ELSE run.completed
          /\ run'.failed = IF item[i].good THEN run.failed ELSE run.failed + 1
          /\ InEffect' = InEffect
        BY <2>5, RunMoves DEF InEffect
    <3>2. Moves(i, "counted")
        BY <2>5, MovesBy
    <3>3. Flushing' = {} /\ \A j \in Items : item'[j].pc = "raised" => item[j].pc = "raised"
        BY <2>4, <3>2 DEF Flushing, Moves
    <3>4. /\ item[i].good => /\ Out' \ Flushing' = (Out \ Flushing) \cup {i}
                             /\ Err' \ (Out' \cup Flushing') = Err \ (Out \cup Flushing)
          /\ ~item[i].good => /\ Out' \ Flushing' = Out \ Flushing
                              /\ Err' \ (Out' \cup Flushing') = (Err \ (Out \cup Flushing)) \cup {i}
        BY <2>1, <2>2, <2>4, <3>3
    <3>5. /\ Cardinality((Out \ Flushing) \cup {i}) = Cardinality(Out \ Flushing) + 1
          /\ Cardinality((Err \ (Out \cup Flushing)) \cup {i})
                = Cardinality(Err \ (Out \cup Flushing)) + 1
        BY <1>0, <2>1, OneMore
    <3>6. CASE item[i].good
        BY <3>6, <3>1, <3>3, <3>4, <3>5, <2>1, <2>3, <2>4 DEF TallyOK
    <3>7. CASE ~item[i].good
        BY <3>7, <3>1, <3>3, <3>4, <3>5, <2>1, <2>3, <2>4 DEF TallyOK
    <3>. QED BY <3>6, <3>7
  <2>6. CASE run' = run /\ item' = [item EXCEPT ![i].pc = "flushing"]
    <3>1. Moves(i, "flushing") /\ item'[i].good = item[i].good
      <4>1. item'[i] = [pc |-> "flushing", tries |-> item[i].tries, good |-> item[i].good]
          BY <2>6, <1>0, ItemSet, Zenon DEF Pcs
      <4>2. Moves(i, "flushing")
          BY <2>6, MovesBy DEF Pcs
      <4>. QED BY <4>1, <4>2
    <3>2. Flushing' = {i} /\ \A j \in Items : item'[j].pc = "raised" => item[j].pc = "raised"
        BY <2>4, <3>1 DEF Flushing, Moves
    <3>3. /\ Out' \ Flushing' = Out \ Flushing
          /\ Err' \ (Out' \cup Flushing') = Err \ (Out \cup Flushing)
        BY <2>1, <2>2, <2>4, <3>2
    <3>4. IF item'[i].good THEN i \in Out' ELSE i \in Err' \ Out'
        BY <2>1, <2>2, <3>1
    <3>5. InEffect' = InEffect
        BY <2>6 DEF InEffect
    <3>. QED BY <2>1, <2>3, <2>4, <2>6, <3>2, <3>3, <3>4, <3>5 DEF TallyOK
  <2>. QED BY <1>2, <2>5, <2>6 DEF Store
<1>3. ASSUME NotLoad, NoStore, harmed' = {}
      PROVE  TallyOK'
  <2>0. harmed = {}
    BY <1>3, HarmedStays
  <2>1. InEffect' \/ row'.status \in Finished => Out' = Out /\ Err' = Err
    <3>1. ASSUME NEW s \in stray, Land(s)
          PROVE  Out' = Out /\ Err' = Err
      <4>1. Range(s.lines) = {}
          BY <1>3, <3>1, LandLines
      <4>2. \A f \in Files : Held(f)' \subseteq Held(f) /\ Held(f) \ Held(f)' \subseteq harmed'
          BY <3>1, <4>1, LandLines
      <4>. QED BY <1>0, <1>3, <4>2, BothFiles DEF Out, Err
    <3>2. CASE NoLand
        BY <1>0, <1>3, <3>2, LinesStep, BothFiles DEF LinesKept, Kept, Out, Err
    <3>. QED BY <3>1, <3>2 DEF NoLand
  <2>2. ASSUME InEffect'
        PROVE  /\ run'.completed = Cardinality(Out' \ Flushing')
               /\ run'.failed = Cardinality(Err' \ (Out' \cup Flushing'))
               /\ \A i \in Items : item'[i].pc # "raised"
               /\ \A i \in Flushing' : IF item'[i].good THEN i \in Out' ELSE i \in Err' \ Out'
    <3>0. Out' = Out /\ Err' = Err
        BY <2>1, <2>2
    <3>1. CASE Flushed
      <4>1. CASE flush.by = TheRun
        <5>1. /\ run'.completed = run.completed /\ run'.failed = run.failed
              /\ run'.end = run.end /\ item' = item /\ run.pc = "write"
          BY <1>0, <3>1, <4>1 DEF Flushed, RunType, PhaseOK
        <5>2. InEffect /\ Flushing' = Flushing
          BY <2>2, <5>1 DEF InEffect, Flushing
        <5>. QED BY <2>0, <3>0, <5>1, <5>2 DEF TallyOK
      <4>2. CASE flush.by # TheRun
        <5>. DEFINE i == flush.by
        <5>1. i \in Items /\ run' = Bump(i) /\ Moves(i, "counted") /\ item[i].pc = "flushing"
          BY <3>1, <4>2, ByItem, MovesBy DEF Flushed, ItemsOK
        <5>2. /\ run'.completed = IF item[i].good THEN run.completed + 1 ELSE run.completed
              /\ run'.failed = IF item[i].good THEN run.failed ELSE run.failed + 1
              /\ run'.pc = run.pc /\ run'.end = run.end
          BY <5>1, RunMoves
        <5>3. Flushing = {i}
          BY <1>00, <5>1
        <5>4. Flushing' = {} /\ \A j \in Items : item'[j].pc = "raised" => item[j].pc = "raised"
          BY <5>1, <5>3 DEF Flushing, Moves
        <5>5. /\ run.completed = Cardinality(Out \ {i}) /\ run.failed = Cardinality(Err \ (Out \cup {i}))
              /\ \A j \in Items : item[j].pc # "raised"
              /\ IF item[i].good THEN i \in Out ELSE i \in Err \ Out
          BY <2>0, <2>2, <5>2, <5>3 DEF TallyOK, InEffect
        <5>6. CASE item[i].good
          <6>1. Out \ {} = (Out \ {i}) \cup {i} /\ Err \ (Out \cup {}) = Err \ (Out \cup {i})
              BY <5>5, <5>6
          <6>2. Cardinality((Out \ {i}) \cup {i}) = Cardinality(Out \ {i}) + 1
              BY <1>0, <5>1, OneMore
          <6>3. Cardinality(Out \ {}) = run.completed + 1 /\ Cardinality(Err \ (Out \cup {})) = run.failed
              BY <5>5, <6>1, <6>2
          <6>. QED BY <3>0, <5>2, <5>4, <5>5, <5>6, <6>3
        <5>7. CASE ~item[i].good
          <6>1. Out \ {} = Out \ {i} /\ Err \ (Out \cup {}) = (Err \ (Out \cup {i})) \cup {i}
              BY <5>5, <5>7
          <6>2. Cardinality((Err \ (Out \cup {i})) \cup {i}) = Cardinality(Err \ (Out \cup {i})) + 1
              BY <1>0, <5>1, OneMore
          <6>3. Cardinality(Out \ {}) = run.completed /\ Cardinality(Err \ (Out \cup {})) = run.failed + 1
              BY <5>5, <6>1, <6>2
          <6>. QED BY <3>0, <5>2, <5>4, <5>5, <5>7, <6>3
        <5>. QED BY <5>6, <5>7
      <4>. QED BY <4>1, <4>2
    <3>2. CASE NotFlushed
      <4>1. RunKept
          BY <1>3, <3>2, RunStep
      <4>2. /\ InEffect /\ run'.completed = run.completed /\ run'.failed = run.failed
            /\ \A i \in Items :
                    /\ item'[i].pc = "raised" <=> item[i].pc = "raised"
                    /\ item'[i].pc = "flushing" <=> item[i].pc = "flushing"
                    /\ item[i].pc = "flushing" => item'[i].good = item[i].good
          BY <1>3, <2>2, <4>1 DEF RunKept
      <4>3. Flushing' = Flushing
          BY <4>2 DEF Flushing
      <4>. QED BY <2>0, <3>0, <4>2, <4>3 DEF TallyOK, Flushing
    <3>. QED BY <3>1, <3>2 DEF NotFlushed
  <2>3. ASSUME row'.status \in Finished
        PROVE  /\ row'.completed = Cardinality(Out')
               /\ row'.failed = Cardinality(Err' \ Out')
               /\ row'.completed + row'.failed = N
    <3>0. Out' = Out /\ Err' = Err
        BY <2>1, <2>3
    <3>1. CASE Finalize
      <4>1. run.end # "failed"
          BY <2>3, <3>1 DEF Finalize, TypeInv, RowType, Finished
      <4>2. row' = [status |-> run.end, completed |-> run.completed, failed |-> run.failed]
            /\ run.pc = "final"
          BY <3>1, <4>1 DEF Finalize
      <4>3. InEffect /\ run.end \in Finished /\ Flushing = {}
          BY <2>3, <4>2, <1>00 DEF InEffect, Flushing, ItemsOK, Running, InProgress
      <4>4. /\ run.completed = Cardinality(Out \ {}) /\ run.failed = Cardinality(Err \ (Out \cup {}))
            /\ \A i \in Items : item[i].pc # "raised"
          BY <2>0, <4>3 DEF TallyOK
      <4>5. Out \ {} = Out /\ Err \ (Out \cup {}) = Err \ Out
          OBVIOUS
      <4>6. run.done \cup CountedItems = Items
          BY <1>0, <4>3, <4>4 DEF ItemsOK, CountedItems, RunType
      <4>7. run.completed + run.failed = N
        <5>1. Cardinality(Items) = N
            BY ItemsAssumption, FS_Interval DEF Items
        <5>. QED BY <4>6, <5>1 DEF CountOK
      <4>. QED BY <3>0, <4>2, <4>4, <4>5, <4>7
    <3>2. CASE NotFinalize
      <4>1. row' = row
          BY <2>3, <3>2, RowStays
      <4>. QED BY <2>0, <2>3, <3>0, <4>1 DEF TallyOK
    <3>. QED BY <3>1, <3>2 DEF NotFinalize
  <2>. QED BY <2>2, <2>3 DEF TallyOK
<1>. QED BY <1>1, <1>2, <1>3 DEF TallyOK, NotLoad, NoStore

-----------------------------------------------------------------------------
LEMMA InvInit == Init => IInv
<1>. SUFFICES ASSUME Init PROVE IInv
    OBVIOUS
<1>0. /\ N \in Nat /\ FlushSize \in Nat \ {0} /\ Tpm \in Nat /\ MaxEvents \in Nat /\ MaxRetries \in Nat
    BY ItemsAssumption
<1>1. TypeInv
  <2>1. BufOK
    <3>1. \A f \in Files : buf[f] = <<>> /\ Len(<<>>) = 0
        BY DEF Init
    <3>2. buf \in [Files -> Seq(Items)]
        BY Sets DEF Init
    <3>. QED BY <1>0, <3>1, <3>2 DEF BufOK
  <2>2. row \in RowType
    BY <1>0 DEF Init, RowType
  <2>3. file \in [Files -> FileType]
    BY Sets DEF Init
  <2>4. run \in RunType /\ item \in [Items -> ItemType] /\ flush \in FlushType
    BY Sets, Zenon DEF Init
  <2>5. stray \subseteq StrayType /\ harmed \subseteq Items /\ bucket \in 0..Tpm /\ events \in 0..MaxEvents
    BY <1>0 DEF Init
  <2>. QED BY <2>1, <2>2, <2>3, <2>4, <2>5 DEF TypeInv
<1>2. /\ run.pc = "off" /\ run.done = {} /\ run.end = "none" /\ run = NoRun
      /\ run.completed = 0 /\ run.failed = 0
      /\ \A i \in Items : item[i].pc = "new" /\ item[i].tries = 0
      /\ flush.by = 0 /\ flush = NoFlush /\ buf = [f \in Files |-> <<>>]
      /\ row.status = "queued" /\ stray = {}
    BY DEF Init, NoRun, NewItem, NoFlush
<1>3. TriesOK /\ PhaseOK
    BY <1>0, <1>2 DEF TriesOK, PhaseOK, Running, TheRun
<1>4. ItemsOK
    BY <1>2, ByItem, <1>1 DEF ItemsOK, Running, InProgress, Finished
<1>5. CountOK
  <2>1. run.done \cup CountedItems = {}
    BY <1>2 DEF CountedItems
  <2>2. Cardinality(run.done \cup CountedItems) = 0
    BY <2>1, FS_EmptySet, Zenon
  <2>. QED BY <1>2, <2>2 DEF CountOK
<1>6. \A f \in Files : /\ Range(file[f].lines) = {} /\ Range(flush[f]) = {} /\ Range(buf[f]) = {}
                       /\ \A i : OneIn(file[f].lines, i) /\ OneIn(flush[f], i) /\ OneIn(buf[f], i)
  <2>1. \A f \in Files : file[f].lines = <<>> /\ flush[f] = <<>> /\ buf[f] = <<>>
    BY DEF Init, Empty, NoFlush, Files
  <2>. QED BY <2>1, EmptyOnce, EmptyRange
<1>7. Out = {} /\ Err = {}
    BY <1>6 DEF Out, Err, Held, Readable, Files
<1>8. FreshOK /\ OnceOK /\ CoveredOK /\ TallyOK
    BY <1>2, <1>6, <1>7 DEF FreshOK, OnceOK, OnceAt, CoveredOK, TallyOK, InEffect, Finished, Files
<1>. QED BY <1>1, <1>3, <1>4, <1>5, <1>8 DEF IInv

LEMMA InvStep == IInv /\ [Next]_vars => IInv'
<1>. SUFFICES ASSUME IInv, [Next]_vars PROVE IInv'
    OBVIOUS
<1>1. /\ TypeInv /\ TriesOK /\ PhaseOK /\ ItemsOK /\ CountOK
      /\ FreshOK /\ OnceOK /\ CoveredOK /\ TallyOK
    BY DEF IInv
<1>2. TypeInv'
    BY <1>1, TypeStep
<1>3. TriesOK' /\ PhaseOK'
    BY <1>1, TriesStep, PhaseStep
<1>4. ItemsOK' /\ CountOK'
    BY <1>1, <1>2, ItemsStep, CountStep
<1>5. FreshOK' /\ OnceOK'
    BY <1>1, FreshStep, OnceStep
<1>6. CoveredOK' /\ TallyOK'
    BY <1>1, CoveredStep, TallyStep
<1>. QED BY <1>2, <1>3, <1>4, <1>5, <1>6 DEF IInv

LEMMA InvHolds == Spec => []IInv
BY InvInit, InvStep, PTL DEF Spec

(* At every moment the run's counters, the buffers, the files and what was *)
(* abandoned have the form the code relies on: never more answers counted  *)
(* than items, never fewer than were found done.                           *)
THEOREM TypesHold == Spec => []ItemsTypeOK
<1>1. IInv => ItemsTypeOK
  <2>. SUFFICES ASSUME IInv PROVE ItemsTypeOK
    OBVIOUS
  <2>1. TypeInv /\ CountOK
    BY DEF IInv
  <2>2. N \in Nat /\ IsFiniteSet(Items) /\ Cardinality(Items) = N
    BY ItemsAssumption, FS_Interval DEF Items
  <2>3. /\ run.completed + run.failed <= N
        /\ run.completed + run.failed >= Cardinality(run.done)
    <3>1. run.done \cup CountedItems \subseteq Items
        BY <2>1 DEF TypeInv, RunType, CountedItems
    <3>2. IsFiniteSet(run.done \cup CountedItems) /\ Cardinality(run.done \cup CountedItems) <= N
        BY <2>2, <3>1, FS_Subset
    <3>3. Cardinality(run.done) <= Cardinality(run.done \cup CountedItems)
        BY <3>2, FS_Subset
    <3>. QED BY <2>1, <3>2, <3>3 DEF CountOK
  <2>4. \A s \in stray : s.file \in Files /\ Range(s.lines) \subseteq Items /\ s.landed \in BOOLEAN
    BY <2>1, RangeIn DEF TypeInv, StrayType
  <2>5. run.pc \in {"off", "loop", "gather", "drain", "write", "final"}
        /\ run.done \subseteq Items /\ run.next \in 1..(N + 1) /\ flush.by \in 0..TheRun
    BY <2>1 DEF TypeInv, RunType, FlushType
  <2>6. \A f \in Files : file[f].lines \in Seq(0..N) /\ file[f].open \in BOOLEAN
    BY <2>1 DEF TypeInv, FileType
  <2>. QED BY <2>1, <2>3, <2>4, <2>5, <2>6 DEF TypeInv, BufOK, ItemsTypeOK, RowType, ItemType, Pcs
<1>. QED BY <1>1, InvHolds, PTL

(* However often a job is stopped, killed, resumed or retried, the two     *)
(* files name no item twice, save one whose append came after a later scan.*)
THEOREM NoItemTwice == Spec => []NoneTwice
<1>1. IInv => NoneTwice
  <2>. SUFFICES ASSUME IInv, NEW i \in Items, Twice(i), i \notin Late
                PROVE  FALSE
    BY DEF NoneTwice, Late
  <2>1. TypeInv /\ OnceAt("out", i) /\ OnceAt("err", i) /\ i \notin Out \cap Err /\ i # 0
    BY ItemsAssumption DEF IInv, OnceOK, Items
  <2>2. PICK f \in Files, g \in Files : \E k \in DOMAIN file[f].lines, l \in DOMAIN file[g].lines :
            <<f, k>> # <<g, l>> /\ file[f].lines[k] = i /\ file[g].lines[l] = i
    BY DEF Twice
  <2>3. PICK k \in DOMAIN file[f].lines, l \in DOMAIN file[g].lines :
            <<f, k>> # <<g, l>> /\ file[f].lines[k] = i /\ file[g].lines[l] = i
    BY <2>2
  <2>4. i \in Readable(file[f]) /\ i \in Readable(file[g])
    BY <2>1, <2>3 DEF Readable, Range
  <2>5. f = g
    BY <2>1, <2>4 DEF Files, Out, Err, Held
  <2>6. OneIn(file[f].lines, i)
    BY <2>1 DEF Files, OnceAt
  <2>7. k = l
    BY <2>3, <2>5, <2>6 DEF OneIn
  <2>. QED BY <2>3, <2>5, <2>7
<1>. QED BY <1>1, InvHolds, PTL

(* Between runs every line is in a file.                                   *)
LEMMA AtRestOff == IInv /\ row.status \in Finished
    => Out = Readable(file["out"]) /\ Err = Readable(file["err"])
BY AtRest DEF IInv, PhaseOK, Finished

(* A job that ended well names every item in its files, but for those      *)
(* whose line was lost since the last scan.                                *)
THEOREM EveryItemAnswered == Spec => []AllAnswered
<1>1. IInv => AllAnswered
    BY AtRestOff DEF IInv, CoveredOK, AllAnswered
<1>. QED BY <1>1, InvHolds, PTL

(* And then its counters are those of the files, and add up to the input.  *)
THEOREM CountersMatch == Spec => []CountsMatch
<1>1. IInv => CountsMatch
    BY AtRestOff DEF IInv, TallyOK, CountsMatch
<1>. QED BY <1>1, InvHolds, PTL
=============================================================================
