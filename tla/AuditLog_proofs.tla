-------------------------- MODULE AuditLog_proofs ---------------------------
(***************************************************************************)
(* Acknowledged records of AuditLog are durable, for any number of         *)
(* appenders, records, rotations, faults and crashes but no short write.   *)
(*                                                                         *)
(* Every committed write adds one line, so write number k since the start  *)
(* of the log is line k + Offset of the active file, or was rotated away   *)
(* when that is not positive.                                              *)
(*                                                                         *)
(* The second part is about the hash chain, with a clock that does not go  *)
(* back.                                                                   *)
(***************************************************************************)
EXTENDS AuditLog, TLAPS

LinesOf(f) == IF f = NoFile THEN <<>> ELSE f.lines

(* Record n is a durable line of a rotated segment.                        *)
InSegment(s, n) ==
    \E a \in DOMAIN s : \E i \in 1 .. s[a].durable :
        s[a].lines[i].good /\ s[a].lines[i].n = n

InFile(f, n) ==
    f # NoFile /\ \E i \in 1 .. f.durable : f.lines[i].good /\ f.lines[i].n = n

Offset(l, f) == Len(LinesOf(f)) - l.writeCount

(* The segments of one second are numbered from 0, and some segment has    *)
(* the last name.                                                          *)
Last(D, a) == a \in D /\ \A b \in D \ {a} : segmentOrder(b, a)

HasLast(D) == D # {} => \E a \in D : Last(D, a)

Numbered(s) ==
    \A ts \in Nat : \E m \in Nat : \A k \in Nat : <<ts, k>> \in DOMAIN s <=> k < m

Enumerated(s) == DOMAIN s \subseteq Names /\ Numbered(s) /\ HasLast(DOMAIN s)

(* Only the last line of the file can be malformed.                        *)
Whole(f) == \A i \in 1 .. Len(LinesOf(f)) : i < Len(LinesOf(f)) => LinesOf(f)[i].good

(* What holds of the log struct and of the files between any two steps.    *)
Shape(l, s, f) ==
    /\ l \in Log
    /\ s = [a \in DOMAIN s |-> s[a]] /\ Enumerated(s)
    /\ \A a \in DOMAIN s : s[a] \in File /\ s[a].durable = Len(s[a].lines)
    /\ f \in File \cup {NoFile} /\ (f # NoFile => f.durable <= Len(f.lines)) /\ Whole(f)

Running(l, s, f) ==
    /\ l.f # "nil" => f # NoFile
    /\ l.f = "nil" => l.syncedCount = l.writeCount
    /\ l.syncedCount <= l.writeCount
    /\ l.syncedCount > 0 => l.syncedCount + Offset(l, f) <= IF f = NoFile THEN 0 ELSE f.durable
    /\ HasLines(f) => LastLine(f).good
    /\ HasLines(f) /\ LastLine(f).nl = "none" => l.needsNewline

(* Write number k was record n, and it is where Offset says.               *)
Placed(n, k, l, s, f) ==
    /\ k \in 1 .. l.writeCount
    /\ IF k + Offset(l, f) > 0
       THEN /\ LinesOf(f)[k + Offset(l, f)].good
            /\ LinesOf(f)[k + Offset(l, f)].n = n
       ELSE InSegment(s, n)

Waits(t) == t.pc \in {"syncwait", "sync", "fsync"}

Leading(t, l, s, f) ==
    /\ l.syncing /\ l.f # "nil"
    /\ t.my <= t.target /\ t.target <= l.writeCount
    /\ t.target + Offset(l, f) <= t.lines /\ t.lines <= Len(LinesOf(f))
    /\ t.rotated = DOMAIN s

Calls(th, l, s, f) ==
    /\ th \in [Appenders -> Thread]
    /\ \A p \in Appenders : Waits(th[p]) => Placed(th[p].n, th[p].my, l, s, f)
    /\ \A p \in Appenders : Leads(th[p]) => Leading(th[p], l, s, f)
    /\ \A p, q \in Appenders : Leads(th[p]) /\ Leads(th[q]) => p = q

Stored(s, f) == \A n \in acked : InSegment(s, n) \/ InFile(f, n)

AckInv ==
    /\ Shape(log, segs, active)
    /\ thread \in [Appenders -> Thread] /\ count \in Nat /\ clock \in Nat
    /\ log.up => Running(log, segs, active) /\ Calls(thread, log, segs, active)
    /\ ~log.up => \A p \in Appenders : thread[p].pc = "idle"
    /\ Stored(segs, active)

-----------------------------------------------------------------------------
(* Names of segments.                                                      *)

LEMMA PathFacts ==
    ASSUME NEW s, Enumerated(s), NEW ts \in Nat
    PROVE  \E m \in Nat : /\ rotatedSegmentPath(s, ts) = <<ts, m>>
                          /\ \A k \in Nat : <<ts, k>> \in DOMAIN s <=> k < m
<1>1. PICK m \in Nat : \A k \in Nat : <<ts, k>> \in DOMAIN s <=> k < m
  BY Zenon DEF Enumerated, Numbered
<1>2. PICK used : used = {a[2] : a \in {b \in DOMAIN s : b[1] = ts}}
  BY Zenon
<1>3. used \subseteq Nat /\ \A k \in Nat : k \in used <=> k < m
  <2>1. ASSUME NEW j \in used PROVE j \in Nat /\ j < m
    <3>1. PICK a \in DOMAIN s : a[1] = ts /\ j = a[2]
      BY <1>2
    <3>2. a = <<ts, j>> /\ j \in Nat
      BY <3>1 DEF Enumerated, Names
    <3> QED
      BY <1>1, <3>1, <3>2
  <2>2. ASSUME NEW k \in Nat, k < m PROVE k \in used
    <3>1. PICK a \in DOMAIN s : a = <<ts, k>>
      BY Zenon, <1>1, <2>2
    <3>2. a[1] = ts /\ a[2] = k
      BY <3>1
    <3> QED
      BY <1>2, <3>2
  <2> QED
    BY <2>1, <2>2
<1>4. PICK free : free = {0} \cup {j + 1 : j \in used}
  BY Zenon
<1>5. free \subseteq Nat /\ m \in free
  <2>1. m # 0 => m - 1 \in used /\ (m - 1) + 1 = m
    BY <1>3
  <2> QED
    BY <1>3, <1>4, <2>1
<1>6. m \notin used /\ \A j \in 0 .. (m - 1) : j \in used
  BY <1>3
<1>7. ASSUME NEW k \in free, k \notin used, \A j \in 0 .. (k - 1) : j \in used
      PROVE  k = m
  BY <1>3, <1>5, <1>7
<1>8. m = CHOOSE k \in free : k \notin used /\ \A j \in 0 .. (k - 1) : j \in used
  BY <1>5, <1>6, <1>7
<1>9. rotatedSegmentPath(s, ts) = <<ts, m>>
  BY Zenon, <1>2, <1>4, <1>8 DEF rotatedSegmentPath
<1> QED
  BY <1>1, <1>9

LEMMA OrderFacts ==
    /\ \A a, b \in Names : a = b \/ segmentOrder(a, b) \/ segmentOrder(b, a)
    /\ \A a, b \in Names : segmentOrder(a, b) => a # b /\ ~segmentOrder(b, a)
    /\ \A a, b, c \in Names : segmentOrder(a, b) /\ segmentOrder(b, c) => segmentOrder(a, c)
BY DEF Names, segmentOrder

(* One more name leaves a last one.                                        *)
LEMMA AddName ==
    ASSUME NEW D \in SUBSET Names, HasLast(D), NEW x \in Names, x \notin D
    PROVE  HasLast(D \cup {x})
<1>1. CASE D = {}
  <2>1. Last(D \cup {x}, x)
    BY <1>1 DEF Last
  <2> QED
    BY <2>1 DEF HasLast
<1>2. CASE D # {}
  <2>1. PICK y \in D : Last(D, y)
    BY <1>2 DEF HasLast
  <2>2. CASE segmentOrder(x, y)
    <3>1. Last(D \cup {x}, y)
      BY <2>1, <2>2 DEF Last
    <3> QED
      BY <3>1 DEF HasLast
  <2>3. CASE segmentOrder(y, x)
    <3>1. ASSUME NEW b \in D PROVE segmentOrder(b, x)
      <4>1. b = y \/ segmentOrder(b, y)
        BY <2>1 DEF Last
      <4> QED
        BY <2>3, <4>1, OrderFacts
    <3>2. Last(D \cup {x}, x)
      BY <3>1 DEF Last
    <3> QED
      BY <3>2 DEF HasLast
  <2> QED
    BY <2>1, <2>2, <2>3, OrderFacts
<1> QED
  BY <1>1, <1>2

LEMMA NewestFacts ==
    ASSUME NEW s, DOMAIN s \subseteq Names, HasLast(DOMAIN s), DOMAIN s # {}
    PROVE  Last(DOMAIN s, Newest(s)) /\ \A a : Last(DOMAIN s, a) => a = Newest(s)
<1>1. PICK a : Last(DOMAIN s, a)
  BY DEF HasLast
<1>2. Last(DOMAIN s, Newest(s))
  BY <1>1 DEF Newest, Last
<1>3. ASSUME NEW b, Last(DOMAIN s, b), b # Newest(s) PROVE FALSE
  <2>1. b \in Names /\ Newest(s) \in Names
    BY <1>2, <1>3 DEF Last
  <2>2. segmentOrder(b, Newest(s)) /\ segmentOrder(Newest(s), b)
    BY <1>2, <1>3 DEF Last
  <2> QED
    BY <2>1, <2>2, OrderFacts
<1> QED
  BY <1>2, <1>3

-----------------------------------------------------------------------------
(* Lines and files.                                                        *)

LEMMA SequenceFacts ==
    ASSUME NEW S, NEW ls \in Seq(S)
    PROVE  /\ Len(ls) \in Nat /\ ls \in [1 .. Len(ls) -> S] /\ DOMAIN ls = 1 .. Len(ls)
           /\ \A i \in 1 .. Len(ls) : ls[i] \in S
OBVIOUS

LEMMA EmptyFileFacts ==
    /\ EmptyFile \in File /\ EmptyFile # NoFile /\ EmptyFile.lines = <<>> /\ EmptyFile.durable = 0
    /\ Len(<<>>) = 0 /\ NoFile \notin File
<1>1. EmptyFile \in File /\ EmptyFile.lines = <<>> /\ EmptyFile.durable = 0
  BY DEF EmptyFile, File
<1> QED
  BY <1>1, AuditAssumption

LEMMA LinesOfFacts ==
    ASSUME NEW f \in File \cup {NoFile}
    PROVE  /\ LinesOf(f) \in Seq(Line) /\ Len(LinesOf(f)) \in Nat
           /\ f # NoFile => LinesOf(f) = f.lines
           /\ f = NoFile => LinesOf(f) = <<>> /\ Len(LinesOf(f)) = 0
           /\ \A i \in 1 .. Len(LinesOf(f)) : LinesOf(f)[i] \in Line
<1>1. LinesOf(f) \in Seq(Line)
  BY DEF LinesOf, File
<1>2. Len(LinesOf(f)) \in Nat /\ \A i \in 1 .. Len(LinesOf(f)) : LinesOf(f)[i] \in Line
  BY <1>1, SequenceFacts
<1> QED
  BY <1>1, <1>2 DEF LinesOf

SameRecord(x, y) == x.n = y.n /\ x.seq = y.seq /\ x.prev = y.prev /\ x.good = y.good

(* A whole write after a line that has its newline, or is lent one, adds   *)
(* one line and keeps the records of the others.                           *)
LEMMA WrittenFacts ==
    ASSUME NEW lines \in Seq(Line), NEW line \in Line, NEW newline,
           Len(lines) > 0 /\ lines[Len(lines)].nl = "none" => newline
    PROVE  /\ Written(lines, line, newline) \in Seq(Line)
           /\ Len(Written(lines, line, newline)) = Len(lines) + 1
           /\ Written(lines, line, newline)[Len(lines) + 1] = line
           /\ \A i \in 1 .. Len(lines) : SameRecord(Written(lines, line, newline)[i], lines[i])
<1>1. PICK k \in Nat : k = Len(lines)
  BY SequenceFacts
<1>2. CASE k = 0 \/ lines[k].nl # "none"
  <2>1. Written(lines, line, newline) = Append(lines, line)
    BY <1>1, <1>2 DEF Written
  <2> QED
    BY <1>1, <2>1 DEF SameRecord
<1>3. CASE k > 0 /\ lines[k].nl = "none"
  <2>1. PICK lent : lent = [lines EXCEPT ![k].nl = "lent"]
    BY Zenon
  <2>2. Written(lines, line, newline) = Append(lent, line)
    BY <1>1, <1>3, <2>1 DEF Written
  <2>3. lines[k] \in Line /\ [lines[k] EXCEPT !.nl = "lent"] \in Line
    <3>1. lines[k] \in Line
      BY <1>1, <1>3, SequenceFacts
    <3> QED
      BY Zenon, <3>1 DEF Line
  <2>4. lent \in Seq(Line) /\ Len(lent) = k
    BY <1>1, <1>3, <2>1, <2>3
  <2>5. \A i \in 1 .. k : SameRecord(lent[i], lines[i])
    <3>1. ASSUME NEW i \in 1 .. k, i # k PROVE lent[i] = lines[i]
      BY <1>1, <2>1, <3>1
    <3>2. lent[k] = [lines[k] EXCEPT !.nl = "lent"]
      BY <1>1, <1>3, <2>1
    <3>3. SameRecord(lent[k], lines[k])
      BY <2>3, <3>2 DEF SameRecord, Line
    <3> QED
      BY <3>1, <3>3 DEF SameRecord
  <2> QED
    BY <1>1, <2>2, <2>4, <2>5
<1> QED
  BY <1>1, <1>2, <1>3

LEMMA SyncedFacts ==
    ASSUME NEW f \in File
    PROVE  /\ Synced(f) \in File /\ Synced(f).lines = f.lines
           /\ Synced(f).durable = Len(f.lines) /\ Synced(f) # NoFile
BY SequenceFacts, AuditAssumption DEF Synced, File

-----------------------------------------------------------------------------
(* The parts of one step of a call: rotate, write, sync.                   *)

Ok(th, l, s, f) == Shape(l, s, f) /\ Running(l, s, f) /\ Calls(th, l, s, f) /\ Stored(s, f)

(* A log struct that differs from l only in what a rotation changes.       *)
Flushed(l2, l) ==
    /\ l2 \in Log /\ l2.syncedCount = l.writeCount
    /\ l2.up = l.up /\ l2.prevHash = l.prevHash
    /\ l2.writeCount = l.writeCount /\ l2.syncing = l.syncing

LEMMA LogFacts ==
    ASSUME NEW l \in Log
    PROVE  /\ Flushed(FlushedLog(l), l) /\ FlushedLog(l).f = "nil"
           /\ FlushedLog(l).needsNewline = l.needsNewline /\ FlushedLog(l).seq = l.seq
           /\ Flushed(Opened(FlushedLog(l)), l) /\ Opened(FlushedLog(l)).f = "open"
           /\ Opened(FlushedLog(l)).needsNewline = l.needsNewline
           /\ Opened(FlushedLog(l)).seq = l.seq
           /\ Flushed(RotatedLog(l), l) /\ RotatedLog(l).f = "nil" /\ RotatedLog(l).seq = 0
           /\ Flushed(Opened(RotatedLog(l)), l) /\ Opened(RotatedLog(l)).f = "open"
           /\ Opened(RotatedLog(l)).seq = 0
<1>1. PICK a : a = FlushedLog(l)
  OBVIOUS
<1>2. /\ Flushed(a, l) /\ a.f = "nil" /\ a.needsNewline = l.needsNewline /\ a.seq = l.seq
  BY Zenon, <1>1 DEF FlushedLog, Flushed, Log
<1>3. /\ Flushed(Opened(a), l) /\ Opened(a).f = "open"
      /\ Opened(a).needsNewline = l.needsNewline /\ Opened(a).seq = l.seq
  BY <1>2 DEF Flushed, Opened, Log
<1>4. PICK b : b = RotatedLog(l)
  OBVIOUS
<1>5. b = [a EXCEPT !.seq = 0, !.needsNewline = FALSE]
  BY <1>1, <1>4 DEF RotatedLog
<1>6. Flushed(b, l) /\ b.f = "nil" /\ b.seq = 0
  BY Zenon, <1>2, <1>5 DEF Flushed, Log
<1>7. Flushed(Opened(b), l) /\ Opened(b).f = "open" /\ Opened(b).seq = 0
  BY <1>6 DEF Flushed, Opened, Log
<1> QED
  BY <1>1, <1>2, <1>3, <1>4, <1>6, <1>7

LEMMA LogNat == \A l \in Log : l.writeCount \in Nat /\ l.syncedCount \in Nat /\ l.seq \in Nat
BY DEF Log

LEMMA OffsetInt ==
    ASSUME NEW l \in Log, NEW f \in File \cup {NoFile}
    PROVE  Offset(l, f) \in Int /\ Offset(l, f) = Len(LinesOf(f)) - l.writeCount
BY LinesOfFacts, LogNat DEF Offset

LEMMA MovedFacts ==
    ASSUME Shape(log, segs, active), active # NoFile, clock \in Nat
    PROVE  \E k \in Nat :
             /\ <<clock, k>> \notin DOMAIN segs
             /\ \A j \in Nat : <<clock, j>> \in DOMAIN segs <=> j < k
             /\ DOMAIN Moved = DOMAIN segs \cup {<<clock, k>>}
             /\ Moved[<<clock, k>>] = Synced(active)
             /\ \A a \in DOMAIN segs : Moved[a] = segs[a]
             /\ Moved = [a \in DOMAIN Moved |-> Moved[a]]
             /\ Enumerated(Moved)
             /\ \A a \in DOMAIN Moved : Moved[a] \in File /\ Moved[a].durable = Len(Moved[a].lines)
<1>1. PICK k \in Nat : /\ rotatedSegmentPath(segs, clock) = <<clock, k>>
                       /\ \A j \in Nat : <<clock, j>> \in DOMAIN segs <=> j < k
  BY Zenon, PathFacts DEF Shape
<1>2. PICK name : name = <<clock, k>>
  BY Zenon
<1>3. name \in Names /\ name \notin DOMAIN segs
  BY <1>1, <1>2 DEF Names
<1>4. Moved = [a \in DOMAIN segs \cup {name} |-> IF a = name THEN Synced(active) ELSE segs[a]]
  BY <1>1, <1>2 DEF Moved
<1>5. /\ DOMAIN Moved = DOMAIN segs \cup {name}
      /\ Moved[name] = Synced(active)
      /\ \A a \in DOMAIN segs : Moved[a] = segs[a]
      /\ Moved = [a \in DOMAIN Moved |-> Moved[a]]
  BY <1>3, <1>4
<1>6. Enumerated(Moved)
  <2>1. DOMAIN segs \subseteq Names /\ Numbered(segs) /\ HasLast(DOMAIN segs)
    BY DEF Shape, Enumerated
  <2>2. DOMAIN Moved \subseteq Names /\ HasLast(DOMAIN Moved)
    BY <1>3, <1>5, <2>1, AddName
  <2>3. ASSUME NEW ts \in Nat
        PROVE  \E m \in Nat : \A j \in Nat : <<ts, j>> \in DOMAIN Moved <=> j < m
    <3>1. CASE ts = clock
      <4>1. \A j \in Nat : <<ts, j>> = name <=> j = k
        BY <1>2, <3>1
      <4>2. \A j \in Nat : <<ts, j>> \in DOMAIN Moved <=> j < k + 1
        BY <1>1, <1>5, <3>1, <4>1
      <4>3. k + 1 \in Nat
        OBVIOUS
      <4> QED
        BY Zenon, <4>2, <4>3
    <3>2. CASE ts # clock
      <4>1. PICK m \in Nat : \A j \in Nat : <<ts, j>> \in DOMAIN segs <=> j < m
        BY Zenon, <2>1 DEF Numbered
      <4>2. \A j \in Nat : <<ts, j>> # name
        BY <1>2, <3>2
      <4>3. \A j \in Nat : <<ts, j>> \in DOMAIN Moved <=> j < m
        BY <1>5, <4>1, <4>2
      <4> QED
        BY Zenon, <4>3
    <3> QED
      BY Zenon, <3>1, <3>2
  <2>4. Numbered(Moved)
    BY Zenon, <2>3 DEF Numbered
  <2> QED
    BY <2>2, <2>4 DEF Enumerated
<1>7. active \in File
  BY DEF Shape
<1>8. Synced(active) \in File /\ Synced(active).durable = Len(Synced(active).lines)
  BY <1>7, SyncedFacts
<1>9. ASSUME NEW a \in DOMAIN Moved
      PROVE  Moved[a] \in File /\ Moved[a].durable = Len(Moved[a].lines)
  <2>1. CASE a = name
    BY <1>5, <1>8, <2>1
  <2>2. CASE a \in DOMAIN segs
    BY <1>5, <2>2 DEF Shape
  <2> QED
    BY <1>5, <2>1, <2>2
<1> QED
  BY <1>1, <1>2, <1>3, <1>5, <1>6, <1>9

(* What is in a segment stays there, and what was in the file is in its    *)
(* segment.                                                                *)
LEMMA MovedKeeps ==
    ASSUME Shape(log, segs, active), active # NoFile, clock \in Nat, NEW n,
           \/ InSegment(segs, n)
           \/ \E i \in 1 .. Len(active.lines) : active.lines[i].good /\ active.lines[i].n = n
    PROVE  InSegment(Moved, n)
<1>1. PICK name : /\ DOMAIN Moved = DOMAIN segs \cup {name}
                  /\ Moved[name] = Synced(active)
                  /\ \A a \in DOMAIN segs : Moved[a] = segs[a]
  BY Zenon, MovedFacts
<1>2. CASE InSegment(segs, n)
  BY <1>1, <1>2 DEF InSegment
<1>3. CASE \E i \in 1 .. Len(active.lines) : active.lines[i].good /\ active.lines[i].n = n
  <2>1. active \in File
    BY DEF Shape
  <2>2. Moved[name].lines = active.lines /\ Moved[name].durable = Len(active.lines)
    BY <1>1, <2>1, SyncedFacts
  <2> QED
    BY <1>1, <1>3, <2>2 DEF InSegment
<1> QED
  BY <1>2, <1>3

LEMMA NoLeader ==
    ASSUME NEW th, NEW l, NEW s, NEW f, Calls(th, l, s, f), ~l.syncing
    PROVE  \A p \in Appenders : ~Leads(th[p])
BY DEF Calls, Leading

(* The file is flushed and stays.                                          *)
LEMMA FlushOk ==
    ASSUME NEW th, Ok(th, log, segs, active), ~log.syncing, active # NoFile,
           NEW l, Flushed(l, log), l.needsNewline = log.needsNewline
    PROVE  Ok(th, l, segs, Synced(active))
<1>1. active \in File /\ log \in Log /\ l \in Log
  BY DEF Ok, Shape, Flushed
<1>2. /\ Synced(active) \in File /\ Synced(active).lines = active.lines
      /\ Synced(active).durable = Len(active.lines) /\ Synced(active) # NoFile
  BY <1>1, SyncedFacts
<1>3. LinesOf(Synced(active)) = LinesOf(active) /\ LinesOf(active) = active.lines
  BY <1>1, <1>2, LinesOfFacts
<1>4. Len(active.lines) \in Nat /\ l.writeCount \in Nat /\ l.writeCount = log.writeCount
  BY <1>1, <1>3, LinesOfFacts, LogNat DEF Flushed
<1>5. Offset(l, Synced(active)) = Offset(log, active)
  BY <1>3, <1>4 DEF Offset
<1>6. Shape(l, segs, Synced(active))
  <2>1. Whole(Synced(active))
    BY <1>3 DEF Ok, Shape, Whole
  <2> QED
    BY <1>1, <1>2, <1>4, <2>1 DEF Ok, Shape
<1>7. Running(l, segs, Synced(active))
  <2>1. l.syncedCount = l.writeCount
    BY DEF Flushed
  <2>2. l.syncedCount + Offset(l, Synced(active)) = Len(active.lines)
    BY <1>3, <1>4, <2>1 DEF Offset
  <2>3. HasLines(Synced(active)) => HasLines(active) /\ LastLine(Synced(active)) = LastLine(active)
    BY <1>2 DEF HasLines, LastLine
  <2> QED
    BY <1>2, <1>4, <2>1, <2>2, <2>3 DEF Ok, Running
<1>8. Calls(th, l, segs, Synced(active))
  <2>1. ASSUME NEW p \in Appenders, Waits(th[p])
        PROVE  Placed(th[p].n, th[p].my, l, segs, Synced(active))
    BY <1>3, <1>4, <1>5, <2>1 DEF Ok, Calls, Placed
  <2> QED
    BY Zenon, <2>1, NoLeader DEF Ok, Calls
<1>9. Stored(segs, Synced(active))
  <2>1. ASSUME NEW n, InFile(active, n) PROVE InFile(Synced(active), n)
    <3>1. PICK i \in 1 .. active.durable : active.lines[i].good /\ active.lines[i].n = n
      BY <2>1 DEF InFile
    <3>2. i \in 1 .. Len(active.lines)
      BY <1>1, <1>4, <3>1 DEF Ok, Shape, File
    <3> QED
      BY <1>2, <3>1, <3>2 DEF InFile
  <2> QED
    BY <2>1 DEF Ok, Stored
<1> QED
  BY <1>6, <1>7, <1>8, <1>9 DEF Ok

(* The file is renamed, and perhaps a new one opened.                      *)
LEMMA RenameOk ==
    ASSUME NEW th, Ok(th, log, segs, active), ~log.syncing, active # NoFile, clock \in Nat,
           NEW l, Flushed(l, log),
           NEW f \in {EmptyFile, NoFile}, l.f # "nil" => f # NoFile
    PROVE  Ok(th, l, Moved, f)
<1>1. active \in File /\ log \in Log /\ l \in Log /\ f \in File \cup {NoFile}
  BY EmptyFileFacts DEF Ok, Shape, Flushed
<1>2. LinesOf(f) = <<>> /\ Len(LinesOf(f)) = 0 /\ ~HasLines(f)
  BY EmptyFileFacts DEF LinesOf, HasLines
<1>3. l.writeCount \in Nat /\ l.writeCount = log.writeCount /\ l.syncedCount = l.writeCount
  BY <1>1, LogNat DEF Flushed
<1>4. Offset(l, f) = -l.writeCount
  BY <1>2, <1>3 DEF Offset
<1>5. Shape(l, Moved, f)
  <2>1. /\ Moved = [a \in DOMAIN Moved |-> Moved[a]]
        /\ Enumerated(Moved)
        /\ \A a \in DOMAIN Moved : Moved[a] \in File /\ Moved[a].durable = Len(Moved[a].lines)
    BY Zenon, MovedFacts DEF Ok
  <2>2. (f # NoFile => f.durable <= Len(f.lines)) /\ Whole(f)
    BY <1>2, EmptyFileFacts DEF Whole
  <2> QED
    BY <1>1, <2>1, <2>2 DEF Shape
<1>6. Running(l, Moved, f)
  BY <1>2, <1>3, <1>4, EmptyFileFacts DEF Running
<1>7. LinesOf(active) = active.lines /\ Len(active.lines) \in Nat /\ Offset(log, active) \in Int
  BY <1>1, LinesOfFacts, OffsetInt
<1>8. Calls(th, l, Moved, f)
  <2>1. ASSUME NEW p \in Appenders, Waits(th[p])
        PROVE  Placed(th[p].n, th[p].my, l, Moved, f)
    <3>1. Placed(th[p].n, th[p].my, log, segs, active)
      BY <2>1 DEF Ok, Calls
    <3>2. PICK k \in 1 .. log.writeCount : k = th[p].my
      BY <3>1 DEF Placed
    <3>3. k + Offset(l, f) <= 0
      BY <1>3, <1>4, <3>2
    <3>4. k + Offset(log, active) <= Len(active.lines)
      BY <1>3, <1>7, <3>2 DEF Offset
    <3>5. InSegment(Moved, th[p].n)
      <4>1. CASE k + Offset(log, active) > 0
        <5>1. PICK i \in 1 .. Len(active.lines) : i = k + Offset(log, active)
          BY <1>7, <3>2, <3>4, <4>1
        <5>2. active.lines[i].good /\ active.lines[i].n = th[p].n
          BY Zenon, <1>7, <3>1, <3>2, <4>1, <5>1 DEF Placed
        <5> QED
          BY <5>2, MovedKeeps DEF Ok
      <4>2. CASE ~(k + Offset(log, active) > 0)
        BY <3>1, <3>2, <4>2, MovedKeeps DEF Placed, Ok
      <4> QED
        BY <4>1, <4>2
    <3>6. ~(k + Offset(l, f) > 0)
      BY <1>3, <1>4, <3>2, <3>3
    <3> QED
      BY <1>3, <3>2, <3>5, <3>6 DEF Placed
  <2> QED
    BY Zenon, <2>1, NoLeader DEF Ok, Calls
<1>9. Stored(Moved, f)
  <2>1. ASSUME NEW n, InFile(active, n) PROVE InSegment(Moved, n)
    <3>1. PICK i \in 1 .. active.durable : active.lines[i].good /\ active.lines[i].n = n
      BY <2>1 DEF InFile
    <3>2. i \in 1 .. Len(active.lines)
      BY <1>1, <1>7, <3>1 DEF Ok, Shape, File
    <3> QED
      BY <3>1, <3>2, MovedKeeps DEF Ok
  <2> QED
    BY <2>1, MovedKeeps DEF Ok, Stored
<1> QED
  BY <1>5, <1>6, <1>8, <1>9 DEF Ok

LEMMA LeftFields ==
    ASSUME NEW l, NEW s, NEW f
    PROVE  Left(l, s, f).log = l /\ Left(l, s, f).segs = s /\ Left(l, s, f).active = f
BY DEF Left

(* The outcomes of maybeRotate, one by one.                                *)
Rotated(l, s, f) ==
    \/ l = log /\ s = segs /\ f = active
    \/ /\ Full(log, active) /\ s = segs /\ f = Synced(active)
       /\ l \in {FlushedLog(log), Opened(FlushedLog(log))}
    \/ /\ Full(log, active) /\ s = Moved
       /\ \/ l = Opened(RotatedLog(log)) /\ f = EmptyFile
          \/ l = RotatedLog(log) /\ f = NoFile

LEMMA RotationCases ==
    ASSUME NEW r \in maybeRotate(log)
    PROVE  Rotated(r.log, r.segs, r.active) /\ r = Left(r.log, r.segs, r.active)
<1>1. \/ r = Deferred(log)
      \/ Full(log, active) /\ r = Left(Opened(FlushedLog(log)), segs, Synced(active))
      \/ Full(log, active) /\ r = Left(FlushedLog(log), segs, Synced(active))
      \/ Full(log, active) /\ r = Left(Opened(RotatedLog(log)), Moved, EmptyFile)
      \/ Full(log, active) /\ r = Left(RotatedLog(log), Moved, NoFile)
  <2>1. CASE ~Full(log, active)
    BY <2>1 DEF maybeRotate
  <2>2. CASE Full(log, active)
    <3>1. r \in Rotations(log)
      BY <2>2 DEF maybeRotate
    <3> QED
      BY <2>2, <3>1 DEF Rotations
  <2> QED
    BY <2>1, <2>2
<1>2. CASE r = Deferred(log)
  BY <1>2, LeftFields DEF Deferred, Rotated
<1>3. CASE r # Deferred(log)
  BY <1>1, <1>3, LeftFields DEF Rotated
<1> QED
  BY <1>2, <1>3

LEMMA RotateOk ==
    ASSUME NEW th, Ok(th, log, segs, active), clock \in Nat,
           Full(log, active) => ~log.syncing,
           NEW r \in maybeRotate(log)
    PROVE  /\ Ok(th, r.log, r.segs, r.active)
           /\ r.log.up = log.up /\ r.log.syncing = log.syncing
<1>1. Rotated(r.log, r.segs, r.active) /\ log \in Log
  BY RotationCases DEF Ok, Shape
<1>2. CASE r.log = log /\ r.segs = segs /\ r.active = active
  BY <1>2
<1>3. CASE /\ Full(log, active) /\ r.segs = segs /\ r.active = Synced(active)
           /\ r.log \in {FlushedLog(log), Opened(FlushedLog(log))}
  <2>1. Flushed(r.log, log) /\ r.log.needsNewline = log.needsNewline
    BY <1>1, <1>3, LogFacts
  <2>2. active # NoFile /\ ~log.syncing
    BY <1>3 DEF Ok, Running, Full
  <2>3. Ok(th, r.log, segs, Synced(active))
    BY <2>1, <2>2, FlushOk
  <2> QED
    BY Zenon, <1>3, <2>1, <2>3 DEF Flushed
<1>4. CASE /\ Full(log, active) /\ r.segs = Moved
           /\ \/ r.log = Opened(RotatedLog(log)) /\ r.active = EmptyFile
              \/ r.log = RotatedLog(log) /\ r.active = NoFile
  <2>1. /\ Flushed(r.log, log) /\ r.active \in {EmptyFile, NoFile}
        /\ r.log.f # "nil" => r.active # NoFile
    BY Zenon, <1>1, <1>4, LogFacts, EmptyFileFacts
  <2>2. active # NoFile /\ ~log.syncing
    BY <1>4 DEF Ok, Running, Full
  <2>3. Ok(th, r.log, Moved, r.active)
    BY <2>1, <2>2, RenameOk
  <2> QED
    BY Zenon, <1>4, <2>1, <2>3 DEF Flushed
<1> QED
  BY <1>1, <1>2, <1>3, <1>4 DEF Rotated

(* The write.                                                              *)
LEMMA OpenFacts ==
    ASSUME NEW l \in Log, NEW f \in File \cup {NoFile}
    PROVE  /\ ensureOpen(l) \in Log /\ ensureOpen(l).f # "nil"
           /\ l.f # "nil" => ensureOpen(l).f = l.f
           /\ ensureOpen(l).writeCount = l.writeCount
           /\ ensureOpen(l).syncedCount = l.syncedCount /\ ensureOpen(l).syncing = l.syncing
           /\ ensureOpen(l).needsNewline = l.needsNewline /\ ensureOpen(l).up = l.up
           /\ ensureOpen(l).seq = l.seq /\ ensureOpen(l).prevHash = l.prevHash
           /\ Created(f) \in File /\ Created(f) # NoFile /\ Created(f).lines = LinesOf(f)
           /\ Created(f).durable = IF f = NoFile THEN 0 ELSE f.durable
<1>1. /\ Created(f) \in File /\ Created(f) # NoFile /\ Created(f).lines = LinesOf(f)
      /\ Created(f).durable = IF f = NoFile THEN 0 ELSE f.durable
  BY EmptyFileFacts DEF Created, LinesOf
<1> QED
  BY <1>1 DEF ensureOpen, Opened, Log

LEMMA CommittedFacts ==
    ASSUME NEW l \in Log, NEW n \in Nat
    PROVE  /\ Committed(l, n) \in Log
           /\ Committed(l, n).needsNewline = FALSE /\ Committed(l, n).seq = l.seq + 1
           /\ Committed(l, n).prevHash = n /\ Committed(l, n).writeCount = l.writeCount + 1
           /\ Committed(l, n).syncedCount = l.syncedCount /\ Committed(l, n).f = l.f
           /\ Committed(l, n).syncing = l.syncing /\ Committed(l, n).up = l.up
           /\ Entry(l, n) \in Line /\ Entry(l, n).n = n
           /\ Entry(l, n).good /\ Entry(l, n).nl = "own"
           /\ Entry(l, n).seq = l.seq + 1 /\ Entry(l, n).prev = l.prevHash
<1>1. PICK c : c = Committed(l, n)
  OBVIOUS
<1>2. c = [l EXCEPT !.needsNewline = FALSE, !.seq = l.seq + 1, !.prevHash = n,
                    !.writeCount = l.writeCount + 1]
  BY <1>1 DEF Committed, Log
<1>3. l.seq + 1 \in Nat /\ l.writeCount + 1 \in Nat /\ n \in Int /\ l.prevHash \in Int
  BY DEF Log
<1>4. /\ c \in Log /\ c.needsNewline = FALSE /\ c.seq = l.seq + 1
      /\ c.prevHash = n /\ c.writeCount = l.writeCount + 1
      /\ c.syncedCount = l.syncedCount /\ c.f = l.f /\ c.syncing = l.syncing /\ c.up = l.up
  BY Zenon, <1>2, <1>3 DEF Log
<1>5. /\ Entry(l, n) \in Line /\ Entry(l, n).n = n /\ Entry(l, n).good /\ Entry(l, n).nl = "own"
      /\ Entry(l, n).seq = l.seq + 1 /\ Entry(l, n).prev = l.prevHash
  BY Zenon, <1>3 DEF Entry, Line
<1> QED
  BY <1>1, <1>4, <1>5

(* Without short writes: the file was not opened, nothing was written, or  *)
(* the line was committed.                                                 *)
Wrote(ok, l2, f2, n, l, f) ==
    \/ ~ok /\ l2 = l /\ f2 = f
    \/ ~ok /\ l2 = ensureOpen(l) /\ f2 = Created(f)
    \/ /\ ok /\ ensureOpen(l).f = "open" /\ l2 = Committed(ensureOpen(l), n)
       /\ f2 = Put(Created(f), Entry(ensureOpen(l), n), l.needsNewline)

LEMMA WriteCases ==
    ASSUME "short" \notin Faults, NEW l \in Log, NEW s, NEW f \in File \cup {NoFile}, NEW n,
           NEW w \in Writes(Left(l, s, f), n)
    PROVE  /\ Wrote(w.ok, w.r.log, w.r.active, n, l, f) /\ w.r.segs = s /\ w.ok \in BOOLEAN
           /\ w.r = Left(w.r.log, s, w.r.active)
<1>1. PICK e, c : e = ensureOpen(l) /\ c = Created(f)
  OBVIOUS
<1>2. e.needsNewline = l.needsNewline
  BY <1>1, OpenFacts
<1>3. \/ w = [ok |-> FALSE, r |-> Left(l, s, f)]
      \/ w = [ok |-> FALSE, r |-> Left(e, s, c)]
      \/ /\ e.f = "open"
         /\ w = [ok |-> TRUE, r |-> Left(Committed(e, n), s, Put(c, Entry(e, n), e.needsNewline))]
  BY <1>1, LeftFields DEF Writes
<1>4. CASE w = [ok |-> FALSE, r |-> Left(l, s, f)]
  BY <1>4, LeftFields DEF Wrote
<1>5. CASE w = [ok |-> FALSE, r |-> Left(e, s, c)]
  BY <1>1, <1>5, LeftFields DEF Wrote
<1>6. CASE /\ e.f = "open"
           /\ w = [ok |-> TRUE,
                   r |-> Left(Committed(e, n), s, Put(c, Entry(e, n), e.needsNewline))]
  BY <1>1, <1>2, <1>6, LeftFields DEF Wrote
<1> QED
  BY <1>3, <1>4, <1>5, <1>6

LEMMA OpenedOk ==
    ASSUME NEW th, NEW l, NEW s, NEW f, Ok(th, l, s, f)
    PROVE  Ok(th, ensureOpen(l), s, Created(f))
<1>1. l \in Log /\ f \in File \cup {NoFile}
  BY DEF Ok, Shape
<1>2. PICK e, c : e = ensureOpen(l) /\ c = Created(f)
  OBVIOUS
<1>3. /\ e \in Log /\ e.f # "nil" /\ (l.f # "nil" => e.f = l.f)
      /\ e.writeCount = l.writeCount /\ e.syncedCount = l.syncedCount /\ e.syncing = l.syncing
      /\ e.needsNewline = l.needsNewline
      /\ c \in File /\ c # NoFile /\ c.lines = LinesOf(f)
      /\ c.durable = IF f = NoFile THEN 0 ELSE f.durable
  BY Zenon, <1>1, <1>2, OpenFacts
<1>4. LinesOf(c) = LinesOf(f) /\ Len(LinesOf(f)) \in Nat /\ Offset(e, c) = Offset(l, f)
  BY <1>1, <1>3, LinesOfFacts DEF Offset
<1>5. Shape(e, s, c)
  <2>1. c.durable <= Len(c.lines)
    BY <1>1, <1>3, <1>4, LinesOfFacts DEF Ok, Shape
  <2>2. Whole(c)
    BY <1>4 DEF Ok, Shape, Whole
  <2> QED
    BY <1>3, <2>1, <2>2 DEF Ok, Shape
<1>6. Running(e, s, c)
  <2>1. HasLines(c) => HasLines(f) /\ LastLine(c) = LastLine(f)
    BY <1>1, <1>3, LinesOfFacts DEF HasLines, LastLine
  <2> QED
    BY <1>3, <1>4, <2>1 DEF Ok, Running
<1>7. Calls(th, e, s, c)
  <2>1. ASSUME NEW p \in Appenders, Waits(th[p]) PROVE Placed(th[p].n, th[p].my, e, s, c)
    BY Zenon, <1>3, <1>4, <2>1 DEF Ok, Calls, Placed
  <2>2. ASSUME NEW p \in Appenders, Leads(th[p]) PROVE Leading(th[p], e, s, c)
    BY <1>3, <1>4, <2>2 DEF Ok, Calls, Leading
  <2> QED
    BY Zenon, <2>1, <2>2 DEF Ok, Calls
<1>8. Stored(s, c)
  <2>1. ASSUME NEW n, InFile(f, n) PROVE InFile(c, n)
    BY Zenon, <1>3, <1>4, <2>1, LinesOfFacts DEF InFile, LinesOf
  <2> QED
    BY Zenon, <2>1 DEF Ok, Stored
<1> QED
  BY <1>2, <1>5, <1>6, <1>7, <1>8 DEF Ok

LEMMA PutFacts ==
    ASSUME NEW l \in Log, NEW s, NEW f \in File, NEW n \in Nat, Running(l, s, f)
    PROVE  LET g == Put(f, Entry(l, n), l.needsNewline) IN
           /\ g \in File /\ g # NoFile /\ g.durable = f.durable
           /\ Len(f.lines) \in Nat /\ Len(g.lines) = Len(f.lines) + 1
           /\ g.lines[Len(f.lines) + 1] = Entry(l, n)
           /\ \A i \in 1 .. Len(f.lines) : SameRecord(g.lines[i], f.lines[i])
<1>1. f.lines \in Seq(Line) /\ Len(f.lines) \in Nat /\ Entry(l, n) \in Line
  BY Zenon, CommittedFacts, SequenceFacts DEF File
<1>2. Len(f.lines) > 0 /\ f.lines[Len(f.lines)].nl = "none" => l.needsNewline
  BY AuditAssumption DEF Running, HasLines, LastLine
<1>3. PICK x : x = Written(f.lines, Entry(l, n), l.needsNewline)
  OBVIOUS
<1>4. /\ x \in Seq(Line) /\ Len(x) = Len(f.lines) + 1 /\ x[Len(f.lines) + 1] = Entry(l, n)
      /\ \A i \in 1 .. Len(f.lines) : SameRecord(x[i], f.lines[i])
  BY ZenonT(30), <1>1, <1>2, <1>3, WrittenFacts
<1>5. PICK g : g = Put(f, Entry(l, n), l.needsNewline)
  OBVIOUS
<1>6. g = [f EXCEPT !.lines = x]
  BY <1>3, <1>5 DEF Put
<1>7. g \in File /\ g.lines = x /\ g.durable = f.durable
  BY <1>4, <1>6 DEF File
<1> QED
  BY <1>1, <1>4, <1>5, <1>7, AuditAssumption

LEMMA CommitOk ==
    ASSUME NEW th, NEW l, NEW s, NEW f, Ok(th, l, s, f), f # NoFile, l.f # "nil", NEW n \in Nat
    PROVE  LET c == Committed(l, n)
               g == Put(f, Entry(l, n), l.needsNewline)
           IN Ok(th, c, s, g) /\ Placed(n, c.writeCount, c, s, g)
<1>1. l \in Log /\ f \in File
  BY DEF Ok, Shape
<1>2. PICK e : e = Entry(l, n)
  OBVIOUS
<1>3. PICK c : c = Committed(l, n)
  OBVIOUS
<1>4. PICK g : g = Put(f, e, l.needsNewline)
  OBVIOUS
<1>5. /\ c \in Log /\ c.needsNewline = FALSE
      /\ c.writeCount = l.writeCount + 1 /\ c.syncedCount = l.syncedCount
      /\ c.f = l.f /\ c.syncing = l.syncing
      /\ e.n = n /\ e.good /\ e.nl = "own"
  BY ZenonT(30), <1>1, <1>2, <1>3, CommittedFacts
<1>6. PICK k \in Nat : /\ k = Len(f.lines) /\ Len(g.lines) = k + 1 /\ g.lines[k + 1] = e
                       /\ g \in File /\ g # NoFile /\ g.durable = f.durable
                       /\ \A i \in 1 .. k : SameRecord(g.lines[i], f.lines[i])
  BY Zenon, <1>1, <1>2, <1>4, PutFacts DEF Ok
<1>7. PICK wc \in Nat : wc = l.writeCount
  BY <1>1, LogNat
<1>8. l.syncedCount \in Nat /\ l.syncedCount <= wc /\ f.durable \in Nat /\ f.durable <= k
  BY <1>1, <1>6, <1>7, LogNat DEF Ok, Running, Shape, File
<1>9. LinesOf(f) = f.lines /\ LinesOf(g) = g.lines
  BY <1>6 DEF LinesOf
<1>10. Offset(l, f) = k - wc /\ Offset(c, g) = k - wc
  <2>1. Offset(c, g) = (k + 1) - (wc + 1)
    BY <1>5, <1>6, <1>7, <1>9 DEF Offset
  <2>2. Offset(l, f) = k - wc
    BY <1>6, <1>7, <1>9 DEF Offset
  <2> QED
    BY <2>1, <2>2
<1>11. Shape(c, s, g)
  <2>1. ASSUME NEW i \in 1 .. k PROVE f.lines[i].good
    <3>1. CASE i < k
      BY Zenon, <1>6, <1>9, <3>1 DEF Ok, Shape, Whole
    <3>2. CASE i = k
      BY SMTT(20), <1>6, <3>2, AuditAssumption DEF Ok, Running, HasLines, LastLine
    <3> QED
      BY <3>1, <3>2
  <2>2. Whole(g)
    BY SMTT(20), <1>6, <1>9, <2>1 DEF Whole, SameRecord
  <2> QED
    BY <1>5, <1>6, <1>8, <2>2 DEF Ok, Shape
<1>12. Running(c, s, g)
  <2>1. LastLine(g).nl # "none" /\ LastLine(g).good
    BY <1>5, <1>6 DEF LastLine
  <2>2. c.syncedCount <= c.writeCount
    BY SMTT(20), <1>5, <1>7, <1>8
  <2>3. c.syncedCount > 0 => c.syncedCount + Offset(c, g) <= g.durable
    BY <1>5, <1>6, <1>10 DEF Ok, Running
  <2> QED
    BY Zenon, <1>5, <1>6, <2>1, <2>2, <2>3 DEF Running
<1>13. Calls(th, c, s, g)
  <2>1. ASSUME NEW p \in Appenders, Waits(th[p]) PROVE Placed(th[p].n, th[p].my, c, s, g)
    <3>1. Placed(th[p].n, th[p].my, l, s, f)
      BY Zenon, <2>1 DEF Ok, Calls
    <3>2. PICK my \in 1 .. wc : my = th[p].my
      BY Zenon, <1>7, <3>1 DEF Placed
    <3>3. my \in 1 .. c.writeCount
      BY <1>5, <1>7, <3>2
    <3>4. CASE my + (k - wc) > 0
      <4>1. PICK i \in 1 .. k : i = my + (k - wc)
        BY <3>2, <3>4
      <4>2. f.lines[i].good /\ f.lines[i].n = th[p].n
        BY Zenon, <1>9, <1>10, <3>1, <3>2, <3>4, <4>1 DEF Placed
      <4>3. g.lines[i].good /\ g.lines[i].n = th[p].n
        BY Zenon, <1>6, <4>2 DEF SameRecord
      <4> QED
        BY Zenon, <1>9, <1>10, <3>2, <3>3, <3>4, <4>1, <4>3 DEF Placed
    <3>5. CASE ~(my + (k - wc) > 0)
      BY Zenon, <1>10, <3>1, <3>2, <3>3, <3>5 DEF Placed
    <3> QED
      BY Zenon, <3>4, <3>5
  <2>2. ASSUME NEW p \in Appenders, Leads(th[p]) PROVE Leading(th[p], c, s, g)
    <3>1. Leading(th[p], l, s, f) /\ th[p] \in Thread
      BY <2>2 DEF Ok, Calls
    <3>2. th[p].target \in Nat /\ th[p].lines \in Nat
      BY <3>1 DEF Thread
    <3> QED
      BY SMTT(20), <1>5, <1>6, <1>7, <1>9, <1>10, <3>1, <3>2 DEF Leading
  <2> QED
    BY <2>1, <2>2 DEF Ok, Calls
<1>14. Stored(s, g)
  <2>1. ASSUME NEW m, InFile(f, m) PROVE InFile(g, m)
    <3>1. PICK i \in 1 .. f.durable : f.lines[i].good /\ f.lines[i].n = m
      BY <2>1 DEF InFile
    <3>2. i \in 1 .. k /\ SameRecord(g.lines[i], f.lines[i])
      BY SMTT(20), <1>6, <1>8, <3>1
    <3> QED
      BY Zenon, <1>6, <3>1, <3>2 DEF InFile, SameRecord
  <2> QED
    BY <2>1 DEF Ok, Stored
<1>15. Placed(n, c.writeCount, c, s, g)
  <2>1. c.writeCount + Offset(c, g) = k + 1 /\ c.writeCount \in 1 .. c.writeCount
    BY <1>5, <1>7, <1>10
  <2> QED
    BY SMTT(20), <1>5, <1>6, <1>9, <2>1 DEF Placed
<1> QED
  BY <1>2, <1>3, <1>4, <1>11, <1>12, <1>13, <1>14, <1>15 DEF Ok

LEMMA WriteOk ==
    ASSUME "short" \notin Faults, NEW th, NEW l, NEW s, NEW f, Ok(th, l, s, f), NEW n \in Nat,
           NEW w \in Writes(Left(l, s, f), n)
    PROVE  /\ Ok(th, w.r.log, s, w.r.active) /\ w.r.segs = s
           /\ w.r = Left(w.r.log, s, w.r.active)
           /\ w.ok \in BOOLEAN
           /\ w.r.log.up = l.up /\ w.r.log.syncing = l.syncing
           /\ w.ok => /\ Placed(n, w.r.log.writeCount, w.r.log, s, w.r.active)
                      /\ w.r.log.f # "nil"
<1>1. l \in Log /\ f \in File \cup {NoFile}
  BY DEF Ok, Shape
<1>2. /\ Wrote(w.ok, w.r.log, w.r.active, n, l, f) /\ w.r.segs = s /\ w.ok \in BOOLEAN
      /\ w.r = Left(w.r.log, s, w.r.active)
  BY <1>1, WriteCases
<1>3. PICK e, c : e = ensureOpen(l) /\ c = Created(f)
  OBVIOUS
<1>4. /\ e \in Log /\ e.f # "nil" /\ c # NoFile /\ e.needsNewline = l.needsNewline
      /\ e.up = l.up /\ e.syncing = l.syncing
  BY <1>1, <1>3, OpenFacts
<1>5. Ok(th, e, s, c)
  BY Zenon, <1>3, OpenedOk
<1>6. CASE ~w.ok /\ w.r.log = l /\ w.r.active = f
  BY Zenon, <1>2, <1>6
<1>7. CASE ~w.ok /\ w.r.log = e /\ w.r.active = c
  BY Zenon, <1>2, <1>4, <1>5, <1>7
<1>8. CASE /\ w.ok /\ w.r.log = Committed(e, n)
           /\ w.r.active = Put(c, Entry(e, n), e.needsNewline)
  <2>1. /\ Ok(th, w.r.log, s, w.r.active)
        /\ Placed(n, w.r.log.writeCount, w.r.log, s, w.r.active)
    BY Zenon, <1>4, <1>5, <1>8, CommitOk
  <2>2. w.r.log.f = e.f /\ w.r.log.up = e.up /\ w.r.log.syncing = e.syncing
    <3>1. /\ Committed(e, n).f = e.f /\ Committed(e, n).up = e.up
          /\ Committed(e, n).syncing = e.syncing
      BY ZenonT(30), <1>4, CommittedFacts
    <3> QED
      BY <1>8, <3>1
  <2> QED
    BY Zenon, <1>2, <1>4, <2>1, <2>2
<1> QED
  BY <1>2, <1>3, <1>4, <1>6, <1>7, <1>8 DEF Wrote

(* The sync.                                                               *)
LEMMA SyncToFacts ==
    ASSUME NEW t \in Thread, NEW l \in Log, NEW s, DOMAIN s \subseteq Names,
           NEW f \in File \cup {NoFile}
    PROVE  LET u == syncTo(t, Left(l, s, f)) IN
           /\ u \in Thread /\ u.n = t.n /\ u.my = t.my /\ Waits(u)
           /\ l.syncing => ~Leads(u)
           /\ ~l.syncing => /\ Leads(u) /\ u.target = l.writeCount
                            /\ u.lines = Len(LinesOf(f)) /\ u.rotated = DOMAIN s
<1>1. PICK r : r = Left(l, s, f)
  OBVIOUS
<1>2. r.log = l /\ r.segs = s /\ r.active = f
  BY <1>1, LeftFields
<1>3. PICK u : u = syncTo(t, r)
  BY Zenon
<1>4. CASE l.syncing
  <2>1. u = [t EXCEPT !.pc = "syncwait"]
    BY <1>2, <1>3, <1>4 DEF syncTo
  <2>2. u \in Thread /\ u.n = t.n /\ u.my = t.my /\ u.pc = "syncwait"
    BY Zenon, <2>1 DEF Thread
  <2> QED
    BY <1>1, <1>3, <1>4, <2>2 DEF Waits, Leads
<1>5. CASE ~l.syncing
  <2>1. PICK k : k = IF f = NoFile THEN 0 ELSE Len(f.lines)
    BY Zenon
  <2>2. PICK c : c = DOMAIN s
    OBVIOUS
  <2>3. u = [t EXCEPT !.pc = "fsync", !.target = l.writeCount, !.f = l.f,
                      !.lines = k, !.rotated = c]
    BY <1>2, <1>3, <1>5, <2>1, <2>2 DEF syncTo
  <2>4. k = Len(LinesOf(f)) /\ k \in Nat /\ c \in SUBSET Names
    BY <2>1, <2>2, LinesOfFacts
  <2>5. l.writeCount \in Nat /\ l.f \in {"open", "nil", "closed"}
    BY DEF Log
  <2>6. /\ u \in Thread /\ u.n = t.n /\ u.my = t.my /\ u.pc = "fsync"
        /\ u.target = l.writeCount /\ u.lines = k /\ u.rotated = c
    BY Zenon, <2>3, <2>4, <2>5 DEF Thread
  <2> QED
    BY <1>1, <1>3, <1>5, <2>2, <2>4, <2>6 DEF Waits, Leads
<1> QED
  BY <1>4, <1>5

LEMMA SyncingFacts ==
    ASSUME NEW l \in Log, NEW b \in BOOLEAN
    PROVE  LET m == [l EXCEPT !.syncing = b] IN
           /\ m \in Log /\ m.syncing = b /\ m.up = l.up /\ m.f = l.f /\ m.seq = l.seq
           /\ m.needsNewline = l.needsNewline /\ m.prevHash = l.prevHash
           /\ m.writeCount = l.writeCount /\ m.syncedCount = l.syncedCount
BY DEF Log

(* A thread is idle again, or waits, or leads.                             *)
LEMMA ThreadOk ==
    ASSUME NEW th, NEW l, NEW s, NEW f, Ok(th, l, s, f),
           NEW p \in Appenders, NEW u \in Thread, NEW b \in BOOLEAN, l.syncing => b,
           Waits(u) => Placed(u.n, u.my, l, s, f),
           Leads(u) => /\ Leading(u, [l EXCEPT !.syncing = b], s, f)
                       /\ \A q \in Appenders : ~Leads(th[q])
    PROVE  Ok([th EXCEPT ![p] = u], [l EXCEPT !.syncing = b], s, f)
<1>1. PICK m : m = [l EXCEPT !.syncing = b]
  OBVIOUS
<1>2. PICK tt : tt = [th EXCEPT ![p] = u]
  BY Zenon
<1>3. /\ m \in Log /\ m.syncing = b /\ m.f = l.f
      /\ m.needsNewline = l.needsNewline
      /\ m.writeCount = l.writeCount /\ m.syncedCount = l.syncedCount
  BY <1>1, SyncingFacts DEF Ok, Shape
<1>4. /\ tt \in [Appenders -> Thread] /\ tt[p] = u
      /\ \A q \in Appenders \ {p} : tt[q] = th[q]
  BY <1>2 DEF Ok, Calls
<1>5. Offset(m, f) = Offset(l, f)
  BY <1>3 DEF Offset
<1>6. Shape(m, s, f) /\ Running(m, s, f)
  BY <1>3, <1>5 DEF Ok, Shape, Running
<1>7. ASSUME NEW q \in Appenders, Waits(tt[q]) PROVE Placed(tt[q].n, tt[q].my, m, s, f)
  BY <1>3, <1>4, <1>5, <1>7 DEF Ok, Calls, Placed
<1>8. ASSUME NEW q \in Appenders, Leads(tt[q]) PROVE Leading(tt[q], m, s, f)
  <2>1. CASE q = p
    BY <1>1, <1>4, <1>8, <2>1
  <2>2. CASE q # p
    <3>1. Leading(th[q], l, s, f) /\ tt[q] = th[q]
      BY <1>4, <1>8, <2>2 DEF Ok, Calls
    <3> QED
      BY <1>3, <1>5, <3>1 DEF Leading
  <2> QED
    BY <2>1, <2>2
<1>9. ASSUME NEW q \in Appenders, NEW o \in Appenders, Leads(tt[q]), Leads(tt[o]) PROVE q = o
  BY <1>4, <1>9 DEF Ok, Calls
<1>10. Calls(tt, m, s, f)
  BY <1>4, <1>7, <1>8, <1>9 DEF Calls
<1> QED
  BY <1>1, <1>2, <1>6, <1>10 DEF Ok

LEMMA SyncOk ==
    ASSUME NEW th, NEW l, NEW s, NEW f, Ok(th, l, s, f), l.f # "nil",
           NEW p \in Appenders, NEW t \in Thread, Placed(t.n, t.my, l, s, f),
           NEW u, u = syncTo(t, Left(l, s, f))
    PROVE  Ok([th EXCEPT ![p] = u], [l EXCEPT !.syncing = @ \/ Leads(u)], s, f)
<1>1. l \in Log /\ DOMAIN s \subseteq Names /\ f \in File \cup {NoFile} /\ l.syncing \in BOOLEAN
  BY ZenonT(30) DEF Ok, Shape, Log, Enumerated
<1>2. /\ u \in Thread /\ u.n = t.n /\ u.my = t.my /\ Waits(u)
      /\ l.syncing => ~Leads(u)
      /\ ~l.syncing => /\ Leads(u) /\ u.target = l.writeCount
                       /\ u.lines = Len(LinesOf(f)) /\ u.rotated = DOMAIN s
  BY <1>1, SyncToFacts
<1>3. [l EXCEPT !.syncing = @ \/ Leads(u)] = [l EXCEPT !.syncing = TRUE]
  <2>1. (l.syncing \/ Leads(u)) = TRUE
    BY <1>2
  <2> QED
    BY Zenon, <1>1, <2>1
<1>4. CASE l.syncing
  BY Zenon, <1>2, <1>3, <1>4, ThreadOk
<1>5. CASE ~l.syncing
  <2>1. \A q \in Appenders : ~Leads(th[q])
    BY <1>5, NoLeader DEF Ok
  <2>2. PICK m : m = [l EXCEPT !.syncing = TRUE]
    BY Zenon
  <2>3. m.syncing /\ m.f = l.f /\ m.writeCount = l.writeCount /\ l.writeCount \in Nat
    BY Zenon, <1>1, <2>2, SyncingFacts, LogNat
  <2>4. Len(LinesOf(f)) \in Nat /\ t.my <= l.writeCount
    BY <1>1, <2>3, LinesOfFacts DEF Placed
  <2>5. Offset(m, f) = Len(LinesOf(f)) - l.writeCount
    BY Zenon, <2>3 DEF Offset
  <2>6. Leading(u, m, s, f)
    BY <1>2, <1>5, <2>3, <2>4, <2>5 DEF Leading
  <2> QED
    BY Zenon, <1>2, <1>3, <1>5, <2>1, <2>2, <2>6, ThreadOk
<1> QED
  BY <1>4, <1>5

(* The waiters look again.                                                 *)
LEMMA BroadcastFacts ==
    ASSUME NEW th \in [Appenders -> Thread]
    PROVE  /\ Broadcast(th) \in [Appenders -> Thread]
           /\ \A p \in Appenders :
                LET b == Broadcast(th)[p] IN
                /\ b.n = th[p].n /\ b.my = th[p].my /\ b.target = th[p].target
                /\ b.lines = th[p].lines /\ b.rotated = th[p].rotated
                /\ Waits(b) = Waits(th[p]) /\ Leads(b) = Leads(th[p])
                /\ th[p].pc = "idle" => b.pc = "idle"
<1>1. ASSUME NEW p \in Appenders
      PROVE  \/ Broadcast(th)[p] = th[p]
             \/ th[p].pc = "rotwait" /\ Broadcast(th)[p] = [th[p] EXCEPT !.pc = "rotate"]
             \/ th[p].pc = "syncwait" /\ Broadcast(th)[p] = [th[p] EXCEPT !.pc = "sync"]
  <2>1. Broadcast(th)[p] = CASE th[p].pc = "rotwait"  -> [th[p] EXCEPT !.pc = "rotate"]
                             [] th[p].pc = "syncwait" -> [th[p] EXCEPT !.pc = "sync"]
                             [] OTHER -> th[p]
    BY Zenon DEF Broadcast
  <2> QED
    BY <2>1
<1>2. ASSUME NEW p \in Appenders
      PROVE  LET b == Broadcast(th)[p] IN
             /\ b \in Thread
             /\ b.n = th[p].n /\ b.my = th[p].my /\ b.target = th[p].target
             /\ b.lines = th[p].lines /\ b.rotated = th[p].rotated
             /\ Waits(b) = Waits(th[p]) /\ Leads(b) = Leads(th[p])
             /\ th[p].pc = "idle" => b.pc = "idle"
  <2>1. PICK t \in Thread : t = th[p]
    OBVIOUS
  <2>2. CASE Broadcast(th)[p] = t
    BY <2>1, <2>2
  <2>3. CASE t.pc = "rotwait" /\ Broadcast(th)[p] = [t EXCEPT !.pc = "rotate"]
    BY <2>1, <2>3 DEF Thread, Waits, Leads
  <2>4. CASE t.pc = "syncwait" /\ Broadcast(th)[p] = [t EXCEPT !.pc = "sync"]
    BY <2>1, <2>4 DEF Thread, Waits, Leads
  <2> QED
    BY <1>1, <2>1, <2>2, <2>3, <2>4
<1>3. Broadcast(th) = [p \in Appenders |-> Broadcast(th)[p]]
  BY Zenon DEF Broadcast
<1> QED
  BY <1>2, <1>3

LEMMA BroadcastOk ==
    ASSUME NEW th, NEW l, NEW s, NEW f, Ok(th, l, s, f)
    PROVE  Ok(Broadcast(th), l, s, f)
<1>1. th \in [Appenders -> Thread]
  BY DEF Ok, Calls
<1>2. PICK b : b = Broadcast(th)
  BY Zenon
<1>3. /\ b \in [Appenders -> Thread]
      /\ \A p \in Appenders :
                /\ b[p].n = th[p].n /\ b[p].my = th[p].my /\ b[p].target = th[p].target
                /\ b[p].lines = th[p].lines /\ b[p].rotated = th[p].rotated
                /\ Waits(b[p]) = Waits(th[p]) /\ Leads(b[p]) = Leads(th[p])
  BY <1>1, <1>2, BroadcastFacts
<1>4. Calls(b, l, s, f)
  <2>1. ASSUME NEW p \in Appenders, Waits(b[p]) PROVE Placed(b[p].n, b[p].my, l, s, f)
    BY ZenonT(30), <1>3, <2>1 DEF Ok, Calls
  <2>2. ASSUME NEW p \in Appenders, Leads(b[p]) PROVE Leading(b[p], l, s, f)
    BY <1>3, <2>2 DEF Ok, Calls, Leading
  <2> QED
    BY Zenon, <1>3, <2>1, <2>2 DEF Ok, Calls
<1> QED
  BY <1>2, <1>4 DEF Ok

LEMMA SyncingSame ==
    ASSUME NEW l \in Log, NEW b, b = l.syncing
    PROVE  [l EXCEPT !.syncing = b] = l
BY ZenonT(30) DEF Log

LEMMA IdleFacts ==
    /\ IdleThread \in Thread /\ IdleThread.pc = "idle" /\ ~Waits(IdleThread) /\ ~Leads(IdleThread)
BY DEF IdleThread, Thread, Waits, Leads

LEMMA CallFacts ==
    ASSUME NEW n \in Nat, NEW my \in Nat
    PROVE  LET t == [IdleThread EXCEPT !.n = n, !.my = my] IN
           t \in Thread /\ t.n = n /\ t.my = my
BY Zenon DEF IdleThread, Thread

(* A call that does not become a leader or a waiter for one.               *)
LEMMA PlainOk ==
    ASSUME NEW th, NEW l, NEW s, NEW f, Ok(th, l, s, f),
           NEW p \in Appenders, NEW u \in Thread, ~Waits(u)
    PROVE  Ok([th EXCEPT ![p] = u], l, s, f)
<1>1. l \in Log /\ l.syncing \in BOOLEAN
  BY DEF Ok, Shape, Log
<1>2. ~Leads(u)
  BY DEF Waits, Leads
<1>3. [l EXCEPT !.syncing = l.syncing] = l
  BY <1>1, SyncingSame
<1>4. Ok([th EXCEPT ![p] = u], [l EXCEPT !.syncing = l.syncing], s, f)
  BY ZenonT(30), <1>1, <1>2, ThreadOk
<1> QED
  BY <1>3, <1>4

LEMMA ProceedOk ==
    ASSUME "short" \notin Faults, NEW th, Ok(th, log, segs, active), clock \in Nat,
           Full(log, active) => ~log.syncing,
           NEW p \in Appenders, NEW n \in Nat, Proceed(p, n, th)
    PROVE  Ok(thread', log', segs', active') /\ log'.up = log.up
<1>0. PICK r \in maybeRotate(log) : \E w \in Writes(r, n) :
         LET next == IF w.ok
                     THEN syncTo([IdleThread EXCEPT !.n = n, !.my = w.r.log.writeCount], w.r)
                     ELSE IdleThread
         IN /\ thread' = [th EXCEPT ![p] = next]
            /\ log' = [w.r.log EXCEPT !.syncing = @ \/ Leads(next)]
            /\ segs' = w.r.segs /\ active' = w.r.active
  BY Zenon DEF Proceed
<1>1. PICK w \in Writes(r, n) :
         LET next == IF w.ok
                     THEN syncTo([IdleThread EXCEPT !.n = n, !.my = w.r.log.writeCount], w.r)
                     ELSE IdleThread
         IN /\ thread' = [th EXCEPT ![p] = next]
            /\ log' = [w.r.log EXCEPT !.syncing = @ \/ Leads(next)]
            /\ segs' = w.r.segs /\ active' = w.r.active
  BY Zenon, <1>0
<1>2. /\ Ok(th, r.log, r.segs, r.active) /\ r = Left(r.log, r.segs, r.active)
      /\ r.log.up = log.up
  BY ZenonT(30), RotateOk, RotationCases
<1>3. /\ Ok(th, w.r.log, w.r.segs, w.r.active) /\ w.ok \in BOOLEAN
      /\ w.r = Left(w.r.log, w.r.segs, w.r.active) /\ w.r.log.up = log.up
      /\ w.ok => /\ Placed(n, w.r.log.writeCount, w.r.log, w.r.segs, w.r.active)
                 /\ w.r.log.f # "nil"
  BY <1>2, WriteOk
<1>4. PICK l, s, f : l = w.r.log /\ s = w.r.segs /\ f = w.r.active
  BY Zenon
<1>5. /\ Ok(th, l, s, f) /\ w.r = Left(l, s, f) /\ l.up = log.up
      /\ w.ok => Placed(n, l.writeCount, l, s, f) /\ l.f # "nil"
  BY Zenon, <1>3, <1>4
<1>6. l \in Log /\ l.writeCount \in Nat /\ l.syncing \in BOOLEAN
  BY <1>5 DEF Ok, Shape, Log
<1>7. CASE w.ok
  <2>0. PICK t : t = [IdleThread EXCEPT !.n = n, !.my = l.writeCount]
    OBVIOUS
  <2>1. t \in Thread /\ t.n = n /\ t.my = l.writeCount
    BY Zenon, <1>6, <2>0, CallFacts
  <2>2. PICK u : u = syncTo(t, Left(l, s, f))
    OBVIOUS
  <2>3. /\ thread' = [th EXCEPT ![p] = u]
        /\ log' = [l EXCEPT !.syncing = @ \/ Leads(u)] /\ segs' = s /\ active' = f
    BY Zenon, <1>1, <1>4, <1>5, <1>7, <2>0, <2>2
  <2>4. Ok([th EXCEPT ![p] = u], [l EXCEPT !.syncing = @ \/ Leads(u)], s, f)
    BY <1>5, <1>7, <2>1, <2>2, SyncOk
  <2>5. [l EXCEPT !.syncing = @ \/ Leads(u)].up = l.up
    BY <1>6 DEF Log
  <2> QED
    BY <1>5, <2>3, <2>4, <2>5
<1>8. CASE ~w.ok
  <2>1. /\ thread' = [th EXCEPT ![p] = IdleThread]
        /\ log' = [l EXCEPT !.syncing = @ \/ Leads(IdleThread)] /\ segs' = s /\ active' = f
    BY <1>1, <1>4, <1>8
  <2>2. log' = l
    <3>1. (l.syncing \/ Leads(IdleThread)) = l.syncing
      BY <1>6, IdleFacts
    <3>2. log' = [l EXCEPT !.syncing = l.syncing]
      BY <2>1, <3>1
    <3> QED
      BY <1>6, <3>2, SyncingSame
  <2>3. Ok([th EXCEPT ![p] = IdleThread], l, s, f)
    BY <1>5, IdleFacts, PlainOk
  <2> QED
    BY <1>5, <2>1, <2>2, <2>3
<1> QED
  BY <1>3, <1>7, <1>8

LEMMA UpOk == AckInv /\ log.up => Ok(thread, log, segs, active)
BY DEF AckInv, Ok

LEMMA OkUp ==
    ASSUME Ok(thread', log', segs', active'), log'.up, count' \in Nat, clock' \in Nat,
           acked' = acked
    PROVE  AckInv'
<1>1. Stored(segs, active)'
  BY DEF Ok, Stored
<1> QED
  BY <1>1 DEF AckInv, Ok, Calls

LEMMA AwakeOk ==
    ASSUME Ok(thread, log, segs, active)
    PROVE  Ok(Awake, log, segs, active)
BY BroadcastOk DEF Awake

LEMMA AppendInv ==
    ASSUME "short" \notin Faults, AckInv, NEW p \in Appenders, doAppend(p)
    PROVE  AckInv'
<1>1. /\ log.up /\ count' \in Nat /\ UNCHANGED <<clock, acked>>
      /\ clock \in Nat /\ Ok(thread, log, segs, active)
  BY UpOk DEF doAppend, AckInv
<1>2. CASE Full(log, active) /\ MustWait(log)
  <2>1. PICK u : u = [IdleThread EXCEPT !.pc = "rotwait", !.n = count']
    OBVIOUS
  <2>2. u \in Thread /\ ~Waits(u)
    <3>1. PICK n \in Nat : n = count'
      BY <1>1
    <3>2. u = [IdleThread EXCEPT !.pc = "rotwait", !.n = n]
      BY <2>1, <3>1
    <3>3. u \in Thread /\ u.pc = "rotwait"
      BY Zenon, <3>2 DEF IdleThread, Thread
    <3> QED
      BY <3>3 DEF Waits
  <2>3. thread' = [thread EXCEPT ![p] = u] /\ UNCHANGED <<log, segs, active>>
    BY <1>2, <2>1 DEF doAppend, disk
  <2>4. Ok([thread EXCEPT ![p] = u], log, segs, active)
    BY <1>1, <2>2, PlainOk
  <2> QED
    BY <1>1, <2>3, <2>4, OkUp
<1>3. CASE ~(Full(log, active) /\ MustWait(log))
  <2>1. Proceed(p, count', Awake)
    BY <1>3 DEF doAppend
  <2>2. Full(log, active) => ~log.syncing
    BY <1>3 DEF MustWait
  <2>3. Ok(thread', log', segs', active') /\ log'.up = log.up
    BY Zenon, <1>1, <2>1, <2>2, AwakeOk, ProceedOk
  <2> QED
    BY <1>1, <2>3, OkUp
<1> QED
  BY <1>2, <1>3

LEMMA RotateWakeInv ==
    ASSUME "short" \notin Faults, AckInv, NEW p \in Appenders, RotateWake(p)
    PROVE  AckInv'
<1>1. /\ thread[p].pc = "rotate" /\ UNCHANGED <<clock, count, acked>>
      /\ count \in Nat /\ clock \in Nat /\ thread[p] \in Thread
  BY DEF RotateWake, AckInv
<1>2. log.up /\ Ok(thread, log, segs, active)
  BY <1>1, UpOk DEF AckInv
<1>3. CASE log.syncing
  <2>1. PICK u : u = [thread[p] EXCEPT !.pc = "rotwait"]
    BY Zenon
  <2>2. u \in Thread /\ ~Waits(u)
    BY <1>1, <2>1 DEF Thread, Waits
  <2>3. thread' = [thread EXCEPT ![p] = u] /\ UNCHANGED <<log, segs, active>>
    BY <1>3, <2>1 DEF RotateWake, disk
  <2>4. Ok([thread EXCEPT ![p] = u], log, segs, active)
    BY Zenon, <1>2, <2>2, PlainOk
  <2> QED
    BY <1>1, <1>2, <2>3, <2>4, OkUp
<1>4. CASE ~log.syncing
  <2>1. Proceed(p, thread[p].n, Awake) /\ thread[p].n \in Nat
    BY <1>1, <1>4 DEF RotateWake, Thread
  <2>2. Ok(thread', log', segs', active') /\ log'.up = log.up
    BY Zenon, <1>1, <1>2, <1>4, <2>1, AwakeOk, ProceedOk
  <2> QED
    BY <1>1, <1>2, <2>2, OkUp
<1> QED
  BY <1>3, <1>4

(* A write that an fsync or a rotation has covered is on disk.             *)
LEMMA CoveredStored ==
    ASSUME NEW l, NEW s, NEW f, Shape(l, s, f), Running(l, s, f),
           NEW n, NEW my, Placed(n, my, l, s, f), my <= l.syncedCount
    PROVE  InSegment(s, n) \/ InFile(f, n)
<1>1. l \in Log /\ f \in File \cup {NoFile} /\ l.writeCount \in Nat /\ l.syncedCount \in Nat
  BY LogNat DEF Shape
<1>2. PICK k \in 1 .. l.writeCount : k = my
  BY DEF Placed
<1>3. PICK o \in Int : o = Offset(l, f)
  BY Zenon, <1>1, OffsetInt
<1>4. CASE k + o > 0
  <2>1. l.syncedCount > 0 /\ k + o <= l.syncedCount + o
    BY <1>1, <1>2, <1>3
  <2>2. f # NoFile
    <3>1. SUFFICES ASSUME f = NoFile PROVE FALSE
      BY Zenon
    <3>2. o = 0 - l.writeCount
      BY SMTT(20), <1>1, <1>3, <3>1, LinesOfFacts, OffsetInt
    <3> QED
      BY <1>1, <1>2, <1>4, <3>2
  <2>3. l.syncedCount + o <= f.durable /\ f.durable \in Nat
    BY <1>1, <1>3, <2>1, <2>2 DEF Running, File
  <2>4. k + o \in 1 .. f.durable
    BY SMTT(20), <1>1, <1>2, <1>3, <1>4, <2>1, <2>3
  <2>5. f.lines[k + o].good /\ f.lines[k + o].n = n
    BY <1>2, <1>3, <1>4, <2>2 DEF Placed, LinesOf
  <2> QED
    BY <2>2, <2>4, <2>5 DEF InFile
<1>5. CASE ~(k + o > 0)
  BY <1>2, <1>3, <1>5 DEF Placed
<1> QED
  BY <1>4, <1>5

LEMMA SyncWakeInv ==
    ASSUME AckInv, NEW p \in Appenders, SyncWake(p)
    PROVE  AckInv'
<1>1. /\ thread[p].pc = "sync" /\ UNCHANGED <<segs, active, clock, count>>
      /\ count \in Nat /\ clock \in Nat /\ thread[p] \in Thread
  BY DEF SyncWake, AckInv, disk
<1>2. log.up /\ Ok(thread, log, segs, active)
  BY <1>1, UpOk DEF AckInv
<1>3. Placed(thread[p].n, thread[p].my, log, segs, active)
  BY Zenon, <1>1, <1>2 DEF Ok, Calls, Waits
<1>4. CASE Covered(p)
  <2>1. /\ thread' = [thread EXCEPT ![p] = IdleThread]
        /\ acked' = acked \cup {thread[p].n} /\ log' = log
    BY <1>4 DEF SyncWake
  <2>2. log.syncedCount \in Nat /\ thread[p].my \in Nat
    BY <1>1, <1>2 DEF Ok, Shape, Log, Thread
  <2>3. InSegment(segs, thread[p].n) \/ InFile(active, thread[p].n)
    BY Zenon, <1>2, <1>3, <1>4, <2>2, CoveredStored DEF Ok, Covered
  <2>4. Ok([thread EXCEPT ![p] = IdleThread], log, segs, active)
    BY Zenon, <1>2, IdleFacts, PlainOk
  <2>5. Stored(segs, active)'
    BY <1>1, <1>2, <2>1, <2>3 DEF Ok, Stored
  <2> QED
    BY <1>1, <1>2, <2>1, <2>4, <2>5 DEF AckInv, Ok, Calls
<1>5. CASE ~Covered(p)
  <2>1. PICK u : u = syncTo(thread[p], Left(log, segs, active))
    OBVIOUS
  <2>2. /\ thread' = [thread EXCEPT ![p] = u] /\ acked' = acked
        /\ log' = [log EXCEPT !.syncing = @ \/ Leads(u)]
    BY Zenon, <1>5, <2>1 DEF SyncWake, Left
  <2>3. log.f # "nil"
    BY <1>2, <1>3, <1>5 DEF Ok, Running, Placed, Covered, Shape, Log
  <2>4. Ok([thread EXCEPT ![p] = u], [log EXCEPT !.syncing = @ \/ Leads(u)], segs, active)
    BY <1>1, <1>2, <1>3, <2>1, <2>3, SyncOk
  <2>5. log'.up
    BY <1>2, <2>2 DEF Ok, Shape, Log
  <2> QED
    BY <1>1, <1>2, <2>2, <2>4, <2>5, OkUp
<1> QED
  BY <1>4, <1>5

(* The leader's fsync returns.                                             *)
LEMMA FsyncFacts ==
    ASSUME AckInv, NEW p \in Appenders, FsyncDone(p)
    PROVE  \E ok \in BOOLEAN :
             /\ ok /\ thread[p].target > log.syncedCount => log'.syncedCount = thread[p].target
             /\ ~(ok /\ thread[p].target > log.syncedCount) => log'.syncedCount = log.syncedCount
             /\ log' \in Log /\ ~log'.syncing /\ log'.up = log.up /\ log'.f = log.f
             /\ log'.needsNewline = log.needsNewline /\ log'.writeCount = log.writeCount
             /\ log'.seq = log.seq /\ log'.prevHash = log.prevHash
             /\ active' = IF ok /\ thread[p].rotated = DOMAIN segs
                               /\ thread[p].lines > active.durable
                          THEN [active EXCEPT !.durable = thread[p].lines] ELSE active
             /\ acked' = IF ok THEN acked \cup {thread[p].n} ELSE acked
<1>1. PICK ok \in BOOLEAN :
        /\ ok => log.f = "open"
        /\ log' = [log EXCEPT !.syncing = FALSE,
                              !.syncedCount = IF ok /\ Target(thread[p]) > @ THEN Target(thread[p])
                                              ELSE @]
        /\ active' = IF ok /\ thread[p].rotated = DOMAIN segs
                          /\ thread[p].lines > active.durable
                     THEN [active EXCEPT !.durable = thread[p].lines] ELSE active
        /\ acked' = IF ok THEN acked \cup {thread[p].n} ELSE acked
  BY Zenon DEF FsyncDone
<1>2. log \in Log /\ thread[p].target \in Nat
  BY Zenon DEF AckInv, Shape, Thread
<1>3. PICK sc : sc = IF ok /\ thread[p].target > log.syncedCount THEN thread[p].target
                     ELSE log.syncedCount
  OBVIOUS
<1>4. sc \in Nat /\ log' = [log EXCEPT !.syncing = FALSE, !.syncedCount = sc]
  BY <1>1, <1>2, <1>3 DEF Target, Log
<1>5. /\ log' \in Log /\ ~log'.syncing /\ log'.up = log.up /\ log'.f = log.f
      /\ log'.needsNewline = log.needsNewline /\ log'.writeCount = log.writeCount
      /\ log'.seq = log.seq /\ log'.prevHash = log.prevHash /\ log'.syncedCount = sc
  BY Zenon, <1>2, <1>4 DEF Log
<1> QED
  BY <1>1, <1>3, <1>5

LEMMA FsyncInv ==
    ASSUME AckInv, NEW p \in Appenders, FsyncDone(p)
    PROVE  AckInv'
<1>1. /\ Leads(thread[p]) /\ Waits(thread[p]) /\ UNCHANGED <<segs, clock, count>>
      /\ thread' = [Broadcast(thread) EXCEPT ![p] = IdleThread]
      /\ count \in Nat /\ clock \in Nat /\ thread[p] \in Thread
  BY Zenon DEF FsyncDone, AckInv, Leads, Waits
<1>2. log.up /\ Ok(thread, log, segs, active)
  BY Zenon, <1>1, UpOk DEF AckInv, Leads
<1>3. /\ Placed(thread[p].n, thread[p].my, log, segs, active)
      /\ Leading(thread[p], log, segs, active)
  BY Zenon, <1>1, <1>2 DEF Ok, Calls
<1>4. active \in File /\ active # NoFile /\ log \in Log
  BY <1>2, <1>3 DEF Ok, Running, Shape, Leading
<1>5. PICK t \in Thread : t = thread[p]
  BY <1>1
<1>6. /\ t.target \in Nat /\ t.lines \in Nat /\ t.my \in Nat
      /\ log.syncedCount \in Nat /\ log.writeCount \in Nat
      /\ active.durable \in Nat /\ Len(active.lines) \in Nat /\ LinesOf(active) = active.lines
  BY <1>4, SequenceFacts DEF Thread, Log, File, LinesOf
<1>7. PICK o \in Int : o = Offset(log, active) /\ o = Len(active.lines) - log.writeCount
  BY ZenonT(30), <1>4, <1>6, OffsetInt
<1>8. /\ t.my <= t.target /\ t.target <= log.writeCount /\ t.target + o <= t.lines
      /\ t.lines <= Len(active.lines) /\ t.rotated = DOMAIN segs
  BY <1>3, <1>5, <1>6, <1>7 DEF Leading
<1>9. PICK ok \in BOOLEAN :
        /\ ok /\ t.target > log.syncedCount => log'.syncedCount = t.target
        /\ ~(ok /\ t.target > log.syncedCount) => log'.syncedCount = log.syncedCount
        /\ log' \in Log /\ ~log'.syncing /\ log'.up = log.up /\ log'.f = log.f
        /\ log'.needsNewline = log.needsNewline /\ log'.writeCount = log.writeCount
        /\ active' = IF ok /\ t.lines > active.durable
                     THEN [active EXCEPT !.durable = t.lines] ELSE active
        /\ acked' = IF ok THEN acked \cup {t.n} ELSE acked
  BY Zenon, <1>5, <1>8, FsyncFacts
<1>10. /\ active' \in File /\ active' # NoFile /\ active'.lines = active.lines
       /\ active'.durable \in Nat /\ active'.durable >= active.durable
       /\ ok => active'.durable >= t.lines
       /\ active'.durable <= Len(active.lines)
  <2>1. active.durable <= Len(active.lines)
    BY Zenon, <1>2, <1>4 DEF Ok, Shape
  <2>2. CASE ok /\ t.lines > active.durable
    <3>1. active' = [active EXCEPT !.durable = t.lines]
      BY <1>9, <2>2
    <3>2. active' \in File /\ active'.lines = active.lines /\ active'.durable = t.lines
      BY Zenon, <1>4, <1>6, <3>1 DEF File
    <3> QED
      BY <1>6, <1>8, <2>2, <3>2, AuditAssumption
  <2>3. CASE ~(ok /\ t.lines > active.durable)
    <3>1. active' = active
      BY <1>9, <2>3
    <3> QED
      BY <1>4, <1>6, <2>1, <2>3, <3>1
  <2> QED
    BY <2>2, <2>3
<1>11. LinesOf(active') = active.lines /\ Offset(log', active') = o
  <2>1. LinesOf(active') = active.lines
    BY <1>10 DEF LinesOf
  <2> QED
    BY Zenon, <1>6, <1>7, <1>9, <2>1 DEF Offset
<1>12. Shape(log', segs', active')
  <2>1. Whole(active')
    BY Zenon, <1>2, <1>6, <1>11 DEF Ok, Shape, Whole
  <2> QED
    BY Zenon, <1>1, <1>2, <1>9, <1>10, <2>1 DEF Ok, Shape
<1>13. Running(log', segs', active')
  <2>1. log'.syncedCount <= log'.writeCount
    BY Zenon, <1>2, <1>6, <1>8, <1>9 DEF Ok, Running
  <2>2. log'.syncedCount > 0 => log'.syncedCount + o <= active'.durable
    <3>1. log.syncedCount > 0 => log.syncedCount + o <= active.durable
      BY <1>2, <1>4, <1>7 DEF Ok, Running
    <3>2. CASE ok /\ t.target > log.syncedCount
      BY <1>6, <1>7, <1>8, <1>9, <1>10, <3>2
    <3>3. CASE ~(ok /\ t.target > log.syncedCount)
      BY <1>6, <1>7, <1>9, <1>10, <3>1, <3>3
    <3> QED
      BY Zenon, <3>2, <3>3
  <2>3. HasLines(active') => HasLines(active) /\ LastLine(active') = LastLine(active)
    BY <1>4, <1>10 DEF HasLines, LastLine
  <2>4. log'.f = "nil" => log'.syncedCount = log'.writeCount
    BY <1>3, <1>9 DEF Leading
  <2> QED
    BY Zenon, <1>2, <1>9, <1>10, <1>11, <2>1, <2>2, <2>3, <2>4 DEF Ok, Running
<1>14. PICK b : b = Broadcast(thread)
  BY Zenon
<1>15. /\ b \in [Appenders -> Thread]
       /\ \A q \in Appenders : /\ b[q].n = thread[q].n /\ b[q].my = thread[q].my
                               /\ Waits(b[q]) = Waits(thread[q]) /\ Leads(b[q]) = Leads(thread[q])
  BY Zenon, <1>2, <1>14, BroadcastFacts DEF Ok, Calls
<1>16. /\ thread' \in [Appenders -> Thread] /\ thread'[p] = IdleThread
       /\ \A q \in Appenders \ {p} : thread'[q] = b[q]
  BY Zenon, <1>1, <1>14, <1>15, IdleFacts
<1>17. Calls(thread', log', segs', active')
  <2>1. ASSUME NEW q \in Appenders, Waits(thread'[q])
        PROVE  Placed(thread'[q].n, thread'[q].my, log', segs', active')
    <3>1. q # p
      BY Zenon, <1>16, <2>1, IdleFacts
    <3>2. Placed(thread[q].n, thread[q].my, log, segs, active)
      BY Zenon, <1>2, <1>15, <1>16, <2>1, <3>1 DEF Ok, Calls
    <3>3. thread'[q].n = thread[q].n /\ thread'[q].my = thread[q].my
      BY Zenon, <1>15, <1>16, <3>1
    <3> QED
      BY Zenon, <1>1, <1>6, <1>7, <1>9, <1>11, <3>2, <3>3 DEF Placed
  <2>2. \A q \in Appenders : ~Leads(thread'[q])
    BY Zenon, <1>1, <1>2, <1>15, <1>16, IdleFacts DEF Ok, Calls
  <2> QED
    BY <1>16, <2>1, <2>2 DEF Calls
<1>18. Stored(segs, active)'
  <2>1. ASSUME NEW m, InFile(active, m) PROVE InFile(active', m)
    <3>1. PICK i \in 1 .. active.durable : active.lines[i].good /\ active.lines[i].n = m
      BY Zenon, <2>1 DEF InFile
    <3>2. i \in 1 .. active'.durable
      BY <1>6, <1>10, <3>1
    <3> QED
      BY Zenon, <1>10, <3>1, <3>2 DEF InFile
  <2>2. ok => InSegment(segs, t.n) \/ InFile(active', t.n)
    <3>1. SUFFICES ASSUME ok PROVE InSegment(segs, t.n) \/ InFile(active', t.n)
      BY Zenon
    <3>2. Placed(t.n, t.my, log', segs, active')
      BY Zenon, <1>3, <1>5, <1>6, <1>7, <1>9, <1>11 DEF Placed
    <3>3. t.my <= log'.syncedCount
      BY <1>6, <1>8, <1>9, <3>1
    <3> QED
      BY Zenon, <1>1, <1>12, <1>13, <3>2, <3>3, CoveredStored
  <2> QED
    BY Zenon, <1>1, <1>2, <1>9, <2>1, <2>2 DEF Ok, Stored
<1> QED
  BY Zenon, <1>1, <1>2, <1>9, <1>12, <1>13, <1>16, <1>17, <1>18 DEF AckInv

LEMMA CloseInv == AckInv /\ Close => AckInv'
<1> SUFFICES ASSUME AckInv, Close PROVE AckInv'
  OBVIOUS
<1>1. /\ UNCHANGED <<segs, active, thread, clock, count, acked>> /\ log.up
      /\ Ok(thread, log, segs, active) /\ count \in Nat /\ clock \in Nat
  BY UpOk DEF Close, disk, AckInv
<1>2. CASE log' = log
  BY <1>1, <1>2, OkUp
<1>3. CASE ~log.syncing /\ log' = [log EXCEPT !.f = IF @ = "nil" THEN @ ELSE "closed"]
  <2>1. /\ log \in Log /\ log' \in Log /\ log'.up = log.up /\ log'.syncing = log.syncing
        /\ log'.writeCount = log.writeCount /\ log'.syncedCount = log.syncedCount
        /\ log'.needsNewline = log.needsNewline
        /\ log'.f = "nil" => log.f = "nil"
        /\ log.f = "nil" => log'.f = "nil"
    BY Zenon, <1>1, <1>3 DEF Ok, Shape, Log
  <2>2. Offset(log', active) = Offset(log, active)
    BY Zenon, <2>1 DEF Offset
  <2>3. Shape(log', segs, active) /\ Running(log', segs, active)
    BY Zenon, <1>1, <2>1, <2>2 DEF Ok, Shape, Running
  <2>4. Calls(thread, log', segs, active)
    <3>1. ASSUME NEW p \in Appenders, Waits(thread[p])
          PROVE  Placed(thread[p].n, thread[p].my, log', segs, active)
      BY Zenon, <1>1, <2>1, <2>2, <3>1 DEF Ok, Calls, Placed
    <3>2. \A p \in Appenders : ~Leads(thread[p])
      BY Zenon, <1>1, <1>3, NoLeader DEF Ok
    <3> QED
      BY <1>1, <3>1, <3>2 DEF Ok, Calls
  <2>5. Ok(thread', log', segs', active') /\ log'.up
    BY Zenon, <1>1, <2>1, <2>3, <2>4 DEF Ok
  <2> QED
    BY <1>1, <2>5, OkUp
<1> QED
  BY <1>2, <1>3 DEF Close, MustWait

LEMMA ClockInv ==
    ASSUME AckInv, UNCHANGED <<log, segs, active, thread, count, acked>>, clock' \in Nat
    PROVE  AckInv'
BY Zenon DEF AckInv, Stored

(* What a crash leaves.                                                    *)
SameLink(x, y) == x.n = y.n /\ x.seq = y.seq /\ x.prev = y.prev

LEMMA CutFacts ==
    ASSUME NEW f \in File, NEW k \in 0 .. Len(f.lines)
    PROVE  /\ Cut(f, k) \in Seq(Line) /\ Len(Cut(f, k)) = k
           /\ \A i \in 1 .. k : SameRecord(Cut(f, k)[i], f.lines[i])
           /\ k = Len(f.lines) => Cut(f, k) = f.lines
<1>1. f.lines \in Seq(Line) /\ Len(f.lines) \in Nat /\ k \in Nat
      /\ \A i \in 1 .. Len(f.lines) : f.lines[i] \in Line
  BY SequenceFacts DEF File
<1>2. ASSUME NEW i \in 1 .. k
      PROVE  Cut(f, k)[i] \in Line /\ SameRecord(Cut(f, k)[i], f.lines[i])
  <2>1. PICK x \in Line : x = f.lines[i]
    BY <1>1
  <2>2. Cut(f, k)[i] \in {x, [x EXCEPT !.nl = "none"]}
    BY <2>1 DEF Cut
  <2>3. [x EXCEPT !.nl = "none"] \in Line /\ SameRecord([x EXCEPT !.nl = "none"], x)
    BY DEF Line, SameRecord
  <2> QED
    BY Zenon, <2>1, <2>2, <2>3 DEF SameRecord
<1>3. Cut(f, k) = [i \in 1 .. k |-> Cut(f, k)[i]]
  BY DEF Cut
<1>4. Cut(f, k) \in [1 .. k -> Line]
  BY <1>2, <1>3
<1>5. Cut(f, k) \in Seq(Line) /\ Len(Cut(f, k)) = k
  BY <1>1, <1>4
<1>6. ASSUME k = Len(f.lines) PROVE Cut(f, k) = f.lines
  <2>1. Cut(f, k) = [i \in 1 .. k |-> f.lines[i]]
    BY SMTT(20), <1>1, <1>6 DEF Cut
  <2> QED
    BY <1>1, <1>6, <2>1, SequenceFacts
<1> QED
  BY <1>2, <1>5, <1>6

LEMMA TornFacts ==
    ASSUME NEW f \in File, NEW k \in 1 .. Len(f.lines), NEW good \in BOOLEAN
    PROVE  /\ Torn(f, k, good) \in Seq(Line) /\ Len(Torn(f, k, good)) = k
           /\ \A i \in 1 .. k : i < k => SameRecord(Torn(f, k, good)[i], f.lines[i])
           /\ SameLink(Torn(f, k, good)[k], f.lines[k])
<1>1. Len(f.lines) \in Nat /\ k \in Nat /\ k \in 0 .. Len(f.lines)
  BY SequenceFacts DEF File
<1>2. PICK c : c = Cut(f, k)
  OBVIOUS
<1>3. /\ c \in Seq(Line) /\ Len(c) = k
      /\ \A i \in 1 .. k : SameRecord(c[i], f.lines[i])
  BY Zenon, <1>1, <1>2, CutFacts
<1>4. PICK x \in Line : x = c[k]
  BY <1>1, <1>3, SequenceFacts
<1>5. PICK y : y = [x EXCEPT !.nl = "none", !.good = x.good /\ good]
  OBVIOUS
<1>6. y \in Line /\ SameLink(y, x)
  <2>1. (x.good /\ good) \in BOOLEAN
    OBVIOUS
  <2> QED
    BY Zenon, <1>5, <2>1 DEF Line, SameLink
<1>7. Torn(f, k, good) = [c EXCEPT ![k] = y]
  BY Zenon, <1>2, <1>3, <1>4, <1>5 DEF Torn
<1>8. /\ Torn(f, k, good) \in Seq(Line) /\ Len(Torn(f, k, good)) = k
      /\ Torn(f, k, good)[k] = y
      /\ \A i \in 1 .. k : i < k => Torn(f, k, good)[i] = c[i]
  BY SMTT(20), <1>1, <1>3, <1>6, <1>7
<1> QED
  BY <1>1, <1>3, <1>4, <1>6, <1>8 DEF SameRecord, SameLink

(* A prefix of the file that covers what is durable, intact but for its    *)
(* last line.                                                              *)
Survives(g, f) ==
    /\ g \in File /\ Len(g.lines) \in f.durable .. Len(f.lines)
    /\ g = f \/ g.durable = Len(g.lines)
    /\ \A i \in 1 .. Len(g.lines) :
         /\ SameLink(g.lines[i], f.lines[i])
         /\ i < Len(g.lines) \/ i <= f.durable => g.lines[i].good = f.lines[i].good

LEMMA RemainsFacts ==
    ASSUME NEW f \in File, f.durable <= Len(f.lines), NEW g \in Remains(f)
    PROVE  Survives(g, f) /\ (f.durable = Len(f.lines) => g = f)
<1>1. /\ f.lines \in Seq(Line) /\ Len(f.lines) \in Nat /\ f.durable \in Nat
  BY Zenon, SequenceFacts DEF File
<1>2. CASE g = f
  BY <1>1, <1>2 DEF Survives, SameLink
<1>3. ASSUME NEW k \in f.durable .. Len(f.lines),
             g = [lines |-> Cut(f, k), durable |-> Len(Cut(f, k))]
      PROVE  Survives(g, f) /\ (f.durable = Len(f.lines) => g = f)
  <2>1. k \in 0 .. Len(f.lines) /\ k \in Nat
    BY <1>1
  <2>2. PICK c : c = Cut(f, k)
    BY Zenon
  <2>3. /\ c \in Seq(Line) /\ Len(c) = k
        /\ \A i \in 1 .. k : SameRecord(c[i], f.lines[i])
        /\ k = Len(f.lines) => c = f.lines
    BY Zenon, <2>1, <2>2, CutFacts
  <2>4. g \in File /\ g.lines = c /\ g.durable = k
    BY Zenon, <1>3, <2>1, <2>2, <2>3 DEF File
  <2>5. Survives(g, f)
    BY <2>1, <2>3, <2>4 DEF Survives, SameLink, SameRecord
  <2>6. ASSUME f.durable = Len(f.lines) PROVE g = f
    <3>1. g.lines = f.lines /\ g.durable = f.durable
      BY <1>1, <2>3, <2>4, <2>6
    <3> QED
      BY <2>4, <3>1 DEF File
  <2> QED
    BY <2>5, <2>6
<1>4. ASSUME NEW k \in (f.durable + 1) .. Len(f.lines), NEW good \in BOOLEAN,
             g = [lines |-> Torn(f, k, good), durable |-> Len(Torn(f, k, good))]
      PROVE  Survives(g, f) /\ (f.durable = Len(f.lines) => g = f)
  <2>1. k \in 1 .. Len(f.lines) /\ k \in Nat /\ k > f.durable
    BY <1>1
  <2>2. PICK c : c = Torn(f, k, good)
    BY Zenon
  <2>3. /\ c \in Seq(Line) /\ Len(c) = k
        /\ \A i \in 1 .. k : i < k => SameRecord(c[i], f.lines[i])
        /\ SameLink(c[k], f.lines[k])
    BY Zenon, <2>1, <2>2, TornFacts
  <2>4. g \in File /\ g.lines = c /\ g.durable = k
    BY ZenonT(30), <1>4, <2>1, <2>2, <2>3 DEF File
  <2>5. ASSUME NEW i \in 1 .. k
        PROVE  /\ SameLink(c[i], f.lines[i])
               /\ i < k \/ i <= f.durable => c[i].good = f.lines[i].good
    BY SMTT(20), <1>1, <2>1, <2>3 DEF SameLink, SameRecord
  <2>6. Survives(g, f)
    BY <1>1, <2>1, <2>3, <2>4, <2>5 DEF Survives
  <2> QED
    BY <1>1, <2>1, <2>6
<1>5. \/ g = f
      \/ \E k \in f.durable .. Len(f.lines) : g = [lines |-> Cut(f, k), durable |-> Len(Cut(f, k))]
      \/ \E k \in (f.durable + 1) .. Len(f.lines) : \E good \in BOOLEAN :
            g = [lines |-> Torn(f, k, good), durable |-> Len(Torn(f, k, good))]
  BY Zenon DEF Remains
<1> QED
  BY <1>2, <1>3, <1>4, <1>5

(* What a crash does to the files: the segments are durable and stay.      *)
LEMMA CrashFacts ==
    ASSUME Shape(log, segs, active), Crash
    PROVE  /\ segs' = segs
           /\ log' \in Log /\ ~log'.up
           /\ \/ active = NoFile /\ active' = NoFile
              \/ active \in File /\ active' \in File /\ Survives(active', active)
<1>1. log' \in Log /\ ~log'.up
  BY Zenon DEF Crash, Shape, Log
<1>2. segs' = segs
  <2>1. /\ segs' \in [DOMAIN segs -> UNION {Remains(segs[a]) : a \in DOMAIN segs}]
        /\ \A a \in DOMAIN segs : segs'[a] \in Remains(segs[a])
    BY DEF Crash
  <2>2. ASSUME NEW a \in DOMAIN segs PROVE segs'[a] = segs[a]
    <3>1. segs[a] \in File /\ segs[a].durable = Len(segs[a].lines) /\ segs[a].durable \in Nat
      BY DEF Shape, File
    <3> QED
      BY <2>1, <3>1, RemainsFacts
  <2>3. segs = [a \in DOMAIN segs |-> segs[a]]
    BY DEF Shape
  <2> QED
    BY <2>1, <2>2, <2>3
<1>3. CASE active = NoFile
  BY Zenon, <1>1, <1>2, <1>3 DEF Crash
<1>4. CASE active # NoFile
  <2>1. active \in File /\ active.durable <= Len(active.lines) /\ active' \in Remains(active)
    BY <1>4 DEF Crash, Shape
  <2>2. Survives(active', active)
    BY <2>1, RemainsFacts
  <2> QED
    BY <1>1, <1>2, <2>1, <2>2 DEF Survives
<1> QED
  BY <1>3, <1>4

LEMMA CrashInv == AckInv /\ Crash => AckInv'
<1> SUFFICES ASSUME AckInv, Crash PROVE AckInv'
  OBVIOUS
<1>1. /\ segs' = segs /\ log' \in Log /\ ~log'.up
      /\ \/ active = NoFile /\ active' = NoFile
         \/ active \in File /\ active' \in File /\ Survives(active', active)
  BY CrashFacts DEF AckInv
<1>2. /\ thread' = [p \in Appenders |-> IdleThread] /\ UNCHANGED <<clock, count, acked>>
  BY DEF Crash
<1>3. thread' \in [Appenders -> Thread] /\ \A p \in Appenders : thread'[p].pc = "idle"
  BY Zenon, <1>2, IdleFacts
<1>4. CASE active = NoFile /\ active' = NoFile
  <2>1. Shape(log', segs', active')
    BY Zenon, <1>1, <1>4 DEF AckInv, Shape
  <2>2. Stored(segs, active)'
    BY Zenon, <1>1, <1>2, <1>4 DEF AckInv, Stored
  <2> QED
    BY Zenon, <1>1, <1>2, <1>3, <2>1, <2>2 DEF AckInv
<1>5. CASE active \in File /\ active' \in File /\ Survives(active', active)
  <2>1. /\ active.durable \in Nat /\ active'.durable \in Nat
        /\ Len(active.lines) \in Nat /\ Len(active'.lines) \in Nat
        /\ active # NoFile /\ active' # NoFile
        /\ active.durable <= Len(active.lines)
    BY Zenon, <1>5, SequenceFacts, AuditAssumption DEF File, AckInv, Shape
  <2>2. active'.durable <= Len(active'.lines) /\ active.durable <= active'.durable
    BY <1>5, <2>1 DEF Survives
  <2>3. Shape(log', segs', active')
    <3>1. LinesOf(active) = active.lines /\ LinesOf(active') = active'.lines
      BY Zenon, <2>1 DEF LinesOf
    <3>2. Whole(active')
      BY SMTT(20), <1>5, <2>1, <3>1 DEF AckInv, Shape, Whole, Survives
    <3> QED
      BY Zenon, <1>1, <1>5, <2>2, <3>2 DEF AckInv, Shape
  <2>4. ASSUME NEW n \in acked, InFile(active, n) PROVE InFile(active', n)
    <3>1. PICK i \in 1 .. active.durable : active.lines[i].good /\ active.lines[i].n = n
      BY <2>4 DEF InFile
    <3>2. i \in 1 .. Len(active'.lines) /\ i \in 1 .. active'.durable /\ i <= active.durable
      BY <2>1, <2>2
    <3>3. active'.lines[i].good /\ active'.lines[i].n = n
      BY Zenon, <1>5, <3>1, <3>2 DEF Survives, SameLink
    <3> QED
      BY Zenon, <2>1, <3>2, <3>3 DEF InFile
  <2>5. Stored(segs, active)'
    BY Zenon, <1>1, <1>2, <2>4 DEF AckInv, Stored
  <2> QED
    BY <1>1, <1>2, <1>3, <2>3, <2>5 DEF AckInv
<1> QED
  BY Zenon, <1>1, <1>4, <1>5

(* The chain head a start restores.                                        *)
LEMMA RestoredFacts ==
    ASSUME Shape(log, segs, active), Openable(segs, active)
    PROVE  LET l == Restored(segs, active) IN
           /\ l \in Log /\ l.up /\ l.f = "open" /\ ~l.syncing
           /\ l.writeCount = 0 /\ l.syncedCount = 0
           /\ l.needsNewline = (HasLines(active) /\ LastLine(active).nl = "none")
           /\ l.prevHash = IF HasLines(active) THEN LastHash(active)
                           ELSE seedFromRotatedSegments(segs)
           /\ l.seq = IF HasLines(active) THEN LastLine(active).seq ELSE 0
<1>1. PICK l : l = Restored(segs, active)
  BY Zenon
<1>2. /\ l.up /\ l.f = "open" /\ ~l.syncing /\ l.writeCount = 0 /\ l.syncedCount = 0
      /\ l.needsNewline = (HasLines(active) /\ LastLine(active).nl = "none")
      /\ l.prevHash = IF HasLines(active) THEN LastHash(active)
                      ELSE seedFromRotatedSegments(segs)
      /\ l.seq = IF HasLines(active) THEN LastLine(active).seq ELSE 0
  BY <1>1 DEF Restored
<1>3. \A x \in Line : HashOf(x) \in Int /\ x.seq \in Nat
  BY DEF HashOf, Line
<1>4. \A f \in File : HasLines(f) => LastLine(f) \in Line
  BY SequenceFacts DEF HasLines, LastLine, File
<1>5. HasLines(active) => LastHash(active) \in Int /\ LastLine(active).seq \in Nat
  BY <1>3, <1>4 DEF Shape, LastHash, HasLines
<1>6. ~HasLines(active) => seedFromRotatedSegments(segs) \in Int
  <2>1. CASE DOMAIN segs = {}
    BY <2>1 DEF seedFromRotatedSegments
  <2>2. ASSUME DOMAIN segs # {}, ~HasLines(active)
        PROVE  seedFromRotatedSegments(segs) \in Int
    <3>1. HasLines(segs[Newest(segs)])
      BY <2>2 DEF Openable
    <3>2. Newest(segs) \in DOMAIN segs
      BY Zenon, <2>2, NewestFacts DEF Shape, Enumerated, Last
    <3>3. LastHash(segs[Newest(segs)]) \in Int
      BY Zenon, <1>3, <1>4, <3>1, <3>2 DEF Shape, LastHash
    <3> QED
      BY Zenon, <2>2, <3>3 DEF seedFromRotatedSegments
  <2> QED
    BY Zenon, <2>1, <2>2
<1>7. l.prevHash \in Int /\ l.seq \in Nat
  BY <1>2, <1>5, <1>6
<1>8. (HasLines(active) /\ LastLine(active).nl = "none") \in BOOLEAN
  BY Zenon DEF HasLines
<1>9. l = [up |-> TRUE, f |-> "open", needsNewline |-> l.needsNewline, prevHash |-> l.prevHash,
           seq |-> l.seq, writeCount |-> 0, syncedCount |-> 0, syncing |-> FALSE]
  BY <1>1 DEF Restored
<1>10. l.needsNewline \in BOOLEAN
  BY <1>2, <1>8, Zenon
<1>11. l \in Log
  <2>1. PICK b \in BOOLEAN, h \in Int, q \in Nat :
           l = [up |-> TRUE, f |-> "open", needsNewline |-> b, prevHash |-> h,
                seq |-> q, writeCount |-> 0, syncedCount |-> 0, syncing |-> FALSE]
    BY <1>7, <1>9, <1>10, Zenon
  <2> QED
    BY <2>1 DEF Log
<1> QED
  BY <1>1, <1>2, <1>11

LEMMA OpenInv == AckInv /\ Open => AckInv'
<1> SUFFICES ASSUME AckInv, Open PROVE AckInv'
  OBVIOUS
<1>1. /\ ~log.up /\ Openable(segs, active) /\ UNCHANGED <<segs, thread, clock, count, acked>>
      /\ active' = Created(active) /\ Shape(log, segs, active)
      /\ count \in Nat /\ clock \in Nat /\ active \in File \cup {NoFile}
  BY DEF Open, AckInv, Created, Shape
<1>2. PICK l : l = Restored(segs, active)
  BY Zenon
<1>3. /\ l \in Log /\ l.up /\ l.f = "open" /\ ~l.syncing
      /\ l.writeCount = 0 /\ l.syncedCount = 0
      /\ l.needsNewline = (HasLines(active) /\ LastLine(active).nl = "none")
      /\ log' = l
  BY Zenon, <1>1, <1>2, RestoredFacts DEF Open
<1>4. /\ active' \in File /\ active' # NoFile
      /\ active = NoFile => active'.lines = <<>> /\ active'.durable = 0 /\ ~HasLines(active')
      /\ active # NoFile => active' = active
  BY <1>1, EmptyFileFacts DEF Created, HasLines
<1>5. Shape(l, segs, active')
  <2>1. active'.durable <= Len(active'.lines)
    BY <1>1, <1>4, EmptyFileFacts DEF Shape
  <2>2. LinesOf(active') = LinesOf(active)
    BY <1>4 DEF LinesOf
  <2>3. Whole(active')
    BY Zenon, <1>1, <2>2 DEF Shape, Whole
  <2> QED
    BY Zenon, <1>1, <1>3, <1>4, <2>1, <2>3 DEF Shape
<1>6. Running(l, segs, active')
  <2>1. HasLines(active') /\ LastLine(active').nl = "none" => l.needsNewline
    BY Zenon, <1>3, <1>4
  <2>2. HasLines(active') => LastLine(active').good
    BY Zenon, <1>1, <1>4 DEF Openable
  <2> QED
    BY <1>3, <1>4, <2>1, <2>2 DEF Running
<1>7. Calls(thread, l, segs, active')
  BY ZenonT(30), <1>1 DEF AckInv, Calls, Waits, Leads
<1>8. Stored(segs, active')
  <2>1. active = NoFile => \A n : ~InFile(active, n)
    BY Zenon DEF InFile
  <2> QED
    BY <1>1, <1>4, <2>1 DEF AckInv, Stored
<1>9. Ok(thread', log', segs', active') /\ log'.up
  BY Zenon, <1>1, <1>3, <1>5, <1>6, <1>7, <1>8 DEF Ok
<1> QED
  BY Zenon, <1>1, <1>9, OkUp

LEMMA CleanFacts ==
    ASSUME NEW f \in File, Whole(f)
    PROVE  /\ HasLines(f) /\ ~LastLine(f).good => CleanLines(f) = Len(f.lines) - 1
           /\ ~HasLines(f) \/ LastLine(f).good => CleanLines(f) = Len(f.lines)
<1>1. Len(f.lines) \in Nat /\ LinesOf(f) = f.lines /\ f # NoFile
  BY SequenceFacts, AuditAssumption DEF File, LinesOf
<1>2. PICK bad : bad = {i \in 1 .. Len(f.lines) : ~f.lines[i].good}
  BY Zenon
<1>3. \A i \in bad : i = Len(f.lines)
  BY <1>1, <1>2 DEF Whole
<1>4. ASSUME HasLines(f), ~LastLine(f).good PROVE CleanLines(f) = Len(f.lines) - 1
  <2>1. bad = {Len(f.lines)}
    BY <1>1, <1>2, <1>3, <1>4 DEF HasLines, LastLine
  <2>2. Len(f.lines) = CHOOSE i \in bad : \A j \in bad : i <= j
    BY <1>1, <2>1
  <2> QED
    BY Zenon, <1>2, <2>1, <2>2 DEF CleanLines
<1>5. ASSUME ~HasLines(f) \/ LastLine(f).good PROVE CleanLines(f) = Len(f.lines)
  <2>1. bad = {}
    BY <1>1, <1>2, <1>3, <1>5 DEF HasLines, LastLine
  <2> QED
    BY Zenon, <1>2, <2>1 DEF CleanLines
<1> QED
  BY Zenon, <1>4, <1>5

(* A repair keeps the clean lines, and every good one is among them.       *)
LEMMA RepairFacts ==
    ASSUME active \in File, Whole(active), Repair
    PROVE  /\ active' \in File /\ active' # NoFile
           /\ Len(active.lines) \in Nat /\ Len(active'.lines) \in Nat
           /\ Len(active'.lines) < Len(active.lines) /\ active'.durable = Len(active'.lines)
           /\ \A i \in 1 .. Len(active'.lines) :
                 active'.lines[i] = active.lines[i] /\ active.lines[i].good
           /\ \A i \in 1 .. Len(active.lines) :
                 active.lines[i].good => i <= Len(active'.lines)
<1>1. PICK k : k = CleanLines(active)
  BY Zenon
<1>2. Len(active.lines) \in Nat /\ LinesOf(active) = active.lines
  BY Zenon, SequenceFacts, AuditAssumption DEF File, LinesOf
<1>3. k < Len(active.lines)
  BY <1>1 DEF Repair, Repairable
<1>4. HasLines(active) /\ ~LastLine(active).good /\ k = Len(active.lines) - 1
  BY <1>1, <1>2, <1>3, CleanFacts
<1>5. /\ k \in Nat /\ ~active.lines[k + 1].good
      /\ \A i \in 1 .. k : i \in 1 .. Len(active.lines) /\ active.lines[i].good
  BY <1>2, <1>4 DEF HasLines, LastLine, Whole
<1>6. PICK ls : ls = SubSeq(active.lines, 1, k)
  BY Zenon
<1>7. ls \in Seq(Line) /\ Len(ls) = k /\ \A i \in 1 .. k : ls[i] = active.lines[i]
  <2>1. active.lines \in Seq(Line)
    BY Zenon DEF File
  <2> QED
    BY <1>2, <1>4, <1>5, <1>6, <2>1
<1>8. active' = [lines |-> ls, durable |-> k]
  BY Zenon, <1>1, <1>6 DEF Repair
<1>9. active' \in File /\ active'.lines = ls /\ active'.durable = k
  BY Zenon, <1>5, <1>7, <1>8 DEF File
<1>10. ASSUME NEW i \in 1 .. Len(active.lines), active.lines[i].good PROVE i <= k
  <2>1. i # k + 1
    BY Zenon, <1>5, <1>10
  <2> QED
    BY <1>2, <1>4, <1>5, <2>1
<1>11. k \in Nat /\ k < Len(active.lines) /\ active' # NoFile
  BY Zenon, <1>3, <1>5, <1>9, AuditAssumption
<1>12. \A i \in 1 .. k : active'.lines[i] = active.lines[i] /\ active.lines[i].good
  BY Zenon, <1>5, <1>7, <1>9
<1> QED
  BY Zenon, <1>2, <1>7, <1>9, <1>10, <1>11, <1>12

LEMMA RepairInv == AckInv /\ Repair => AckInv'
<1> SUFFICES ASSUME AckInv, Repair PROVE AckInv'
  OBVIOUS
<1>1. /\ UNCHANGED <<log, segs, thread, clock, count, acked>> /\ ~log.up
      /\ active # NoFile /\ active \in File /\ Shape(log, segs, active)
      /\ active.durable <= Len(active.lines) /\ active.durable \in Nat /\ Whole(active)
  BY Zenon DEF Repair, Repairable, AckInv, Shape, File
<1>2. /\ active' \in File /\ active' # NoFile
      /\ Len(active.lines) \in Nat /\ Len(active'.lines) \in Nat
      /\ active'.durable = Len(active'.lines)
      /\ \A i \in 1 .. Len(active'.lines) :
            active'.lines[i] = active.lines[i] /\ active.lines[i].good
      /\ \A i \in 1 .. Len(active.lines) : active.lines[i].good => i <= Len(active'.lines)
  BY Zenon, <1>1, RepairFacts
<1>3. Shape(log', segs', active')
  <2>1. LinesOf(active') = active'.lines
    BY Zenon, <1>2 DEF LinesOf
  <2>2. Whole(active')
    BY Zenon, <1>2, <2>1 DEF Whole
  <2> QED
    BY <1>1, <1>2, <2>2 DEF Shape
<1>4. ASSUME NEW n \in acked, InFile(active, n) PROVE InFile(active', n)
  <2>1. PICK i \in 1 .. active.durable : active.lines[i].good /\ active.lines[i].n = n
    BY <1>4 DEF InFile
  <2>2. i \in 1 .. Len(active.lines) /\ i \in 1 .. Len(active'.lines)
    BY <1>1, <1>2, <2>1
  <2> QED
    BY Zenon, <1>2, <2>1, <2>2 DEF InFile
<1>5. Stored(segs, active)'
  BY Zenon, <1>1, <1>4 DEF AckInv, Stored
<1> QED
  BY Zenon, <1>1, <1>3, <1>5 DEF AckInv

LEMMA AckInvInit == Init => AckInv
<1> SUFFICES ASSUME Init PROVE AckInv
  BY Zenon
<1>0. active = EmptyFile
  BY Zenon DEF Init
<1>1. log \in Log /\ log.writeCount = 0 /\ log.syncedCount = 0 /\ log.f = "open"
  BY DEF Init, Log
<1>2. DOMAIN segs = {} /\ segs = [a \in DOMAIN segs |-> segs[a]] /\ Enumerated(segs)
  <2>1. DOMAIN segs = {} /\ segs = [a \in DOMAIN segs |-> segs[a]]
    BY DEF Init
  <2>2. Numbered(segs)
    <3>1. \A ts \in Nat : \A k \in Nat : <<ts, k>> \in DOMAIN segs <=> k < 0
      BY <2>1
    <3> QED
      BY <3>1 DEF Numbered
  <2> QED
    BY Zenon, <2>1, <2>2 DEF Enumerated, HasLast
<1>3. Shape(log, segs, active)
  <2>1. Whole(active)
    BY SMTT(20), <1>0, EmptyFileFacts DEF Whole, LinesOf
  <2> QED
    BY <1>0, <1>1, <1>2, <2>1, EmptyFileFacts DEF Shape
<1>4. Running(log, segs, active)
  BY SMTT(20), <1>0, <1>1, EmptyFileFacts DEF Running, HasLines
<1>5. thread \in [Appenders -> Thread] /\ \A p \in Appenders : thread[p].pc = "idle"
  BY IdleFacts DEF Init
<1>6. Calls(thread, log, segs, active)
  BY Zenon, <1>5 DEF Calls, Waits, Leads
<1>7. count \in Nat /\ clock \in Nat /\ acked = {}
  BY DEF Init
<1> QED
  BY <1>3, <1>4, <1>5, <1>6, <1>7 DEF AckInv, Stored

LEMMA AckInvNext ==
    ASSUME "short" \notin Faults, AckInv, [Next]_vars
    PROVE  AckInv'
<1>1. ASSUME NEW p \in Appenders, doAppend(p) PROVE AckInv'
  BY <1>1, AppendInv
<1>2. ASSUME NEW p \in Appenders, AppendStep(p) PROVE AckInv'
  BY Zenon, <1>2, RotateWakeInv, SyncWakeInv, FsyncInv DEF AppendStep
<1>3. CASE Tick
  <2>1. clock' \in Nat /\ UNCHANGED <<log, segs, active, thread, count, acked>>
    BY SMTT(20), <1>3, AuditAssumption DEF Tick, disk
  <2> QED
    BY Zenon, <2>1, ClockInv
<1>4. CASE UNCHANGED vars
  BY <1>4, ClockInv DEF vars, AckInv
<1> QED
  BY Zenon, <1>1, <1>2, <1>3, <1>4, CloseInv, CrashInv, OpenInv, RepairInv DEF Next

(* Append acknowledges only what stays: in whatever order appenders lead,  *)
(* wait and rotate, whichever fsyncs, renames, opens and whole writes      *)
(* fail, and wherever the process crashes, is started again or repaired,   *)
(* the record of an Append that returned nil is a durable, readable line   *)
(* of a file.  No fault is excluded but the write that stops halfway.      *)
THEOREM AcknowledgedIsDurable == "short" \notin Faults => (Spec => []AckDurable)
<1>1. SUFFICES ASSUME "short" \notin Faults PROVE Spec => []AckDurable
  OBVIOUS
<1>2. Init => AckInv
  BY AckInvInit
<1>3. AckInv /\ [Next]_vars => AckInv'
  BY <1>1, AckInvNext
<1>4. AckInv => AckDurable
  <2> SUFFICES ASSUME AckInv, NEW n \in acked
               PROVE  \E f \in Files : f # NoFile /\
                         \E i \in 1 .. f.durable : f.lines[i].good /\ f.lines[i].n = n
    BY DEF AckDurable
  <2>1. CASE InFile(active, n)
    BY Zenon, <2>1 DEF InFile, Files
  <2>2. CASE InSegment(segs, n)
    <3>1. PICK a \in DOMAIN segs : \E i \in 1 .. segs[a].durable :
             segs[a].lines[i].good /\ segs[a].lines[i].n = n
      BY Zenon, <2>2 DEF InSegment
    <3>2. segs[a] \in Files /\ segs[a] # NoFile
      BY <3>1, AuditAssumption DEF AckInv, Shape, Files
    <3> QED
      BY Zenon, <3>1, <3>2
  <2> QED
    BY Zenon, <2>1, <2>2 DEF AckInv, Stored
<1> QED
  BY <1>2, <1>3, <1>4, PTL DEF Spec

-----------------------------------------------------------------------------
(***************************************************************************)
(* The hash chain of AuditLog: VerifySegments accepts the files while the  *)
(* log runs, and a stopped log can be opened or repaired.  As before there *)
(* is no short write, and the clock does not go back.                      *)
(***************************************************************************)
(* Names grow with the clock, the segments verify, and so does the active  *)
(* file but for a last line that a crash may have torn.                    *)
Ordered(s) ==
    \A a \in DOMAIN s : a[1] <= clock /\ HasLast(Earlier(s, a))

SegmentsVerify(s) ==
    \A a \in DOMAIN s :
       /\ HasLines(s[a]) /\ verify(s[a])
       /\ s[a].lines[1].prev = IF Earlier(s, a) = {} THEN 0 ELSE LastHash(s[Previous(s, a)])

Linked(ls, seed) ==
    \A i \in 1 .. Len(ls) :
        /\ i < Len(ls) => ls[i].good
        /\ ls[i].prev = IF i = 1 THEN seed ELSE HashOf(ls[i - 1])
        /\ i > 1 => ls[i].seq = ls[i - 1].seq + 1

(* The hash and the number the next line continues from.                   *)
ChainHead(ls, seed, hash, seq) ==
    IF Len(ls) > 0
    THEN ls[Len(ls)].good /\ hash = HashOf(ls[Len(ls)]) /\ seq = ls[Len(ls)].seq
    ELSE hash = seed /\ seq = 0

Chained(s, f) ==
    Ordered(s) /\ SegmentsVerify(s) /\ Linked(LinesOf(f), seedFromRotatedSegments(s))

HeadOk(l, s, f) == ChainHead(LinesOf(f), seedFromRotatedSegments(s), l.prevHash, l.seq)

ChainInv ==
    /\ AckInv /\ Chained(segs, active)
    /\ log.up => HeadOk(log, segs, active)

-----------------------------------------------------------------------------
LEMMA LastIsLine ==
    ASSUME NEW f \in File \cup {NoFile}
    PROVE  /\ HasLines(f) <=> Len(LinesOf(f)) > 0
           /\ HasLines(f) => /\ f \in File /\ LinesOf(f) = f.lines /\ LastLine(f) \in Line
                             /\ LastLine(f) = LinesOf(f)[Len(LinesOf(f))]
<1>1. HasLines(f) <=> Len(LinesOf(f)) > 0
  BY LinesOfFacts DEF HasLines
<1>2. ASSUME HasLines(f)
      PROVE  /\ f \in File /\ LinesOf(f) = f.lines /\ LastLine(f) \in Line
             /\ LastLine(f) = LinesOf(f)[Len(LinesOf(f))]
  <2>1. f \in File /\ LinesOf(f) = f.lines
    BY <1>2, LinesOfFacts DEF HasLines
  <2>2. Len(LinesOf(f)) \in 1 .. Len(LinesOf(f))
    BY SMTT(20), <1>1, <1>2, LinesOfFacts
  <2> QED
    BY <2>1, <2>2, LinesOfFacts DEF LastLine
<1> QED
  BY <1>1, <1>2

(* Lines that carry the same records are linked alike.                     *)
LEMMA SameChain ==
    ASSUME NEW ls \in Seq(Line), NEW ms \in Seq(Line), Len(ms) = Len(ls),
           \A i \in 1 .. Len(ls) : SameRecord(ms[i], ls[i]),
           NEW seed, Linked(ls, seed)
    PROVE  /\ Linked(ms, seed)
           /\ \A h, q : ChainHead(ls, seed, h, q) => ChainHead(ms, seed, h, q)
<1>1. Len(ls) \in Nat /\ \A i \in 1 .. Len(ls) : HashOf(ms[i]) = HashOf(ls[i])
  BY Zenon, SequenceFacts DEF HashOf, SameRecord
<1>2. ASSUME NEW i \in 1 .. Len(ms)
      PROVE  /\ i < Len(ms) => ms[i].good
             /\ ms[i].prev = IF i = 1 THEN seed ELSE HashOf(ms[i - 1])
             /\ i > 1 => ms[i].seq = ms[i - 1].seq + 1
  <2>1. SameRecord(ms[i], ls[i])
    OBVIOUS
  <2>2. i > 1 => i - 1 \in 1 .. Len(ls)
    BY <1>1
  <2>3. i > 1 => SameRecord(ms[i - 1], ls[i - 1]) /\ HashOf(ms[i - 1]) = HashOf(ls[i - 1])
    BY <1>1, <2>2
  <2> QED
    BY SMTT(20), <1>1, <2>1, <2>3 DEF SameRecord, Linked
<1>3. ASSUME NEW h, NEW q, ChainHead(ls, seed, h, q) PROVE ChainHead(ms, seed, h, q)
  <2>1. CASE Len(ls) > 0
    <3>1. Len(ls) \in 1 .. Len(ls)
      BY SMTT(20), <1>1, <2>1
    <3> QED
      BY Zenon, <1>1, <1>3, <2>1, <3>1 DEF ChainHead, SameRecord
  <2>2. CASE ~(Len(ls) > 0)
    BY Zenon, <1>3, <2>2 DEF ChainHead
  <2> QED
    BY SMTT(20), <2>1, <2>2
<1> QED
  BY SMTT(20), <1>2, <1>3 DEF Linked

(* A line that continues from the head of the chain extends it.            *)
LEMMA ExtendChain ==
    ASSUME NEW ls \in Seq(Line), NEW ms \in Seq(Line), Len(ms) = Len(ls) + 1,
           \A i \in 1 .. Len(ls) : SameRecord(ms[i], ls[i]),
           NEW seed, NEW h, NEW q, NEW n, Linked(ls, seed), ChainHead(ls, seed, h, q),
           ms[Len(ls) + 1].good, ms[Len(ls) + 1].n = n,
           ms[Len(ls) + 1].prev = h, ms[Len(ls) + 1].seq = q + 1
    PROVE  Linked(ms, seed) /\ ChainHead(ms, seed, n, q + 1)
<1>1. PICK k \in Nat : k = Len(ls)
  BY SMTT(20), SequenceFacts
<1>2. \A i \in 1 .. k : HashOf(ms[i]) = HashOf(ls[i])
  BY Zenon, <1>1 DEF HashOf, SameRecord
<1>3. ASSUME NEW i \in 1 .. k
      PROVE  /\ ms[i].good
             /\ ms[i].prev = IF i = 1 THEN seed ELSE HashOf(ms[i - 1])
             /\ i > 1 => ms[i].seq = ms[i - 1].seq + 1
  <2>1. SameRecord(ms[i], ls[i])
    BY SMTT(20), <1>1
  <2>2. i > 1 => i - 1 \in 1 .. k
    BY SMTT(20), <1>1
  <2>3. i > 1 => SameRecord(ms[i - 1], ls[i - 1]) /\ HashOf(ms[i - 1]) = HashOf(ls[i - 1])
    BY SMTT(20), <1>1, <1>2, <2>2
  <2>4. ls[i].good
    BY SMTT(20), <1>1 DEF Linked, ChainHead
  <2> QED
    BY SMTT(20), <1>1, <2>1, <2>3, <2>4 DEF SameRecord, Linked
<1>4. CASE k = 0
  <2>1. h = seed
    BY SMTT(20), <1>1, <1>4 DEF ChainHead
  <2>2. ms[k + 1].prev = seed
    BY Zenon, <1>1, <2>1
  <2> QED
    BY SMTT(20), <1>1, <1>4, <2>2 DEF Linked, ChainHead, HashOf
<1>5. CASE k > 0
  <2>1. h = HashOf(ls[k]) /\ q = ls[k].seq /\ SameRecord(ms[k], ls[k])
    BY SMTT(20), <1>1, <1>5 DEF ChainHead
  <2>2. ms[k + 1].prev = HashOf(ms[k]) /\ ms[k + 1].seq = ms[k].seq + 1
    BY SMTT(20), <1>1, <1>2, <1>5, <2>1 DEF SameRecord
  <2>3. ASSUME NEW i \in 1 .. Len(ms)
        PROVE  /\ i < Len(ms) => ms[i].good
               /\ ms[i].prev = IF i = 1 THEN seed ELSE HashOf(ms[i - 1])
               /\ i > 1 => ms[i].seq = ms[i - 1].seq + 1
    <3>1. CASE i \in 1 .. k
      BY Zenon, <1>3, <3>1
    <3>2. CASE i = k + 1
      BY SMTT(20), <1>1, <1>5, <2>2, <3>2
    <3> QED
      BY SMTT(20), <1>1, <3>1, <3>2
  <2>4. ChainHead(ms, seed, n, q + 1)
    BY <1>1 DEF ChainHead, HashOf
  <2> QED
    BY SMTT(20), <2>3, <2>4 DEF Linked
<1> QED
  BY SMTT(20), <1>1, <1>4, <1>5

(* A prefix of linked lines, its last line damaged or not, is linked.      *)
LEMMA PrefixChain ==
    ASSUME NEW ls \in Seq(Line), NEW ms \in Seq(Line), Len(ms) <= Len(ls),
           \A i \in 1 .. Len(ms) : /\ SameLink(ms[i], ls[i])
                                   /\ i < Len(ms) => ms[i].good = ls[i].good,
           NEW seed, Linked(ls, seed)
    PROVE  Linked(ms, seed)
<1>1. Len(ls) \in Nat /\ Len(ms) \in Nat
  BY Zenon, SequenceFacts
<1>2. ASSUME NEW i \in 1 .. Len(ms)
      PROVE  /\ i < Len(ms) => ms[i].good
             /\ ms[i].prev = IF i = 1 THEN seed ELSE HashOf(ms[i - 1])
             /\ i > 1 => ms[i].seq = ms[i - 1].seq + 1
  <2>1. i \in 1 .. Len(ls) /\ SameLink(ms[i], ls[i])
    BY SMTT(20), <1>1
  <2>2. i > 1 => /\ i - 1 \in 1 .. Len(ms) /\ SameLink(ms[i - 1], ls[i - 1])
                 /\ ms[i - 1].good = ls[i - 1].good
    BY SMTT(20), <1>1
  <2>3. i > 1 => HashOf(ms[i - 1]) = HashOf(ls[i - 1])
    BY SMTT(20), <2>2 DEF HashOf, SameLink
  <2>4. i < Len(ms) => ms[i].good
    <3> SUFFICES ASSUME i < Len(ms) PROVE ms[i].good
      BY Zenon
    <3>1. ls[i].good
      BY SMTT(20), <1>1, <2>1 DEF Linked
    <3>2. ms[i].good = ls[i].good
      BY SMTT(20)
    <3> QED
      BY <3>1, <3>2
  <2> QED
    BY SMTT(20), <2>1, <2>2, <2>3, <2>4 DEF Linked, SameLink
<1> QED
  BY Zenon, <1>2 DEF Linked

(* With a clock that does not go back, a new segment is the newest one.    *)
LEMMA NameIsLast ==
    ASSUME Shape(log, segs, active), active # NoFile, clock \in Nat, Ordered(segs)
    PROVE  \E name \in Names :
             /\ name \notin DOMAIN segs /\ DOMAIN Moved = DOMAIN segs \cup {name}
             /\ Moved[name] = Synced(active) /\ \A a \in DOMAIN segs : Moved[a] = segs[a]
             /\ Last(DOMAIN Moved, name) /\ Ordered(Moved)
             /\ segs = [a \in DOMAIN segs |-> segs[a]]
<1>1. PICK k \in Nat :
             /\ <<clock, k>> \notin DOMAIN segs
             /\ \A j \in Nat : <<clock, j>> \in DOMAIN segs <=> j < k
             /\ DOMAIN Moved = DOMAIN segs \cup {<<clock, k>>}
             /\ Moved[<<clock, k>>] = Synced(active)
             /\ \A a \in DOMAIN segs : Moved[a] = segs[a]
  BY Zenon, MovedFacts
<1>2. PICK name \in Names : name = <<clock, k>> /\ name[1] = clock /\ name[2] = k
  <2>1. <<clock, k>> \in Names /\ <<clock, k>>[1] = clock /\ <<clock, k>>[2] = k
    BY Zenon DEF Names
  <2> QED
    BY <2>1, Zenon
<1>3. ASSUME NEW b \in DOMAIN segs PROVE segmentOrder(b, name)
  <2>1. b \in Names /\ b[1] \in Nat /\ b[2] \in Nat /\ b = <<b[1], b[2]>>
    BY SMTT(20) DEF Shape, Enumerated, Names
  <2>2. b[1] <= clock
    BY Zenon DEF Ordered
  <2>3. ASSUME b[1] = clock PROVE b[2] < k
    BY Zenon, <1>1, <2>1, <2>3
  <2> QED
    BY SMTT(20), <1>2, <2>1, <2>2, <2>3 DEF segmentOrder
<1>4. Last(DOMAIN Moved, name)
  BY SMTT(20), <1>1, <1>2, <1>3 DEF Last
<1>5. Ordered(Moved)
  <2> SUFFICES ASSUME NEW a \in DOMAIN Moved PROVE a[1] <= clock /\ HasLast(Earlier(Moved, a))
    BY DEF Ordered
  <2>1. DOMAIN segs \subseteq Names /\ HasLast(DOMAIN segs)
    BY SMTT(20) DEF Shape, Enumerated
  <2>2. CASE a = name
    <3>1. Earlier(Moved, name) = DOMAIN segs
      BY ZenonT(30), <1>1, <1>2, <1>3, <2>1, OrderFacts DEF Earlier
    <3> QED
      BY SMTT(20), <1>2, <2>1, <2>2, <3>1
  <2>3. CASE a \in DOMAIN segs
    <3>1. ~segmentOrder(name, a)
      BY Zenon, <1>2, <1>3, <2>1, <2>3, OrderFacts
    <3>2. Earlier(Moved, a) = Earlier(segs, a)
      BY <1>1, <1>2, <3>1 DEF Earlier
    <3> QED
      BY Zenon, <2>3, <3>2 DEF Ordered
  <2> QED
    BY Zenon, <1>1, <1>2, <2>2, <2>3
<1> QED
  BY <1>1, <1>2, <1>4, <1>5 DEF Shape

LEMMA PreviousIn ==
    ASSUME NEW s, DOMAIN s \subseteq Names, Ordered(s), NEW a \in DOMAIN s, Earlier(s, a) # {}
    PROVE  Previous(s, a) \in Earlier(s, a)
<1>1. PICK e : e = Earlier(s, a)
  OBVIOUS
<1>2. HasLast(e) /\ e \subseteq Names /\ e # {}
  BY <1>1 DEF Earlier, Ordered
<1>3. PICK r : r = Restrict(s, e)
  OBVIOUS
<1>4. DOMAIN r = e
  BY SMTT(20), <1>3 DEF Restrict
<1>5. Newest(r) \in e
  BY SMTT(20), <1>2, <1>4, NewestFacts DEF Last
<1> QED
  BY <1>1, <1>3, <1>5 DEF Previous

(* The rename leaves a verified chain of segments that ends in the file.   *)
LEMMA RenameChain ==
    ASSUME Shape(log, segs, active), HasLines(active), clock \in Nat, Chained(segs, active),
           LastLine(active).good
    PROVE  /\ Ordered(Moved) /\ SegmentsVerify(Moved)
           /\ seedFromRotatedSegments(Moved) = LastHash(active)
<1>0. active # NoFile /\ active \in File /\ Ordered(segs) /\ SegmentsVerify(segs)
  BY SMTT(20) DEF HasLines, Shape, Chained
<1>1. PICK name \in Names :
             /\ name \notin DOMAIN segs /\ DOMAIN Moved = DOMAIN segs \cup {name}
             /\ Moved[name] = Synced(active) /\ \A a \in DOMAIN segs : Moved[a] = segs[a]
             /\ Last(DOMAIN Moved, name) /\ Ordered(Moved)
             /\ segs = [a \in DOMAIN segs |-> segs[a]]
  BY <1>0, NameIsLast
<1>2. /\ Synced(active) \in File /\ Synced(active).lines = active.lines
      /\ Synced(active) # NoFile /\ Len(active.lines) \in Nat /\ Len(active.lines) > 0
      /\ LinesOf(active) = active.lines
  BY Zenon, <1>0, SyncedFacts, LinesOfFacts DEF HasLines
<1>3. HasLines(Moved[name]) /\ LastHash(Moved[name]) = LastHash(active)
  BY <1>1, <1>2 DEF HasLines, LastHash, LastLine
<1>4. HasLast(DOMAIN segs) /\ DOMAIN segs \subseteq Names
      /\ HasLast(DOMAIN Moved) /\ DOMAIN Moved \subseteq Names
  BY Zenon, <1>0, MovedFacts DEF Shape, Enumerated
<1>5. seedFromRotatedSegments(Moved) = LastHash(active)
  <2>1. Newest(Moved) = name /\ DOMAIN Moved # {}
    BY ZenonT(30), <1>1, <1>4, NewestFacts
  <2> QED
    BY <1>3, <2>1 DEF seedFromRotatedSegments
<1>6. verify(Moved[name])
  <2>1. ASSUME NEW i \in 1 .. Len(active.lines)
        PROVE  /\ active.lines[i].good
               /\ i > 1 => /\ active.lines[i].seq = active.lines[i - 1].seq + 1
                           /\ active.lines[i].prev = HashOf(active.lines[i - 1])
    <3>1. Linked(active.lines, seedFromRotatedSegments(segs))
      BY ZenonT(30), <1>2 DEF Chained
    <3>2. active.lines[i].good
      BY <1>2, <3>1 DEF Linked, LastLine
    <3> QED
      BY SMTT(20), <1>2, <3>1, <3>2 DEF Linked
  <2> QED
    BY ZenonT(30), <1>1, <1>2, <2>1 DEF verify
<1>7. Moved[name].lines[1].prev = IF Earlier(Moved, name) = {} THEN 0
                                  ELSE LastHash(Moved[Previous(Moved, name)])
  <2>1. Earlier(Moved, name) = DOMAIN segs
    BY SMTT(20), <1>1, <1>4, OrderFacts DEF Earlier, Last
  <2>2. Moved[name].lines[1].prev = seedFromRotatedSegments(segs)
    BY <1>1, <1>2 DEF Chained, Linked
  <2>3. CASE DOMAIN segs = {}
    BY Zenon, <2>1, <2>2, <2>3 DEF seedFromRotatedSegments
  <2>4. CASE DOMAIN segs # {}
    <3>1. Restrict(Moved, DOMAIN segs) = segs
      BY <1>1 DEF Restrict
    <3>2. Previous(Moved, name) = Newest(segs)
      BY Zenon, <2>1, <3>1 DEF Previous
    <3>3. Newest(segs) \in DOMAIN segs
      BY ZenonT(30), <1>4, <2>4, NewestFacts DEF Last
    <3> QED
      BY Zenon, <1>1, <2>1, <2>2, <2>4, <3>2, <3>3 DEF seedFromRotatedSegments
  <2> QED
    BY Zenon, <2>3, <2>4
<1>8. ASSUME NEW a \in DOMAIN segs
      PROVE  Moved[a].lines[1].prev = IF Earlier(Moved, a) = {} THEN 0
                                      ELSE LastHash(Moved[Previous(Moved, a)])
  <2>1. segmentOrder(a, name) /\ ~segmentOrder(name, a)
    BY Zenon, <1>1, <1>4, OrderFacts DEF Last
  <2>2. Earlier(Moved, a) = Earlier(segs, a)
    BY Zenon, <1>1, <2>1 DEF Earlier
  <2>3. segs[a].lines[1].prev = IF Earlier(segs, a) = {} THEN 0
                                ELSE LastHash(segs[Previous(segs, a)])
    BY <1>0 DEF SegmentsVerify
  <2>4. CASE Earlier(segs, a) = {}
    BY Zenon, <1>1, <2>2, <2>3, <2>4
  <2>5. CASE Earlier(segs, a) # {}
    <3>1. Restrict(Moved, Earlier(segs, a)) = Restrict(segs, Earlier(segs, a))
      BY <1>1 DEF Restrict, Earlier
    <3>2. Previous(Moved, a) = Previous(segs, a)
      BY Zenon, <2>2, <3>1 DEF Previous
    <3>3. Previous(segs, a) \in DOMAIN segs
      BY Zenon, <1>0, <1>4, <2>5, PreviousIn DEF Earlier
    <3> QED
      BY Zenon, <1>1, <2>2, <2>3, <2>5, <3>2, <3>3
  <2> QED
    BY <2>4, <2>5
<1>9. SegmentsVerify(Moved)
  <2> SUFFICES ASSUME NEW a \in DOMAIN Moved
               PROVE  /\ HasLines(Moved[a]) /\ verify(Moved[a])
                      /\ Moved[a].lines[1].prev = IF Earlier(Moved, a) = {} THEN 0
                                                  ELSE LastHash(Moved[Previous(Moved, a)])
    BY DEF SegmentsVerify
  <2>1. CASE a = name
    BY Zenon, <1>3, <1>6, <1>7, <2>1
  <2>2. CASE a \in DOMAIN segs
    <3>1. HasLines(segs[a]) /\ verify(segs[a])
      BY Zenon, <1>0, <2>2 DEF SegmentsVerify
    <3> QED
      BY Zenon, <1>1, <1>8, <2>2, <3>1
  <2> QED
    BY ZenonT(30), <1>1, <2>1, <2>2
<1> QED
  BY SMTT(20), <1>1, <1>5, <1>9

(* The chain after each part of a call of Append.                          *)
LEMMA RotateChain ==
    ASSUME Ok(thread, log, segs, active), clock \in Nat,
           Chained(segs, active), HeadOk(log, segs, active), NEW r \in maybeRotate(log)
    PROVE  Chained(r.segs, r.active) /\ HeadOk(r.log, r.segs, r.active)
<1>1. /\ Rotated(r.log, r.segs, r.active) /\ log \in Log /\ Shape(log, segs, active)
      /\ active \in File \cup {NoFile}
  BY RotationCases DEF Ok, Shape
<1>2. CASE r.log = log /\ r.segs = segs /\ r.active = active
  BY <1>2
<1>3. ASSUME Full(log, active)
      PROVE  /\ HasLines(active) /\ active \in File /\ LinesOf(active) = active.lines
             /\ LinesOf(Synced(active)) = active.lines /\ LastLine(active).good
             /\ log.prevHash = LastHash(active)
  <2>1. active # NoFile /\ active \in File
    BY Zenon, <1>1, <1>3 DEF Full, Ok, Running
  <2>2. Len(active.lines) \in Nat /\ Len(active.lines) > 0
    BY SMTT(20), <1>3, <2>1, SequenceFacts, AuditAssumption DEF Full, File
  <2>3. LinesOf(active) = active.lines /\ LinesOf(Synced(active)) = active.lines
    BY <2>1, SyncedFacts DEF LinesOf
  <2> QED
    BY Zenon, <2>1, <2>2, <2>3 DEF HasLines, LastLine, LastHash, HeadOk, ChainHead
<1>4. CASE /\ Full(log, active) /\ r.segs = segs /\ r.active = Synced(active)
           /\ r.log \in {FlushedLog(log), Opened(FlushedLog(log))}
  <2>0. Flushed(r.log, log) /\ r.log.seq = log.seq
    BY Zenon, <1>1, <1>4, LogFacts
  <2>1. r.log.prevHash = log.prevHash /\ r.log.seq = log.seq
    BY Zenon, <2>0 DEF Flushed
  <2> QED
    BY ZenonT(30), <1>3, <1>4, <2>1 DEF Chained, HeadOk
<1>5. CASE /\ Full(log, active) /\ r.segs = Moved
           /\ \/ r.log = Opened(RotatedLog(log)) /\ r.active = EmptyFile
              \/ r.log = RotatedLog(log) /\ r.active = NoFile
  <2>0. Flushed(r.log, log) /\ r.log.seq = 0
    <3>1. Flushed(RotatedLog(log), log) /\ RotatedLog(log).seq = 0
      BY Zenon, <1>1, LogFacts
    <3>2. Flushed(Opened(RotatedLog(log)), log) /\ Opened(RotatedLog(log)).seq = 0
      BY Zenon, <1>1, LogFacts
    <3> QED
      BY Zenon, <1>5, <3>1, <3>2
  <2>1. r.log.prevHash = log.prevHash /\ r.log.seq = 0
    BY ZenonT(30), <2>0 DEF Flushed
  <2>2. LinesOf(r.active) = <<>> /\ Len(<<>>) = 0
    BY <1>5, EmptyFileFacts DEF LinesOf
  <2>3. /\ Ordered(Moved) /\ SegmentsVerify(Moved)
        /\ seedFromRotatedSegments(Moved) = LastHash(active)
    BY ZenonT(30), <1>1, <1>3, <1>5, RenameChain
  <2>4. Linked(LinesOf(r.active), seedFromRotatedSegments(Moved))
    BY <2>2 DEF Linked
  <2>5. HeadOk(r.log, Moved, r.active)
    <3>1. ~(Len(LinesOf(r.active)) > 0)
      BY <2>2
    <3> QED
      BY Zenon, <1>3, <1>5, <2>1, <2>3, <3>1 DEF HeadOk, ChainHead
  <2> QED
    BY Zenon, <1>5, <2>3, <2>4, <2>5 DEF Chained
<1> QED
  BY Zenon, <1>1, <1>2, <1>4, <1>5 DEF Rotated

LEMMA WriteChain ==
    ASSUME "short" \notin Faults, NEW l, NEW s, NEW f, Ok(thread, l, s, f),
           Chained(s, f), HeadOk(l, s, f), NEW n \in Nat, NEW w \in Writes(Left(l, s, f), n)
    PROVE  Chained(s, w.r.active) /\ HeadOk(w.r.log, s, w.r.active)
<1>1. l \in Log /\ f \in File \cup {NoFile}
  BY SMTT(20) DEF Ok, Shape
<1>2. Wrote(w.ok, w.r.log, w.r.active, n, l, f)
  BY <1>1, WriteCases
<1>3. PICK e, c : e = ensureOpen(l) /\ c = Created(f)
  OBVIOUS
<1>4. /\ e \in Log /\ e.prevHash = l.prevHash /\ e.seq = l.seq
      /\ e.needsNewline = l.needsNewline
      /\ c \in File /\ c # NoFile /\ c.lines = LinesOf(f) /\ LinesOf(c) = LinesOf(f)
  BY Zenon, <1>1, <1>3, OpenFacts DEF LinesOf
<1>5. Ok(thread, e, s, c) /\ Chained(s, c) /\ HeadOk(e, s, c)
  BY SMTT(20), <1>3, <1>4, OpenedOk DEF Chained, HeadOk
<1>6. CASE w.r.log = l /\ w.r.active = f
  BY <1>6
<1>7. CASE w.r.log = e /\ w.r.active = c
  BY <1>5, <1>7
<1>8. CASE w.r.log = Committed(e, n) /\ w.r.active = Put(c, Entry(e, n), l.needsNewline)
  <2>1. PICK g, line : g = Put(c, Entry(e, n), e.needsNewline) /\ line = Entry(e, n)
    OBVIOUS
  <2>2. Running(e, s, c)
    BY <1>5 DEF Ok
  <2>3. /\ g \in File /\ g # NoFile /\ Len(g.lines) = Len(c.lines) + 1
        /\ g.lines[Len(c.lines) + 1] = line
        /\ \A i \in 1 .. Len(c.lines) : SameRecord(g.lines[i], c.lines[i])
    BY ZenonT(30), <1>4, <2>1, <2>2, PutFacts
  <2>4. line.n = n /\ line.good /\ line.seq = e.seq + 1 /\ line.prev = e.prevHash
    BY Zenon, <1>4, <2>1, CommittedFacts
  <2>5. Committed(e, n).prevHash = n /\ Committed(e, n).seq = e.seq + 1
    BY ZenonT(30), <1>4, CommittedFacts
  <2>6. c.lines \in Seq(Line) /\ g.lines \in Seq(Line)
        /\ LinesOf(c) = c.lines /\ LinesOf(g) = g.lines
    BY <1>4, <2>3 DEF File, LinesOf
  <2>7. PICK seed : seed = seedFromRotatedSegments(s)
    OBVIOUS
  <2>8. Linked(c.lines, seed) /\ ChainHead(c.lines, seed, e.prevHash, e.seq)
    BY Zenon, <1>5, <2>6, <2>7 DEF Chained, HeadOk
  <2>9. Linked(g.lines, seed) /\ ChainHead(g.lines, seed, n, e.seq + 1)
    <3>1. PICK ls \in Seq(Line), ms \in Seq(Line) : ls = c.lines /\ ms = g.lines
      BY <2>6
    <3>2. PICK h, q : h = e.prevHash /\ q = e.seq
      OBVIOUS
    <3>3. /\ Len(ms) = Len(ls) + 1
          /\ \A i \in 1 .. Len(ls) : SameRecord(ms[i], ls[i])
          /\ Linked(ls, seed) /\ ChainHead(ls, seed, h, q)
      BY Zenon, <2>3, <2>8, <3>1, <3>2
    <3>4. /\ ms[Len(ls) + 1].good /\ ms[Len(ls) + 1].n = n
          /\ ms[Len(ls) + 1].prev = h /\ ms[Len(ls) + 1].seq = q + 1
      BY ZenonT(30), <2>3, <2>4, <3>1, <3>2
    <3>5. Linked(ms, seed) /\ ChainHead(ms, seed, n, q + 1)
      BY <3>3, <3>4, ExtendChain
    <3> QED
      BY Zenon, <3>1, <3>2, <3>5
  <2>10. w.r.log = Committed(e, n) /\ w.r.active = g
    BY Zenon, <1>4, <1>8, <2>1
  <2> QED
    BY Zenon, <1>5, <2>5, <2>6, <2>7, <2>9, <2>10 DEF Chained, HeadOk
<1> QED
  BY Zenon, <1>2, <1>3, <1>6, <1>7, <1>8 DEF Wrote

(* The segments and the struct after a write.                              *)
WriteLeft(w, s) == w.r.segs = s /\ w.r.log \in Log

LEMMA WriteLeaves ==
    ASSUME "short" \notin Faults, NEW l, NEW s, NEW f, Ok(thread, l, s, f),
           NEW n \in Nat, NEW w \in Writes(Left(l, s, f), n)
    PROVE  WriteLeft(w, s)
<1>1. Ok(thread, w.r.log, s, w.r.active) /\ w.r.segs = s
  BY WriteOk
<1> QED
  BY Zenon, <1>1 DEF WriteLeft, Ok, Shape

LEMMA ProceedChain ==
    ASSUME "short" \notin Faults, NEW th, Ok(th, log, segs, active), clock \in Nat,
           Full(log, active) => ~log.syncing, Ok(thread, log, segs, active),
           Chained(segs, active), HeadOk(log, segs, active),
           NEW p \in Appenders, NEW n \in Nat, Proceed(p, n, th)
    PROVE  Chained(segs', active') /\ HeadOk(log', segs', active')
<1>1. PICK r \in maybeRotate(log) : \E w \in Writes(r, n) : \E b :
            log' = [w.r.log EXCEPT !.syncing = b] /\ segs' = w.r.segs /\ active' = w.r.active
  BY Zenon DEF Proceed
<1>2. PICK w \in Writes(r, n) : \E b :
            log' = [w.r.log EXCEPT !.syncing = b] /\ segs' = w.r.segs /\ active' = w.r.active
  BY Zenon, <1>1
<1>3. /\ Ok(thread, r.log, r.segs, r.active) /\ r = Left(r.log, r.segs, r.active)
      /\ Chained(r.segs, r.active) /\ HeadOk(r.log, r.segs, r.active)
  BY Zenon, RotateOk, RotationCases, RotateChain
<1>4. PICK l, s, f : l = r.log /\ s = r.segs /\ f = r.active
  OBVIOUS
<1>5. /\ Ok(thread, l, s, f) /\ w \in Writes(Left(l, s, f), n)
      /\ Chained(s, f) /\ HeadOk(l, s, f)
  BY ZenonT(30), <1>2, <1>3, <1>4
<1>6. /\ Chained(s, w.r.active) /\ HeadOk(w.r.log, s, w.r.active)
      /\ w.r.segs = s /\ w.r.log \in Log
  <2>1. Chained(s, w.r.active) /\ HeadOk(w.r.log, s, w.r.active)
    BY ZenonT(30), <1>5, WriteChain
  <2>2. WriteLeft(w, s)
    BY Zenon, <1>5, WriteLeaves
  <2> QED
    BY Zenon, <2>1, <2>2 DEF WriteLeft
<1>7. log'.prevHash = w.r.log.prevHash /\ log'.seq = w.r.log.seq
  BY <1>2, <1>6 DEF Log
<1> QED
  BY <1>2, <1>6, <1>7 DEF HeadOk

LEMMA AppendChain ==
    ASSUME "short" \notin Faults, ChainInv, NEW p \in Appenders, doAppend(p) \/ RotateWake(p)
    PROVE  Chained(segs, active)' /\ (log'.up => HeadOk(log, segs, active)')
<1>1. /\ UNCHANGED clock /\ AckInv /\ Chained(segs, active)
      /\ clock \in Nat /\ count \in Nat /\ thread[p] \in Thread /\ thread[p].n \in Nat
  BY DEF doAppend, RotateWake, ChainInv, AckInv, Thread
<1>2. CASE UNCHANGED <<log, segs, active>>
  BY Zenon, <1>1, <1>2 DEF ChainInv, Chained, Ordered, HeadOk
<1>3. ASSUME log.up, Full(log, active) => ~log.syncing, NEW n \in Nat, Proceed(p, n, Awake)
      PROVE  Chained(segs, active)' /\ HeadOk(log, segs, active)'
  <2>1. Ok(thread, log, segs, active) /\ Ok(Awake, log, segs, active)
    BY Zenon, <1>1, <1>3, UpOk, AwakeOk
  <2>2. Chained(segs', active') /\ HeadOk(log', segs', active')
    BY Zenon, <1>1, <1>3, <2>1, ProceedChain DEF ChainInv
  <2> QED
    BY ZenonT(30), <1>1, <2>2 DEF Chained, Ordered, HeadOk
<1>4. CASE doAppend(p)
  <2>1. CASE Full(log, active) /\ MustWait(log)
    BY Zenon, <1>2, <1>4, <2>1 DEF doAppend, disk
  <2>2. CASE ~(Full(log, active) /\ MustWait(log))
    <3>1. log.up /\ Proceed(p, count', Awake) /\ count' \in Nat
      BY SMTT(20), <1>1, <1>4, <2>2 DEF doAppend
    <3> QED
      BY <1>3, <2>2, <3>1 DEF MustWait
  <2> QED
    BY <2>1, <2>2
<1>5. CASE RotateWake(p)
  <2>1. CASE log.syncing
    BY Zenon, <1>2, <1>5, <2>1 DEF RotateWake, disk
  <2>2. CASE ~log.syncing
    <3>1. log.up /\ Proceed(p, thread[p].n, Awake)
      BY <1>1, <1>5, <2>2 DEF RotateWake, AckInv
    <3> QED
      BY Zenon, <1>1, <1>3, <2>2, <3>1
  <2> QED
    BY <2>1, <2>2
<1> QED
  BY <1>4, <1>5

LEMMA SyncChain ==
    ASSUME ChainInv, NEW p \in Appenders, SyncWake(p) \/ FsyncDone(p)
    PROVE  Chained(segs, active)' /\ (log'.up => HeadOk(log, segs, active)')
<1>1. /\ UNCHANGED <<segs, clock>> /\ AckInv /\ Chained(segs, active) /\ log \in Log
      /\ active \in File \cup {NoFile}
  BY Zenon DEF SyncWake, FsyncDone, disk, ChainInv, AckInv, Shape
<1>2. /\ LinesOf(active') = LinesOf(active) /\ log'.up = log.up
      /\ log'.prevHash = log.prevHash /\ log'.seq = log.seq
  <2>1. CASE SyncWake(p)
    <3>1. active' = active
      BY <2>1 DEF SyncWake, disk
    <3>2. log' = log \/ \E b : log' = [log EXCEPT !.syncing = b]
      BY <2>1 DEF SyncWake
    <3>3. /\ log'.up = log.up /\ log'.prevHash = log.prevHash /\ log'.seq = log.seq
      BY <1>1, <3>2 DEF Log
    <3> QED
      BY <3>1, <3>3
  <2>2. CASE FsyncDone(p)
    <3>1. /\ log'.up = log.up /\ log'.prevHash = log.prevHash /\ log'.seq = log.seq
          /\ active' = active \/ active' = [active EXCEPT !.durable = thread[p].lines]
      BY ZenonT(30), <1>1, <2>2, FsyncFacts
    <3>2. active # NoFile
      <4>1. Leads(thread[p]) /\ log.up
        BY Zenon, <1>1, <2>2 DEF FsyncDone, Leads, AckInv
      <4> QED
        BY Zenon, <1>1, <4>1 DEF AckInv, Calls, Leading, Running
    <3>3. active \in File /\ active.lines \in Seq(Line)
      BY <1>1, <3>2 DEF File
    <3>4. [active EXCEPT !.durable = thread[p].lines].lines = active.lines
      BY SMTT(20), <3>3 DEF File
    <3>5. thread[p].lines \in Nat
      BY <1>1 DEF AckInv, Thread
    <3>6. [active EXCEPT !.durable = thread[p].lines] \in File
      BY <3>3, <3>5 DEF File
    <3>7. LinesOf(active') = LinesOf(active)
      BY Zenon, <3>1, <3>2, <3>4, <3>6, AuditAssumption DEF LinesOf
    <3> QED
      BY <3>1, <3>7
  <2> QED
    BY Zenon, <2>1, <2>2
<1> QED
  BY Zenon, <1>1, <1>2 DEF ChainInv, Chained, Ordered, HeadOk

LEMMA CloseChain ==
    ASSUME ChainInv, Close
    PROVE  Chained(segs, active)' /\ (log'.up => HeadOk(log, segs, active)')
<1>1. UNCHANGED <<segs, active, clock>> /\ log.up /\ log \in Log
  BY DEF Close, disk, ChainInv, AckInv, Shape
<1>2. log'.prevHash = log.prevHash /\ log'.seq = log.seq
  BY <1>1 DEF Close, Log
<1> QED
  BY Zenon, <1>1, <1>2 DEF ChainInv, Chained, Ordered, HeadOk

LEMMA TickChain ==
    ASSUME ~ClockSteps, ChainInv, Tick
    PROVE  Chained(segs, active)' /\ (log'.up => HeadOk(log, segs, active)')
<1>1. UNCHANGED <<log, segs, active>> /\ clock' \in Nat /\ clock \in Nat /\ clock <= clock'
  BY AuditAssumption DEF Tick, disk, ChainInv, AckInv
<1>2. Ordered(segs)'
  <2>1. ASSUME NEW a \in DOMAIN segs PROVE a[1] <= clock'
    <3>1. a[1] \in Nat /\ a[1] <= clock
      BY DEF ChainInv, AckInv, Shape, Enumerated, Names, Chained, Ordered
    <3> QED
      BY SMTT(20), <1>1, <3>1
  <2> QED
    BY ZenonT(30), <1>1, <2>1 DEF ChainInv, Chained, Ordered
<1> QED
  BY Zenon, <1>1, <1>2 DEF ChainInv, Chained, HeadOk, SegmentsVerify

LEMMA CrashChain ==
    ASSUME ChainInv, Crash
    PROVE  Chained(segs, active)' /\ ~log'.up
<1>1. /\ segs' = segs /\ ~log'.up /\ clock' = clock
      /\ \/ active = NoFile /\ active' = NoFile
         \/ active \in File /\ active' \in File /\ Survives(active', active)
  BY CrashFacts DEF ChainInv, AckInv, Crash
<1>2. PICK seed : seed = seedFromRotatedSegments(segs)
  OBVIOUS
<1>3. Linked(LinesOf(active), seed)
  BY <1>2 DEF ChainInv, Chained
<1>4. Linked(LinesOf(active'), seed)
  <2>1. CASE active' = active
    BY <1>3, <2>1
  <2>2. CASE active \in File /\ active' \in File /\ Survives(active', active)
    <3>1. PICK ls \in Seq(Line), ms \in Seq(Line) : ls = active.lines /\ ms = active'.lines
      BY <2>2 DEF File
    <3>2. LinesOf(active) = ls /\ LinesOf(active') = ms
      BY Zenon, <2>2, <3>1, AuditAssumption DEF LinesOf
    <3>3. Len(ms) <= Len(ls)
      BY SMTT(20), <2>2, <3>1, SequenceFacts DEF Survives, File
    <3>4. \A i \in 1 .. Len(ms) : /\ SameLink(ms[i], ls[i])
                                  /\ i < Len(ms) => ms[i].good = ls[i].good
      BY <2>2, <3>1 DEF Survives
    <3> QED
      BY Zenon, <1>3, <3>2, <3>3, <3>4, PrefixChain
  <2> QED
    BY <1>1, <2>1, <2>2
<1> QED
  BY Zenon, <1>1, <1>2, <1>4 DEF ChainInv, Chained, Ordered

LEMMA OpenChain ==
    ASSUME ChainInv, Open
    PROVE  Chained(segs, active)' /\ HeadOk(log, segs, active)'
<1>1. /\ Openable(segs, active) /\ UNCHANGED <<segs, clock>> /\ Shape(log, segs, active)
      /\ log' = Restored(segs, active) /\ active \in File \cup {NoFile}
      /\ active' = Created(active)
  BY DEF Open, Created, ChainInv, AckInv, Shape
<1>2. LinesOf(active') = LinesOf(active)
  BY Zenon, <1>1, EmptyFileFacts DEF LinesOf, Created
<1>3. PICK seed : seed = seedFromRotatedSegments(segs)
  OBVIOUS
<1>4. /\ log'.prevHash = IF HasLines(active) THEN LastHash(active) ELSE seed
      /\ log'.seq = IF HasLines(active) THEN LastLine(active).seq ELSE 0
  BY <1>1, <1>3, RestoredFacts
<1>5. ChainHead(LinesOf(active), seed, log'.prevHash, log'.seq)
  <2>1. CASE HasLines(active)
    BY Zenon, <1>1, <1>4, <2>1, LastIsLine DEF ChainHead, LastHash, Openable
  <2>2. CASE ~HasLines(active)
    BY Zenon, <1>1, <1>4, <2>2, LastIsLine DEF ChainHead
  <2> QED
    BY <2>1, <2>2
<1> QED
  BY ZenonT(30), <1>1, <1>2, <1>3, <1>5 DEF ChainInv, Chained, Ordered, HeadOk

LEMMA RepairChain ==
    ASSUME ChainInv, Repair
    PROVE  Chained(segs, active)' /\ ~log'.up
<1>1. /\ UNCHANGED <<log, segs, clock>> /\ ~log.up /\ active \in File /\ Whole(active)
  BY SMTT(20) DEF Repair, Repairable, ChainInv, AckInv, Shape
<1>2. /\ active' \in File /\ Len(active.lines) \in Nat /\ Len(active'.lines) \in Nat
      /\ Len(active'.lines) < Len(active.lines)
      /\ \A i \in 1 .. Len(active'.lines) : active'.lines[i] = active.lines[i]
  BY SMTT(20), <1>1, RepairFacts
<1>3. PICK ls \in Seq(Line), ms \in Seq(Line) : ls = active.lines /\ ms = active'.lines
  BY SMTT(20), <1>1, <1>2 DEF File
<1>4. LinesOf(active) = ls /\ LinesOf(active') = ms
  BY <1>1, <1>2, <1>3, AuditAssumption DEF LinesOf
<1>5. PICK seed : seed = seedFromRotatedSegments(segs)
  OBVIOUS
<1>6. Linked(ls, seed)
  BY SMTT(20), <1>4, <1>5 DEF ChainInv, Chained
<1>7. Len(ms) <= Len(ls)
  BY SMTT(20), <1>2, <1>3
<1>8. \A i \in 1 .. Len(ms) : /\ SameLink(ms[i], ls[i])
                              /\ i < Len(ms) => ms[i].good = ls[i].good
  BY SMTT(20), <1>2, <1>3 DEF SameLink
<1>9. Linked(ms, seed)
  BY <1>6, <1>7, <1>8, PrefixChain
<1> QED
  BY Zenon, <1>1, <1>4, <1>5, <1>9 DEF ChainInv, Chained, Ordered

LEMMA ChainInvInit == Init => ChainInv
<1> SUFFICES ASSUME Init PROVE ChainInv
  BY Zenon
<1>1. DOMAIN segs = {} /\ LinesOf(active) = <<>> /\ Len(<<>>) = 0
  BY ZenonT(30), EmptyFileFacts DEF Init, LinesOf
<1>2. Chained(segs, active)
  BY SMTT(20), <1>1 DEF Chained, Ordered, SegmentsVerify, Linked
<1>3. HeadOk(log, segs, active)
  BY <1>1 DEF Init, HeadOk, ChainHead, seedFromRotatedSegments
<1> QED
  BY <1>2, <1>3, AckInvInit DEF ChainInv

LEMMA ChainInvNext ==
    ASSUME "short" \notin Faults, ~ClockSteps, ChainInv, [Next]_vars
    PROVE  ChainInv'
<1>1. AckInv'
  BY AckInvNext DEF ChainInv
<1>2. ASSUME NEW p \in Appenders, doAppend(p) \/ AppendStep(p)
      PROVE  Chained(segs, active)' /\ (log'.up => HeadOk(log, segs, active)')
  BY ZenonT(30), <1>2, AppendChain, SyncChain DEF AppendStep
<1>3. CASE UNCHANGED vars
  BY Zenon, <1>1, <1>3 DEF vars, ChainInv, Chained, Ordered, HeadOk
<1>4. CASE Next
  <2>1. Chained(segs, active)' /\ (log'.up => HeadOk(log, segs, active)')
    BY Zenon, <1>2, <1>4, CloseChain, TickChain, CrashChain, OpenChain, RepairChain DEF Next
  <2> QED
    BY Zenon, <1>1, <2>1 DEF ChainInv
<1> QED
  BY <1>3, <1>4

(* One chain: the writer, the rotation, the restart and the repair agree   *)
(* with the verifier, so that VerifySegments accepts the files at every    *)
(* moment the log runs, after any number of crashes that tear the last     *)
(* line.  The clock has to go forward, for the names to tell the order of  *)
(* the segments.                                                           *)
THEOREM RunningChainVerifies ==
    "short" \notin Faults /\ ~ClockSteps => (Spec => []ChainVerifies)
<1>1. SUFFICES ASSUME "short" \notin Faults, ~ClockSteps PROVE Spec => []ChainVerifies
  OBVIOUS
<1>2. Init => ChainInv
  BY ChainInvInit
<1>3. ChainInv /\ [Next]_vars => ChainInv'
  BY ZenonT(30), <1>1, ChainInvNext
<1>4. ChainInv => ChainVerifies
  <2> SUFFICES ASSUME ChainInv, log.up PROVE VerifySegments(segs, active)
    BY DEF ChainVerifies
  <2>1. SegmentsVerify(segs) /\ active \in File \cup {NoFile}
    BY DEF ChainInv, Chained, AckInv, Shape
  <2>2. PICK ls, seed : ls = LinesOf(active) /\ seed = seedFromRotatedSegments(segs)
    OBVIOUS
  <2>3. Linked(ls, seed) /\ ChainHead(ls, seed, log.prevHash, log.seq) /\ Len(ls) \in Nat
    BY Zenon, <2>1, <2>2, LinesOfFacts DEF ChainInv, Chained, HeadOk
  <2>4. ASSUME HasLines(active) PROVE verify(active) /\ active.lines[1].prev = seed
    <3>1. active.lines = ls /\ Len(ls) > 0
      BY ZenonT(30), <2>1, <2>2, <2>4, LastIsLine
    <3>2. \A i \in 1 .. Len(ls) : ls[i].good
      BY SMTT(20), <2>3, <3>1 DEF Linked, ChainHead
    <3>3. verify(active)
      BY SMTT(20), <2>3, <3>1, <3>2 DEF verify, Linked
    <3> QED
      BY <2>3, <3>1, <3>3 DEF Linked
  <2> QED
    BY <2>1, <2>2, <2>4 DEF VerifySegments, SegmentsVerify, seedFromRotatedSegments
<1> QED
  BY <1>2, <1>3, <1>4, PTL DEF Spec

(* A stopped log starts again: restoreChain accepts what a crash left, or  *)
(* only the last line is malformed and a repair may cut it off.            *)
THEOREM StoppedIsRecoverable ==
    "short" \notin Faults /\ ~ClockSteps => (Spec => []Recoverable)
<1>1. SUFFICES ASSUME "short" \notin Faults, ~ClockSteps PROVE Spec => []Recoverable
  OBVIOUS
<1>2. Init => ChainInv
  BY ChainInvInit
<1>3. ChainInv /\ [Next]_vars => ChainInv'
  BY <1>1, ChainInvNext
<1>4. ChainInv => Recoverable
  <2> SUFFICES ASSUME ChainInv PROVE Openable(segs, active) \/ Repairable(active)
    BY SMTT(20) DEF Recoverable
  <2>1. /\ SegmentsVerify(segs) /\ active \in File \cup {NoFile} /\ Shape(log, segs, active)
        /\ Linked(LinesOf(active), seedFromRotatedSegments(segs))
    BY SMTT(20) DEF ChainInv, Chained, AckInv, Shape
  <2>2. CASE ~HasLines(active)
    <3>1. ASSUME DOMAIN segs # {}
          PROVE  HasLines(segs[Newest(segs)]) /\ segs[Newest(segs)].lines[1].good
      <4>1. Newest(segs) \in DOMAIN segs
        BY Zenon, <2>1, <3>1, NewestFacts DEF Last, Shape, Enumerated
      <4>2. PICK f \in File : f = segs[Newest(segs)] /\ HasLines(f) /\ verify(f)
        BY <2>1, <4>1 DEF SegmentsVerify, Shape
      <4>3. 1 \in 1 .. Len(f.lines)
        BY SMTT(20), <4>2, SequenceFacts DEF HasLines, File
      <4> QED
        BY Zenon, <4>2, <4>3 DEF verify
    <3> QED
      BY <2>2, <3>1 DEF Openable
  <2>3. CASE HasLines(active) /\ LastLine(active).good
    BY <2>3 DEF Openable
  <2>4. CASE HasLines(active) /\ ~LastLine(active).good
    <3>1. /\ active \in File /\ LinesOf(active) = active.lines /\ active # NoFile
          /\ Len(active.lines) \in Nat /\ Len(active.lines) > 0
      BY Zenon, <2>1, <2>4, LastIsLine, LinesOfFacts DEF HasLines
    <3>2. /\ \A i \in 1 .. Len(active.lines) : i < Len(active.lines) => active.lines[i].good
          /\ ~active.lines[Len(active.lines)].good
      BY Zenon, <2>1, <2>4, <3>1 DEF Linked, LastLine
    <3>3. ~middleCorruption(active)
      BY SMTT(20), <3>1, <3>2 DEF middleCorruption
    <3>4. CleanLines(active) < Len(active.lines)
      BY <2>1, <2>4, <3>1, CleanFacts DEF Shape
    <3> QED
      BY Zenon, <3>1, <3>3, <3>4 DEF Repairable
  <2> QED
    BY SMTT(20), <2>2, <2>3, <2>4
<1> QED
  BY <1>2, <1>3, <1>4, PTL DEF Spec
=============================================================================
