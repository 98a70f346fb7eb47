----------------------------- MODULE AuditFiles -----------------------------
(***************************************************************************)
(* The files of an audit log and what reads them: the verifier             *)
(* (internal/audit/verify.go), the start of the log (restoreChain) and     *)
(* `broker-ctl audit repair`.                                              *)
(*                                                                         *)
(* A line is a record, or bytes that do not parse.  Every record carries   *)
(* its own number n, and the hash of a line is that number, negated for a  *)
(* line that is not exactly a record: hashes are free of collisions.  The  *)
(* hash of nothing (genesis) is 0.  A line ends in its own newline, in one *)
(* that the next write put in front of itself, or in none.  A file keeps   *)
(* how many of its lines an fsync has made durable.                        *)
(***************************************************************************)
EXTENDS Integers, Sequences, Functions

CONSTANT NoFile

Line == [n : Nat, seq : Nat, prev : Int, good : BOOLEAN, nl : {"own", "lent", "none"}]
File == [lines : Seq(Line), durable : Nat]
EmptyFile == [lines |-> <<>>, durable |-> 0]

HashOf(line) == IF line.good THEN line.n ELSE -line.n
LastLine(f) == f.lines[Len(f.lines)]
LastHash(f) == HashOf(LastLine(f))

HasLines(f) == f # NoFile /\ Len(f.lines) > 0
-----------------------------------------------------------------------------
(* A rotated segment is named by its second and its same-second number;    *)
(* segmentOrder compares the two as numbers.                               *)
Names == Nat \X Nat
segmentOrder(a, b) == a[1] < b[1] \/ (a[1] = b[1] /\ a[2] < b[2])

(* rotatedSegmentPath: the first name of this second that is free.         *)
rotatedSegmentPath(segs, ts) ==
    LET used == {a[2] : a \in {b \in DOMAIN segs : b[1] = ts}}
    IN <<ts, CHOOSE k \in {0} \cup {j + 1 : j \in used} :
                k \notin used /\ \A j \in 0 .. (k - 1) : j \in used>>

Newest(segs) == CHOOSE a \in DOMAIN segs : \A b \in DOMAIN segs \ {a} : segmentOrder(b, a)

(* The names discoverSegments puts before a, and the one right before it.  *)
Earlier(segs, a) == {b \in DOMAIN segs : segmentOrder(b, a)}
Previous(segs, a) == Newest(Restrict(segs, Earlier(segs, a)))
-----------------------------------------------------------------------------
(* Verify on one file: no malformed line, consecutive seq, linked hashes.  *)
verify(f) ==
    \A i \in 1 .. Len(f.lines) :
        /\ f.lines[i].good
        /\ i > 1 => /\ f.lines[i].seq = f.lines[i - 1].seq + 1
                    /\ f.lines[i].prev = HashOf(f.lines[i - 1])

(* VerifySegments finds no error: the files verify, the first starts at    *)
(* genesis, and each links to the one before.  Only the active file may be *)
(* empty.                                                                  *)
VerifySegments(segs, active) ==
    /\ \A a \in DOMAIN segs :
          /\ HasLines(segs[a]) /\ verify(segs[a])
          /\ segs[a].lines[1].prev =
                IF Earlier(segs, a) = {} THEN 0 ELSE LastHash(segs[Previous(segs, a)])
    /\ HasLines(active) =>
          /\ verify(active)
          /\ active.lines[1].prev =
                IF DOMAIN segs = {} THEN 0 ELSE LastHash(segs[Newest(segs)])

(* restoreChain: whether the log may start, and the chain head it starts   *)
(* from.  An empty or absent active file is seeded from the newest         *)
(* segment, whose first line has to parse (FileBounds).                    *)
Openable(segs, active) ==
    IF HasLines(active) THEN LastLine(active).good
    ELSE DOMAIN segs # {} => HasLines(segs[Newest(segs)]) /\ segs[Newest(segs)].lines[1].good

seedFromRotatedSegments_Genesis(segs) == 0
seedFromRotatedSegments(segs) == IF DOMAIN segs = {} THEN 0 ELSE LastHash(segs[Newest(segs)])

CleanLines(f) ==
    LET bad == {i \in 1 .. Len(f.lines) : ~f.lines[i].good}
    IN IF bad = {} THEN Len(f.lines) ELSE (CHOOSE i \in bad : \A j \in bad : i <= j) - 1

middleCorruption_Any(f) == \E i \in 1 .. Len(f.lines) : ~f.lines[i].good
middleCorruption(f) == \E i, j \in 1 .. Len(f.lines) : i < j /\ ~f.lines[i].good /\ f.lines[j].good

Repairable(f) == f # NoFile /\ ~middleCorruption(f) /\ CleanLines(f) < Len(f.lines)
=============================================================================
