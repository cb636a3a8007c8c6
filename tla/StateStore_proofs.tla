--------------------------- MODULE StateStore_proofs ---------------------------
(***************************************************************************)
(* What a read of the state cache returns, for any ring, any keys and any   *)
(* number of writes: no completed write is missed but by the two losses     *)
(* that ReadsAreComplete names, and nothing is returned that was not        *)
(* written.                                                                *)
(*                                                                         *)
(* ReadsAreComplete speaks of the end of a read only.  What leads there is  *)
(* StoreInvariant: what the ring holds until it is reused (RingHolds), what *)
(* the snapshot keeps of the segments it stands for (SnapshotHolds), and    *)
(* how far the two scans are: a slot that a scan has passed is covered by   *)
(* its ops, or lost in a named way (CompactorHolds, ReaderHasHead).         *)
(***************************************************************************)
EXTENDS StateStore, FiniteSetTheorems, TLAPS

-------------------------------------------------------------------------------
(* The inductive invariant.                                                *)

\* What a read remembers of the snapshot it began with.
ScanFrom == [through : Nat, compacted : BOOLEAN, headCursor : Nat]

\* Every variable keeps its type.
StoreTypes ==
  /\ head \in Nat
  /\ epoch \in [Places -> Nat]
  /\ cursor \in [Places -> Nat]
  /\ slot \in [Places -> [Slots -> Op \cup {NoOp}]]
  /\ snap \in [entries : SUBSET Op, through : Nat, compacted : BOOLEAN, headCursor : Nat]
  /\ writer \in [pc : {"idle", "claim", "fill", "advance"}, at : Nat]
  /\ scan \in [Scanners -> [pc : {"idle", "head", "segment", "slots"}, from : ScanFrom,
                            h : Nat, i : Nat, j : Nat, n : Nat, ops : SUBSET Op]]
  /\ written \in SUBSET [key : StoreKeys, id : Nat, seg : Nat, at : Slots]
  /\ expected \in Nat
  /\ lapped \in SUBSET Nat
  /\ purged \in [StoreKeys -> Nat]

\* A scan inside a segment is at one of its slots.
ScansInRange ==
  \A a \in Scanners : scan[a].pc = "slots" => scan[a].j < scan[a].n /\ scan[a].n <= SegmentCap

\* The writes are numbered in order and no slot of a segment is written twice.
WrittenOnce ==
  /\ IsFiniteSet(written)
  /\ \A w \in written : w.seg <= head /\ 1 <= w.id /\ w.id <= Cardinality(written)
  /\ \A w, x \in written : w.seg = x.seg /\ w.at = x.at => w = x

\* A segment that the ring has not reused has its epoch, and holds its writes at
\* slots below its cursor.
RingHolds ==
  /\ \A i \in 0..head : i + RingSize > head => epoch[Place(i)] = i \div RingSize
  /\ \A w \in written : w.seg + RingSize > head =>
       /\ w.at < cursor[Place(w.seg)]
       /\ slot[Place(w.seg)][w.at] \in Op
       /\ slot[Place(w.seg)][w.at].key = w.key
       /\ slot[Place(w.seg)][w.at].id = w.id

\* The slot the writer has claimed is nobody's.
WriterApart ==
  writer.pc = "fill" =>
    /\ writer.at \in Slots
    /\ writer.at < cursor[Place(head)]
    /\ \A w \in written : w.seg = head => w.at # writer.at

\* A set of ops as Merge leaves it: one id per key.
Merged(ops) == \A o, q \in ops : o.key = q.key => o.id <= q.id

\* What a compaction owes a completed write.
Kept(w, ops) == Covered(w, ops) \/ w.seg \in lapped \/ <<w.seg, w.at>> \in unmerged

\* Whoever reads from a snapshot s on has lost no segment unnoticed.
LapsNoted(s) ==
  \A i \in Nat : i + RingSize <= head /\ (~s.compacted \/ i > s.through) => i \in lapped

\* The snapshot keeps the writes of the segments up to through; a slot of the last
\* one that was still empty is counted as unmerged.
SnapshotHolds ==
  /\ snap.through <= head
  /\ ~snap.compacted => snap.through = 0
  /\ Merged(snap.entries)
  /\ LapsNoted(snap)
  /\ snap.compacted =>
       /\ \A w \in written : w.seg <= snap.through => Kept(w, snap.entries)
       /\ \A s \in Slots :
            \/ <<snap.through, s>> \in unmerged
            \/ \E w \in written : w.seg = snap.through /\ w.at = s

\* The scan s has been past the slot of w.
Passed(s, w) == w.seg < s.i \/ (w.seg = s.i /\ w.at < s.j)

\* The slots the scan s is about to read are all that was written in the segment.
InSight(s, w) == s.pc = "slots" /\ w.seg = s.i => (w.at < s.n \/ w.seg \in lapped)

CompactorHolds ==
  LET s == scan["compactor"] IN
  s.pc # "idle" =>
    /\ s.pc \in {"segment", "slots"}
    /\ s.h <= head
    /\ snap.through <= s.h
    /\ snap.compacted => s.i > snap.through
    /\ Merged(s.ops)
    /\ \A w \in written : w.seg < s.h =>
         /\ Passed(s, w) => Kept(w, s.ops)
         /\ InSight(s, w)

\* The snapshot of the read does not stand for the write: it is in a later segment,
\* or in the head at or behind the cursor the snapshot recorded.
Fresh(s, w) ==
  \/ ~s.from.compacted
  \/ w.seg > s.from.through
  \/ /\ w.seg = s.from.through
     /\ s.from.through = s.h
     /\ w.at >= s.from.headCursor

\* A read from its beginning on: what its snapshot stood for is among its ops.
ReaderHasSnapshot ==
  LET s == scan["reader"] IN
  s.pc # "idle" =>
    /\ expected <= Cardinality(written)
    /\ ~s.from.compacted => s.from.through = 0
    /\ s.from.through <= head
    /\ Merged(s.ops)
    /\ LapsNoted(s.from)
    /\ \A w \in written :
         w.id <= expected /\ s.from.compacted /\ w.seg <= s.from.through => Kept(w, s.ops)

\* And once it has loaded the head: what it has passed is among its ops.
ReaderHasHead ==
  LET s == scan["reader"] IN
  s.pc \in {"segment", "slots"} =>
    /\ s.h <= head
    /\ s.from.through <= s.h
    /\ s.from.compacted /\ s.from.through = s.h /\ s.h + RingSize <= head => s.h \in lapped
    /\ \A w \in written : w.id <= expected =>
         /\ w.seg <= s.h
         /\ Fresh(s, w) =>
              /\ Passed(s, w) => Covered(w, s.ops) \/ w.seg \in lapped
              /\ InSight(s, w)

\* Inductive.
StoreInvariant ==
  /\ StoreTypes
  /\ ScansInRange
  /\ WrittenOnce
  /\ RingHolds
  /\ WriterApart
  /\ SnapshotHolds
  /\ CompactorHolds
  /\ ReaderHasSnapshot
  /\ ReaderHasHead

-------------------------------------------------------------------------------
(* Places of the ring, merging, and the largest of a few ids.               *)

\* A segment has a place in the ring.
LEMMA PlaceIn ==
  ASSUME NEW i \in Nat
  PROVE  Place(i) \in Places /\ i \div RingSize \in Nat
BY StoreAssumption DEF Place, Places

\* Two segments less than a ring apart have different places.
LEMMA PlacesApart ==
  ASSUME NEW i \in Nat, NEW k \in Nat, i < k, k < i + RingSize
  PROVE  Place(i) # Place(k)
<1> DEFINE a == i \div RingSize
           b == k \div RingSize
<1>1. RingSize \in Nat \ {0}
  BY StoreAssumption
<1>2. /\ a \in Int /\ b \in Int
      /\ i = (RingSize * a) + (i % RingSize)
      /\ k = (RingSize * b) + (k % RingSize)
  BY <1>1
<1>3. SUFFICES ASSUME i % RingSize = k % RingSize PROVE FALSE
  BY DEF Place
<1> HIDE DEF a, b
<1>4. PICK d \in Int : d = b - a
  BY <1>2
<1>5. RingSize * d = k - i
  BY <1>1, <1>2, <1>3, <1>4
<1>6. CASE d <= 0
  BY <1>1, <1>5, <1>6
<1>7. CASE d >= 1
  BY <1>1, <1>5, <1>7
<1> QED
  BY <1>4, <1>6, <1>7

\* Merge keeps ops, one id per key.
LEMMA MergeKeepsOps ==
  ASSUME NEW ops \in SUBSET Op
  PROVE  Merge(ops) \in SUBSET Op /\ Merged(Merge(ops))
BY DEF Merge, Merged, Op

\* Merging one more op into merged ops keeps, for each of them, its key with an id
\* as high.
LEMMA MergeKeepsIds ==
  ASSUME NEW ops \in SUBSET Op, Merged(ops), NEW y \in Op \cup {NoOp}, NEW o \in ops
  PROVE  \E q \in Merge(ops \cup ({y} \ {NoOp})) : q.key = o.key /\ q.id >= o.id
<1> DEFINE all == ops \cup ({y} \ {NoOp})
<1>1. all \in SUBSET Op
  OBVIOUS
<1>2. \A x \in all : x.id \in Nat
  BY <1>1, StoreAssumption DEF Op
<1>3. CASE y # NoOp /\ y.key = o.key /\ y.id > o.id
  <2>1. y \in all
    BY <1>3
  <2>2. \A x \in all : x.key = y.key => x.id <= y.id
    BY <1>2, <1>3, <2>1 DEF Merged
  <2> QED
    BY <1>2, <1>3, <2>1, <2>2 DEF Merge
<1>4. CASE ~(y # NoOp /\ y.key = o.key /\ y.id > o.id)
  <2>1. o \in all
    OBVIOUS
  <2>2. \A x \in all : x.key = o.key => x.id <= o.id
    BY <1>2, <1>4, <2>1 DEF Merged
  <2> QED
    BY <1>2, <2>1, <2>2 DEF Merge
<1> QED
  BY <1>3, <1>4

\* And for the op itself.
LEMMA MergeTakesOp ==
  ASSUME NEW ops \in SUBSET Op, Merged(ops), NEW y \in Op
  PROVE  \E q \in Merge(ops \cup ({y} \ {NoOp})) : q.key = y.key /\ q.id >= y.id
<1> DEFINE all == ops \cup ({y} \ {NoOp})
<1>1. y.id >= 1 /\ NoOp.id = 0 /\ \A x \in ops : x.id \in Nat
  BY StoreAssumption DEF Op, NoOp
<1>2. y \in all
  BY <1>1
<1>3. CASE \E o \in ops : o.key = y.key /\ o.id > y.id
  <2>1. PICK o \in ops : o.key = y.key /\ o.id > y.id
    BY <1>3
  <2>2. PICK q \in Merge(all) : q.key = o.key /\ q.id >= o.id
    BY MergeKeepsIds
  <2>3. q.id \in Nat /\ y.id \in Nat /\ o.id \in Nat
    BY StoreAssumption, <2>2 DEF Merge, Op
  <2> QED
    BY <2>1, <2>2, <2>3
<1>4. CASE ~\E o \in ops : o.key = y.key /\ o.id > y.id
  <2>1. y.id \in Nat /\ \A x \in all : x.id \in Nat
    BY StoreAssumption DEF Op
  <2>2. \A x \in all : x.key = y.key => x.id <= y.id
    BY <1>4, <2>1
  <2> QED
    BY <1>2, <2>1, <2>2 DEF Merge
<1> QED
  BY <1>3, <1>4

\* What covers a write still covers it after one more slot was merged.
LEMMA MergeCovers ==
  ASSUME NEW ops \in SUBSET Op, Merged(ops), NEW y \in Op \cup {NoOp}, NEW w,
         w.id \in Nat, Covered(w, ops)
  PROVE  Covered(w, Merge(ops \cup ({y} \ {NoOp})))
<1> DEFINE got == Merge(ops \cup ({y} \ {NoOp}))
<1>1. CASE purged[w.key] >= w.id
  BY <1>1 DEF Covered
<1>2. CASE \E o \in ops : o.key = w.key /\ o.id >= w.id
  <2>1. PICK o \in ops : o.key = w.key /\ o.id >= w.id
    BY <1>2
  <2>2. PICK q \in got : q.key = o.key /\ q.id >= o.id
    BY MergeKeepsIds
  <2>3. q.id \in Nat /\ o.id \in Nat
    BY <2>2, StoreAssumption DEF Merge, Op
  <2> QED
    BY <2>1, <2>2, <2>3 DEF Covered
<1> QED
  BY <1>1, <1>2 DEF Covered

\* The largest of two ids, given as a set.
LEMMA MaxOfTwo ==
  ASSUME NEW a \in Nat, NEW S \in SUBSET Nat, a \in S,
         \A x, y \in S : x = a \/ y = a \/ x = y
  PROVE  Max(S) \in S /\ \A x \in S : Max(S) >= x
<1>1. \E m \in S : \A x \in S : m >= x
  <2>1. CASE \E x \in S : x > a
    BY <2>1
  <2>2. CASE ~\E x \in S : x > a
    BY <2>2
  <2> QED
    BY <2>1, <2>2
<1> QED
  BY <1>1 DEF Max

-------------------------------------------------------------------------------
(* Types.                                                                  *)

\* The types, one lemma per action or group of actions.
LEMMA TypesInit ==
  StoreInit => StoreTypes
BY StoreAssumption DEF StoreInit, StoreTypes, EmptySnapshot, WriterIdle, ScanIdle, Covers, ScanFrom,
   Scanners

LEMMA TypesClaim ==
  StoreTypes /\ Claim => StoreTypes'
<1> SUFFICES ASSUME StoreTypes, Claim PROVE StoreTypes'
  OBVIOUS
<1>1. Place(head) \in Places
  BY PlaceIn DEF StoreTypes
<1> QED
  BY <1>1 DEF StoreTypes, Claim, writerRest

LEMMA TypesFill ==
  ASSUME StoreInvariant, NEW k \in StoreKeys, NEW t \in BOOLEAN, Fill(k, t)
  PROVE  StoreTypes'
<1> DEFINE op == [key |-> k, id |-> NextId, tomb |-> t]
<1>1. StoreTypes /\ WriterApart /\ WrittenOnce
  BY DEF StoreInvariant
<1>2. Place(head) \in Places
  BY <1>1, PlaceIn DEF StoreTypes
<1>3. NextId \in Nat /\ NextId \in 1..MaxOps
  BY <1>1, FS_CardinalityType, StoreAssumption DEF WrittenOnce, NextId, Fill
<1>4. op \in Op
  BY <1>3 DEF Op
<1>5. writer.at \in Slots
  BY <1>1 DEF Fill, WriterApart
<1> HIDE DEF op
<1>6. slot' = [slot EXCEPT ![Place(head)][writer.at] = op]
  BY DEF Fill, op
<1>7. slot' \in [Places -> [Slots -> Op \cup {NoOp}]]
  BY <1>1, <1>2, <1>4, <1>5, <1>6 DEF StoreTypes
<1>8. written' \in SUBSET [key : StoreKeys, id : Nat, seg : Nat, at : Slots]
  BY <1>1, <1>3, <1>5 DEF StoreTypes, Fill
<1>9. writer' \in [pc : {"idle", "claim", "fill", "advance"}, at : Nat]
  BY DEF Fill, WriterIdle
<1> QED
  BY <1>1, <1>7, <1>8, <1>9 DEF StoreTypes, Fill, writerRest

LEMMA TypesAdvance ==
  StoreTypes /\ Advance => StoreTypes'
<1> SUFFICES ASSUME StoreTypes, Advance PROVE StoreTypes'
  OBVIOUS
<1>1. head + 1 \in Nat
  BY DEF StoreTypes
<1>2. Place(head + 1) \in Places /\ (head + 1) \div RingSize \in Nat
  BY <1>1, PlaceIn
<1>3. Lapped(head + 1) \in SUBSET Nat
  BY <1>1, StoreAssumption DEF Lapped
<1>4. /\ epoch' \in [Places -> Nat]
      /\ cursor' \in [Places -> Nat]
      /\ lapped' \in SUBSET Nat
      /\ head' \in Nat
  BY <1>1, <1>2, <1>3 DEF StoreTypes, Advance
<1>5. writer' \in [pc : {"idle", "claim", "fill", "advance"}, at : Nat]
  BY DEF StoreTypes, Advance
<1> QED
  BY <1>4, <1>5 DEF StoreTypes, Advance, writerRest

\* The record of one scan, as in StoreTypes.
ScanRecord == [pc : {"idle", "head", "segment", "slots"}, from : ScanFrom,
               h : Nat, i : Nat, j : Nat, n : Nat, ops : SUBSET Op]

\* The updates a scan makes to its record keep its type.
LEMMA RecordUpdates ==
  ASSUME NEW s \in ScanRecord, NEW x \in Nat, NEW got \in SUBSET Op
  PROVE  /\ [s EXCEPT !.pc = "slots", !.n = x] \in ScanRecord
         /\ [s EXCEPT !.i = x, !.j = 0] \in ScanRecord
         /\ [s EXCEPT !.j = x, !.ops = got] \in ScanRecord
         /\ [s EXCEPT !.pc = "segment", !.i = x, !.j = 0, !.n = 0, !.ops = got]
              \in ScanRecord
BY DEF ScanRecord

LEMMA RecordSteps ==
  ASSUME NEW s \in ScanRecord, NEW m \in Nat, NEW got \in SUBSET Op
  PROVE  /\ [s EXCEPT !.pc = "slots", !.n = m] \in ScanRecord
         /\ [s EXCEPT !.i = s.i + 1, !.j = 0] \in ScanRecord
         /\ [s EXCEPT !.j = s.j + 1, !.ops = got] \in ScanRecord
         /\ [s EXCEPT !.pc = "segment", !.i = s.i + 1, !.j = 0, !.n = 0, !.ops = got]
              \in ScanRecord
<1>1. s.i + 1 \in Nat /\ s.j + 1 \in Nat
  BY DEF ScanRecord
<1> QED
  BY <1>1, RecordUpdates

\* A cursor is cut at the segment size; a slot below the one is below the other.
LEMMA CapIn ==
  ASSUME NEW c \in Nat
  PROVE  CapAt(c) \in Nat /\ CapAt(c) <= c /\ \A s \in Slots : s < c => s < CapAt(c)
BY StoreAssumption DEF CapAt, Slots

\* What a step of a scan does, by the part of the segment loop it is in.
LEMMA SegmentStep ==
  ASSUME StoreTypes, NEW a \in Scanners, ScanSegment(a)
  PROVE  /\ scan[a] \in ScanRecord
         /\ scan'[a] \in ScanRecord
         /\ scan' = [scan EXCEPT ![a] = scan'[a]]
         /\ scan[a].pc = "segment"
         /\ scan[a].i <= scan[a].h
         /\ LET s == scan[a]
                n == CapAt(cursor[Place(s.i)])
            IN  scan'[a] = IF epoch[Place(s.i)] = s.i \div RingSize /\ s.j < n
                           THEN [s EXCEPT !.pc = "slots", !.n = n]
                           ELSE [s EXCEPT !.i = s.i + 1, !.j = 0]
<1> DEFINE s == scan[a]
           n == CapAt(cursor[Place(s.i)])
           t == IF epoch[Place(s.i)] = s.i \div RingSize /\ s.j < n
                THEN [s EXCEPT !.pc = "slots", !.n = n]
                ELSE [s EXCEPT !.i = s.i + 1, !.j = 0]
<1>1. s \in ScanRecord
  BY DEF StoreTypes, ScanRecord
<1>2. n \in Nat
  BY <1>1, PlaceIn, CapIn DEF StoreTypes, ScanRecord
<1>3. scan' = [scan EXCEPT ![a] = t]
  BY DEF ScanSegment
<1> HIDE DEF n
<1>4. t \in ScanRecord
  BY <1>1, <1>2, RecordSteps
<1> HIDE DEF t
<1>5. scan'[a] = t
  BY <1>3 DEF StoreTypes
<1>6. scan[a].pc = "segment" /\ scan[a].i <= scan[a].h
  BY DEF ScanSegment
<1> QED
  BY <1>1, <1>3, <1>4, <1>5, <1>6 DEF t, n

\* What a step of a scan does when it reads a slot.
LEMMA SlotStep ==
  ASSUME StoreTypes, ScansInRange, NEW a \in Scanners, ScanSlot(a)
  PROVE  /\ scan[a] \in ScanRecord
         /\ scan'[a] \in ScanRecord
         /\ scan' = [scan EXCEPT ![a] = scan'[a]]
         /\ scan[a].pc = "slots"
         /\ slot[Place(scan[a].i)][scan[a].j] \in Op \cup {NoOp}
         /\ LET s == scan[a]
                got == Merge(s.ops \cup ({slot[Place(s.i)][s.j]} \ {NoOp}))
            IN  scan'[a] = IF s.j + 1 < s.n
                           THEN [s EXCEPT !.j = s.j + 1, !.ops = got]
                           ELSE [s EXCEPT !.pc = "segment", !.i = s.i + 1, !.j = 0, !.n = 0,
                                          !.ops = got]
<1> DEFINE s == scan[a]
           y == slot[Place(s.i)][s.j]
           got == Merge(s.ops \cup ({y} \ {NoOp}))
           t == IF s.j + 1 < s.n
                THEN [s EXCEPT !.j = s.j + 1, !.ops = got]
                ELSE [s EXCEPT !.pc = "segment", !.i = s.i + 1, !.j = 0, !.n = 0, !.ops = got]
<1>1. s \in ScanRecord
  BY DEF StoreTypes, ScanRecord
<1>2. s.j \in Slots
  BY <1>1, StoreAssumption DEF ScanSlot, ScansInRange, Slots, ScanRecord
<1>3. y \in Op \cup {NoOp}
  BY <1>1, <1>2, PlaceIn DEF StoreTypes, ScanRecord
<1>4. got \in SUBSET Op
  BY <1>1, <1>3 DEF Merge, ScanRecord
<1>5. scan' = [scan EXCEPT ![a] = t]
  BY DEF ScanSlot
<1> HIDE DEF got
<1>6. t \in ScanRecord
  BY <1>1, <1>4, RecordSteps
<1> HIDE DEF t
<1>7. scan'[a] = t
  BY <1>5 DEF StoreTypes
<1>8. scan[a].pc = "slots"
  BY DEF ScanSlot
<1> QED
  BY <1>1, <1>3, <1>5, <1>6, <1>7, <1>8 DEF t, got

\* An idle scan has empty hands.
LEMMA IdleRecord ==
  ScanIdle \in ScanRecord /\ ScanIdle.pc = "idle" /\ ScanIdle.j = 0
BY DEF ScanIdle, ScanRecord, ScanFrom, Covers, EmptySnapshot

\* A compaction begins at the first segment behind the snapshot, with its entries.
LEMMA CompactBeginStep ==
  ASSUME StoreTypes, CompactBegin
  PROVE  /\ StoreTypes'
         /\ scan'["reader"] = scan["reader"]
         /\ LET t == scan'["compactor"] IN
            t.pc = "segment" /\ t.h = head /\ t.i = FirstSegment(snap) /\ t.j = 0
            /\ t.ops = snap.entries
<1>1. PICK s \in ScanRecord : s = ScanIdle /\ s.j = 0
  BY IdleRecord
<1>2. PICK x \in Nat : x = head
  BY DEF StoreTypes
<1>3. PICK y \in Nat : y = FirstSegment(snap)
  BY DEF StoreTypes, FirstSegment
<1>4. PICK got \in SUBSET Op : got = snap.entries
  BY DEF StoreTypes
<1> DEFINE t == [s EXCEPT !.pc = "segment", !.h = x, !.i = y, !.ops = got]
<1>5. /\ t \in ScanRecord
      /\ t.pc = "segment" /\ t.h = x /\ t.i = y /\ t.j = s.j /\ t.ops = got
  BY DEF ScanRecord
<1>6. scan' = [scan EXCEPT !["compactor"] = t]
  BY <1>1, <1>2, <1>3, <1>4 DEF CompactBegin
<1> HIDE DEF t
<1>7. scan'["compactor"] = t /\ scan'["reader"] = scan["reader"]
  BY <1>6 DEF StoreTypes, Scanners
<1>8. scan' \in [Scanners -> ScanRecord]
  BY <1>5, <1>6 DEF StoreTypes, ScanRecord
<1>9. StoreTypes'
  BY <1>8 DEF StoreTypes, CompactBegin, logVars, historyVars, ScanRecord
<1> QED
  BY <1>1, <1>2, <1>3, <1>4, <1>5, <1>7, <1>9

\* A read begins with the entries of the snapshot, and expects all that is written.
LEMMA ReadBeginStep ==
  ASSUME StoreTypes, WrittenOnce, ReadBegin
  PROVE  /\ StoreTypes'
         /\ scan'["compactor"] = scan["compactor"]
         /\ LET t == scan'["reader"] IN
            /\ t.pc = "head"
            /\ t.from.through = snap.through
            /\ t.from.compacted = snap.compacted
            /\ t.ops = snap.entries
         /\ expected' = Cardinality(written)
<1>1. PICK s \in ScanRecord : s = ScanIdle
  BY IdleRecord
<1>2. PICK f \in ScanFrom : f = Covers(snap)
  BY DEF StoreTypes, Covers, ScanFrom
<1>3. PICK got \in SUBSET Op : got = snap.entries
  BY DEF StoreTypes
<1> DEFINE t == [s EXCEPT !.pc = "head", !.from = f, !.ops = got]
<1>4. t \in ScanRecord /\ t.pc = "head" /\ t.from = f /\ t.ops = got
  BY DEF ScanRecord
<1>5. scan' = [scan EXCEPT !["reader"] = t]
  BY <1>1, <1>2, <1>3 DEF ReadBegin
<1> HIDE DEF t
<1>6. scan'["reader"] = t /\ scan'["compactor"] = scan["compactor"]
  BY <1>5 DEF StoreTypes, Scanners
<1>7. scan' \in [Scanners -> ScanRecord]
  BY <1>4, <1>5 DEF StoreTypes, ScanRecord
<1>8. expected' = Cardinality(written) /\ expected' \in Nat
  BY FS_CardinalityType DEF ReadBegin, WrittenOnce
<1>9. StoreTypes'
  BY <1>7, <1>8 DEF StoreTypes, ReadBegin, logVars, ScanRecord
<1>10. f.through = snap.through /\ f.compacted = snap.compacted
  BY <1>2 DEF Covers
<1> QED
  BY <1>3, <1>4, <1>6, <1>8, <1>9, <1>10

\* A read loads the head, and starts at it if the snapshot covers it.
LEMMA ReadHeadStep ==
  ASSUME StoreTypes, ReadHead
  PROVE  /\ StoreTypes'
         /\ scan'["compactor"] = scan["compactor"]
         /\ LET s == scan["reader"]
                t == scan'["reader"]
                covered == s.from.compacted /\ s.from.through = head
            IN
            /\ s.pc = "head"
            /\ t.pc = "segment"
            /\ t.from = s.from
            /\ t.h = head
            /\ t.i = IF covered THEN head ELSE FirstSegment(s.from)
            /\ t.j = IF covered THEN s.from.headCursor ELSE 0
            /\ t.ops = s.ops
<1> DEFINE s == scan["reader"]
           covered == s.from.compacted /\ s.from.through = head
           i == IF covered THEN head ELSE FirstSegment(s.from)
           j == IF covered THEN s.from.headCursor ELSE 0
           t == [s EXCEPT !.pc = "segment", !.h = head, !.i = i, !.j = j]
<1>1. s \in ScanRecord
  BY DEF StoreTypes, ScanRecord, Scanners
<1>2. s.from.through \in Nat /\ s.from.headCursor \in Nat /\ head \in Nat
  BY <1>1 DEF ScanRecord, ScanFrom, StoreTypes
<1>3. i \in Nat /\ j \in Nat
  BY <1>2 DEF FirstSegment
<1>4. scan' = [scan EXCEPT !["reader"] = t] /\ s.pc = "head"
  BY DEF ReadHead
<1> HIDE DEF s, i, j
<1>5. t \in ScanRecord
  BY <1>1, <1>2, <1>3 DEF ScanRecord
<1>6. t.pc = "segment" /\ t.from = s.from /\ t.h = head /\ t.i = i /\ t.j = j /\ t.ops = s.ops
  BY <1>1 DEF ScanRecord
<1> HIDE DEF t
<1>7. scan'["reader"] = t /\ scan'["compactor"] = scan["compactor"]
  BY <1>4 DEF StoreTypes, Scanners
<1>8. scan' \in [Scanners -> ScanRecord]
  BY <1>4, <1>5 DEF StoreTypes, ScanRecord
<1>9. StoreTypes'
  BY <1>8 DEF StoreTypes, ReadHead, logVars, historyVars, ScanRecord
<1> QED
  BY <1>4, <1>6, <1>7, <1>9 DEF s, i, j

\* Either scan ends.
LEMMA ScanEnds ==
  ASSUME StoreTypes, NEW a \in Scanners, scan' = [scan EXCEPT ![a] = ScanIdle]
  PROVE  /\ scan' \in [Scanners -> ScanRecord]
         /\ scan'[a].pc = "idle"
         /\ \A b \in Scanners : b # a => scan'[b] = scan[b]
<1> QED
  BY IdleRecord DEF StoreTypes, ScanRecord

\* A read that returns is idle.
LEMMA ReadReturnStep ==
  ASSUME StoreTypes, ReadReturn
  PROVE  /\ StoreTypes'
         /\ scan'["compactor"] = scan["compactor"]
         /\ scan'["reader"].pc = "idle"
<1>1. /\ scan' = [scan EXCEPT !["reader"] = ScanIdle]
      /\ "reader" \in Scanners /\ "compactor" \in Scanners
  BY DEF ReadReturn, Scanners
<1>2. /\ scan' \in [Scanners -> ScanRecord]
      /\ scan'["compactor"] = scan["compactor"]
      /\ scan'["reader"].pc = "idle"
  BY <1>1, ScanEnds
<1> QED
  BY <1>2 DEF StoreTypes, ReadReturn, logVars, ScanRecord

\* The ops a compaction purges, and the id it remembers for their key.
LEMMA PurgeStep ==
  ASSUME StoreTypes, NEW cutoff, CompactPublish(cutoff), Merged(scan["compactor"].ops)
  PROVE  /\ purged' \in [StoreKeys -> Nat]
         /\ \A k \in StoreKeys : purged'[k] >= purged[k]
         /\ \A o \in scan["compactor"].ops \ snap'.entries : purged'[o.key] >= o.id
<1> DEFINE s == scan["compactor"]
           expired == {o \in s.ops : o.tomb /\ o.id <= cutoff}
           ids(k) == {purged[k]} \cup {o.id : o \in {x \in expired : x.key = k}}
<1>1. s.ops \in SUBSET Op
  BY DEF StoreTypes, Scanners
<1>2. \A o \in s.ops : o.id \in Nat /\ o.key \in StoreKeys
  BY <1>1, StoreAssumption DEF Op
<1>3. purged' = [k \in StoreKeys |-> Max(ids(k))] /\ snap'.entries = s.ops \ expired
  BY DEF CompactPublish
<1>4. ASSUME NEW k \in StoreKeys
      PROVE  /\ Max(ids(k)) \in Nat
             /\ Max(ids(k)) >= purged[k]
             /\ \A o \in expired : o.key = k => Max(ids(k)) >= o.id
  <2>1. purged[k] \in Nat
    BY DEF StoreTypes
  <2>2. ids(k) \in SUBSET Nat /\ purged[k] \in ids(k)
    BY <1>2, <2>1
  <2>3. \A x, y \in ids(k) : x = purged[k] \/ y = purged[k] \/ x = y
    <3> SUFFICES ASSUME NEW x \in ids(k), NEW y \in ids(k), x # purged[k], y # purged[k]
                 PROVE  x = y
      OBVIOUS
    <3>1. PICK o \in s.ops : o.key = k /\ o.id = x
      OBVIOUS
    <3>2. PICK q \in s.ops : q.key = k /\ q.id = y
      OBVIOUS
    <3> QED
      BY <1>2, <3>1, <3>2 DEF Merged
  <2> HIDE DEF ids
  <2>4. Max(ids(k)) \in ids(k) /\ \A x \in ids(k) : Max(ids(k)) >= x
    BY <2>1, <2>2, <2>3, MaxOfTwo
  <2>5. \A o \in expired : o.key = k => o.id \in ids(k)
    BY DEF ids
  <2> QED
    BY <2>2, <2>4, <2>5
<1> HIDE DEF ids, expired, s
<1>5. \A k \in StoreKeys : purged'[k] = Max(ids(k))
  BY <1>3
<1>6. \A o \in s.ops : o \notin snap'.entries => o \in expired
  BY <1>3
<1> QED
  BY <1>2, <1>3, <1>4, <1>5, <1>6 DEF s

\* A compaction publishes a part of what it has merged, up to its head.
LEMMA CompactPublishStep ==
  ASSUME StoreTypes, NEW cutoff, CompactPublish(cutoff), Merged(scan["compactor"].ops)
  PROVE  /\ StoreTypes'
         /\ scan'["reader"] = scan["reader"]
         /\ scan'["compactor"].pc = "idle"
         /\ LET s == scan["compactor"] IN
            /\ s.pc = "segment"
            /\ s.i > s.h
            /\ snap'.through = s.h
            /\ snap'.compacted
            /\ snap'.entries \in SUBSET s.ops
<1> DEFINE s == scan["compactor"]
           expired == {o \in s.ops : o.tomb /\ o.id <= cutoff}
<1>1. s \in ScanRecord
  BY DEF StoreTypes, ScanRecord, Scanners
<1>2. CapAt(cursor[Place(s.h)]) \in Nat
  BY <1>1, PlaceIn, CapIn DEF ScanRecord, StoreTypes
<1>3. snap' = [entries |-> s.ops \ expired, through |-> s.h, compacted |-> TRUE,
               headCursor |-> CapAt(cursor[Place(s.h)])]
  BY DEF CompactPublish
<1> HIDE DEF expired
<1>4. /\ snap' \in [entries : SUBSET Op, through : Nat, compacted : BOOLEAN, headCursor : Nat]
      /\ snap'.through = s.h
      /\ snap'.compacted
      /\ snap'.entries \in SUBSET s.ops
  BY <1>1, <1>2, <1>3 DEF ScanRecord
<1>5. /\ scan' = [scan EXCEPT !["compactor"] = ScanIdle]
      /\ "reader" \in Scanners /\ "compactor" \in Scanners
  BY DEF CompactPublish, Scanners
<1>6. /\ scan' \in [Scanners -> ScanRecord]
      /\ scan'["reader"] = scan["reader"]
      /\ scan'["compactor"].pc = "idle"
  BY <1>5, ScanEnds
<1>7. purged' \in [StoreKeys -> Nat]
  BY PurgeStep
<1>8. StoreTypes'
  BY <1>4, <1>6, <1>7 DEF StoreTypes, CompactPublish, logVars, ScanRecord
<1>9. s.pc = "segment" /\ s.i > s.h
  BY DEF CompactPublish
<1> QED
  BY <1>4, <1>6, <1>8, <1>9

-------------------------------------------------------------------------------
(* The writer's steps.                                                     *)

\* What a scan has stays covered.
LEMMA CoveredStays ==
  ASSUME StoreTypes, StoreTypes', NEW w, w.key \in StoreKeys, w.id \in Nat, NEW ops,
         \A k \in StoreKeys : purged'[k] >= purged[k],
         Covered(w, ops)
  PROVE  Covered(w, ops)'
BY DEF Covered, StoreTypes

\* What a compaction owes stays accounted for.
LEMMA KeptStays ==
  ASSUME StoreTypes, StoreTypes', NEW w, w.key \in StoreKeys, w.id \in Nat, NEW ops,
         \A k \in StoreKeys : purged'[k] >= purged[k],
         lapped \subseteq lapped', unmerged \subseteq unmerged',
         Kept(w, ops)
  PROVE  Kept(w, ops)'
BY CoveredStays DEF Kept

\* A claim raises a cursor, and what it claims is above every write of the head.
LEMMA RingClaim ==
  ASSUME StoreInvariant, Claim
  PROVE  WrittenOnce' /\ RingHolds' /\ WriterApart'
<1> USE DEF StoreInvariant
<1>1. Place(head) \in Places /\ \A i \in Nat : Place(i) \in Places
  BY PlaceIn DEF StoreTypes
<1>2. WrittenOnce'
  BY DEF Claim, WrittenOnce
<1>3. \A p \in Places : cursor'[p] >= cursor[p] /\ cursor'[p] \in Nat
  BY DEF Claim, StoreTypes
<1>4. RingHolds'
  <2>1. \A i \in 0..head : i + RingSize > head => epoch[Place(i)] = i \div RingSize
    BY DEF RingHolds
  <2>2. ASSUME NEW w \in written, w.seg + RingSize > head
        PROVE  w.at < cursor'[Place(w.seg)]
    <3>1. w.at < cursor[Place(w.seg)]
      BY <2>2 DEF RingHolds
    <3>2. w.at \in Nat /\ w.seg \in Nat
      BY DEF StoreTypes, Slots
    <3>3. Place(w.seg) \in Places
      BY <1>1, <3>2
    <3> QED
      BY <1>3, <3>1, <3>2, <3>3 DEF StoreTypes
  <2> QED
    BY <2>1, <2>2 DEF RingHolds, Claim, Place
<1>5. WriterApart'
  <2> SUFFICES ASSUME writer'.pc = "fill"
               PROVE  /\ writer'.at \in Slots
                      /\ writer'.at < cursor'[Place(head)]
                      /\ \A w \in written : w.seg = head => w.at # writer'.at
    BY DEF WriterApart, Claim, Place
  <2>1. cursor[Place(head)] < SegmentCap /\ writer'.at = cursor[Place(head)]
    BY DEF Claim
  <2>2. cursor[Place(head)] \in Nat /\ cursor'[Place(head)] = cursor[Place(head)] + 1
    BY <1>1 DEF StoreTypes, Claim
  <2>3. \A w \in written : w.seg = head => w.at < cursor[Place(head)]
    <3> SUFFICES ASSUME NEW w \in written, w.seg = head PROVE w.at < cursor[Place(head)]
      OBVIOUS
    <3>1. w.seg + RingSize > head
      BY StoreAssumption DEF StoreTypes
    <3> QED
      BY <3>1 DEF RingHolds
  <2>4. \A w \in written : w.at \in Nat
    BY DEF StoreTypes, Slots
  <2> QED
    BY <2>1, <2>2, <2>3, <2>4, StoreAssumption DEF Slots
<1> QED
  BY <1>2, <1>4, <1>5

\* A filled slot was nobody's, and no other segment of the ring has its place.
LEMMA RingFill ==
  ASSUME StoreInvariant, NEW k \in StoreKeys, NEW t \in BOOLEAN, Fill(k, t)
  PROVE  /\ WrittenOnce' /\ RingHolds' /\ WriterApart'
         /\ Cardinality(written') = Cardinality(written) + 1
         /\ written' = written \cup
              {[key |-> k, id |-> Cardinality(written) + 1, seg |-> head, at |-> writer.at]}
<1> USE DEF StoreInvariant
<1> DEFINE new == [key |-> k, id |-> Cardinality(written) + 1, seg |-> head, at |-> writer.at]
           op == [key |-> k, id |-> NextId, tomb |-> t]
<1>1. /\ writer.at \in Slots
      /\ writer.at < cursor[Place(head)]
      /\ \A w \in written : w.seg = head => w.at # writer.at
  BY DEF Fill, WriterApart
<1>2. written' = written \cup {new}
  BY DEF Fill, NextId
<1>3. Cardinality(written) \in Nat
  BY FS_CardinalityType DEF WrittenOnce
<1>4. new \notin written
  BY <1>1
<1>5. IsFiniteSet(written') /\ Cardinality(written') = Cardinality(written) + 1
  BY <1>2, <1>4, FS_AddElement DEF WrittenOnce
<1>6. WrittenOnce'
  <2>1. ASSUME NEW w \in written'
        PROVE  w.seg <= head /\ 1 <= w.id /\ w.id <= Cardinality(written) + 1
    <3>1. CASE w \in written
      BY <1>3, <3>1 DEF WrittenOnce, StoreTypes
    <3>2. CASE w = new
      BY <1>3, <3>2 DEF StoreTypes
    <3> QED
      BY <1>2, <3>1, <3>2
  <2>2. ASSUME NEW w \in written', NEW x \in written', w.seg = x.seg, w.at = x.at
        PROVE  w = x
    <3>1. CASE w \in written /\ x \in written
      BY <2>2, <3>1 DEF WrittenOnce
    <3>2. CASE w \in written /\ x = new
      BY <1>1, <2>2, <3>2
    <3>3. CASE w = new /\ x \in written
      BY <1>1, <2>2, <3>3
    <3> QED
      BY <1>2, <3>1, <3>2, <3>3
  <2>3. head' = head
    BY DEF Fill
  <2> QED
    BY <1>5, <2>1, <2>2, <2>3 DEF WrittenOnce
<1>7. RingHolds'
  <2>1. Place(head) \in Places /\ head \in Nat
    BY PlaceIn DEF StoreTypes
  <2>2. op \in Op /\ op.key = k /\ op.id = Cardinality(written) + 1
    BY <1>3 DEF Fill, NextId, Op
  <2>3. slot' = [slot EXCEPT ![Place(head)][writer.at] = op]
    BY DEF Fill
  <2> HIDE DEF op
  <2>4. slot'[Place(head)][writer.at] = op
    BY <1>1, <2>1, <2>3 DEF StoreTypes
  <2>5. ASSUME NEW w \in written', w.seg + RingSize > head
        PROVE  /\ w.at < cursor[Place(w.seg)]
               /\ slot'[Place(w.seg)][w.at] \in Op
               /\ slot'[Place(w.seg)][w.at].key = w.key
               /\ slot'[Place(w.seg)][w.at].id = w.id
    <3>1. CASE w = new
      BY <1>1, <2>2, <2>4, <3>1
    <3>2. CASE w \in written
      <4>1. /\ w.at < cursor[Place(w.seg)]
            /\ slot[Place(w.seg)][w.at] \in Op
            /\ slot[Place(w.seg)][w.at].key = w.key
            /\ slot[Place(w.seg)][w.at].id = w.id
        BY <2>5, <3>2 DEF RingHolds
      <4>2. w.seg \in Nat /\ w.seg <= head /\ w.at \in Slots
        BY <3>2 DEF WrittenOnce, StoreTypes
      <4>3. Place(w.seg) # Place(head) \/ w.at # writer.at
        <5>1. CASE w.seg = head
          BY <1>1, <3>2, <5>1
        <5>2. CASE w.seg < head
          BY <2>1, <2>5, <4>2, <5>2, PlacesApart
        <5> QED
          BY <2>1, <4>2, <5>1, <5>2
      <4>4. Place(w.seg) \in Places
        BY <4>2, PlaceIn
      <4>5. slot'[Place(w.seg)][w.at] = slot[Place(w.seg)][w.at]
        BY <1>1, <2>1, <2>3, <4>2, <4>3, <4>4 DEF StoreTypes
      <4> QED
        BY <4>1, <4>5
    <3> QED
      BY <1>2, <3>1, <3>2
  <2>6. head' = head /\ epoch' = epoch /\ cursor' = cursor
    BY DEF Fill
  <2>7. \A i \in 0..head : i + RingSize > head => epoch[Place(i)] = i \div RingSize
    BY DEF RingHolds
  <2> QED
    BY <2>5, <2>6, <2>7 DEF RingHolds, Place
<1>8. WriterApart'
  BY DEF WriterApart, Fill, WriterIdle
<1> QED
  BY <1>2, <1>5, <1>6, <1>7, <1>8

\* The next segment takes the place of the one a ring behind it, of no other.
LEMMA RingAdvance ==
  ASSUME StoreInvariant, Advance
  PROVE  WrittenOnce' /\ RingHolds' /\ WriterApart'
<1> USE DEF StoreInvariant
<1>1. head \in Nat /\ head' = head + 1 /\ written' = written /\ slot' = slot
  BY DEF StoreTypes, Advance
<1>2. Place(head + 1) \in Places
  BY <1>1, PlaceIn
<1>3. /\ epoch' = [epoch EXCEPT ![Place(head + 1)] = (head + 1) \div RingSize]
      /\ cursor' = [cursor EXCEPT ![Place(head + 1)] = 0]
  BY DEF Advance
<1>4. ASSUME NEW i \in 0..head, i + RingSize > head + 1
      PROVE  /\ Place(i) \in Places
             /\ epoch'[Place(i)] = epoch[Place(i)]
             /\ cursor'[Place(i)] = cursor[Place(i)]
             /\ i + RingSize > head
  <2>1. i \in Nat /\ head + 1 \in Nat /\ i < head + 1 /\ RingSize \in Nat
    BY <1>1, StoreAssumption
  <2>2. Place(i) # Place(head + 1)
    BY <1>4, <2>1, PlacesApart
  <2>3. Place(i) \in Places
    BY <2>1, PlaceIn
  <2> QED
    BY <1>1, <1>2, <1>3, <1>4, <2>1, <2>2, <2>3 DEF StoreTypes
<1>5. WrittenOnce'
  BY <1>1 DEF WrittenOnce, StoreTypes
<1>6. RingHolds'
  <2>1. ASSUME NEW i \in 0..(head + 1), i + RingSize > head + 1
        PROVE  epoch'[Place(i)] = i \div RingSize
    <3>1. CASE i = head + 1
      BY <1>2, <1>3, <3>1 DEF StoreTypes
    <3>2. CASE i \in 0..head
      BY <1>4, <2>1, <3>2 DEF RingHolds
    <3> QED
      BY <1>1, <3>1, <3>2
  <2>2. ASSUME NEW w \in written, w.seg + RingSize > head + 1
        PROVE  w.at < cursor'[Place(w.seg)] /\ w.seg + RingSize > head
    <3>1. w.seg \in 0..head
      BY <1>1 DEF StoreTypes, WrittenOnce
    <3>2. cursor'[Place(w.seg)] = cursor[Place(w.seg)] /\ w.seg + RingSize > head
      BY <1>4, <2>2, <3>1
    <3> QED
      BY <3>2 DEF RingHolds
  <2>3. \A w \in written : w.seg + RingSize > head =>
          /\ slot[Place(w.seg)][w.at] \in Op
          /\ slot[Place(w.seg)][w.at].key = w.key
          /\ slot[Place(w.seg)][w.at].id = w.id
    BY DEF RingHolds
  <2> QED
    BY <1>1, <2>1, <2>2, <2>3 DEF RingHolds, Place
<1>7. WriterApart'
  BY DEF WriterApart, Advance, StoreTypes
<1> QED
  BY <1>5, <1>6, <1>7

\* A step that leaves the log of writes, the snapshot and the scans alone.
LEMMA ScansClaim ==
  ASSUME StoreInvariant, Claim
  PROVE  /\ ScansInRange' /\ SnapshotHolds' /\ CompactorHolds'
         /\ ReaderHasSnapshot' /\ ReaderHasHead'
<1> USE DEF StoreInvariant, Claim, writerRest
<1>1. ScansInRange'
  BY DEF ScansInRange
<1>2. SnapshotHolds'
  BY DEF SnapshotHolds, LapsNoted, Kept, Covered, Merged
<1>3. CompactorHolds'
  BY DEF CompactorHolds, Kept, Covered, Merged, Passed, InSight
<1>4. ReaderHasSnapshot'
  BY DEF ReaderHasSnapshot, LapsNoted, Kept, Covered, Merged
<1>5. ReaderHasHead'
  BY DEF ReaderHasHead, Covered, Passed, InSight, Fresh
<1> QED
  BY <1>1, <1>2, <1>3, <1>4, <1>5

\* A new write is in the head, in a slot that no scan owes anything.
LEMMA ScansFill ==
  ASSUME StoreInvariant, NEW k \in StoreKeys, NEW t \in BOOLEAN, Fill(k, t)
  PROVE  /\ ScansInRange' /\ SnapshotHolds' /\ CompactorHolds'
         /\ ReaderHasSnapshot' /\ ReaderHasHead'
<1> USE DEF StoreInvariant
<1> DEFINE new == [key |-> k, id |-> Cardinality(written) + 1, seg |-> head, at |-> writer.at]
<1>1. /\ scan' = scan /\ snap' = snap /\ head' = head /\ lapped' = lapped
      /\ unmerged' = unmerged /\ purged' = purged /\ expected' = expected
  BY DEF Fill, writerRest
<1>2. /\ written' = written \cup {new}
      /\ Cardinality(written') = Cardinality(written) + 1
  BY RingFill
<1>3. Cardinality(written) \in Nat /\ head \in Nat /\ expected \in Nat
  BY FS_CardinalityType DEF WrittenOnce, StoreTypes
<1>4. /\ writer.at \in Slots
      /\ \A w \in written : w.seg = head => w.at # writer.at
  BY DEF Fill, WriterApart
<1>5. ScansInRange'
  BY <1>1 DEF ScansInRange
<1>6. SnapshotHolds'
  <2>1. ASSUME snap.compacted, NEW w \in written', w.seg <= snap.through
        PROVE  Kept(w, snap.entries)
    <3>1. CASE w \in written
      BY <2>1, <3>1 DEF SnapshotHolds
    <3>2. CASE w = new
      <4>1. snap.through = head
        <5>1. w.seg = head
          BY <3>2
        <5>2. snap.through \in Nat /\ snap.through <= head
          BY DEF SnapshotHolds, StoreTypes
        <5> QED
          BY <1>3, <2>1, <5>1, <5>2
      <4>2. <<snap.through, writer.at>> \in unmerged
        BY <1>4, <2>1, <4>1 DEF SnapshotHolds
      <4>3. w.seg = head /\ w.at = writer.at
        BY <3>2
      <4> QED
        BY <4>1, <4>2, <4>3 DEF Kept
    <3> QED
      BY <1>2, <3>1, <3>2
  <2>2. ASSUME snap.compacted, NEW s \in Slots
        PROVE  \/ <<snap.through, s>> \in unmerged
               \/ \E w \in written' : w.seg = snap.through /\ w.at = s
    BY <1>2, <2>2 DEF SnapshotHolds
  <2>3. /\ snap.through <= head
        /\ ~snap.compacted => snap.through = 0
        /\ Merged(snap.entries)
        /\ \A i \in Nat : i + RingSize <= head /\ (~snap.compacted \/ i > snap.through)
                            => i \in lapped
    BY DEF SnapshotHolds, LapsNoted
  <2> HIDE DEF new
  <2> QED
    BY <1>1, <2>1, <2>2, <2>3 DEF SnapshotHolds, LapsNoted, Kept, Covered, Merged
<1>7. CompactorHolds'
  <2> DEFINE s == scan["compactor"]
  <2>1. SUFFICES ASSUME s.pc # "idle" PROVE CompactorHolds'
    BY <1>1 DEF CompactorHolds
  <2>2. /\ s.pc \in {"segment", "slots"}
        /\ s.h <= head
        /\ snap.through <= s.h
        /\ snap.compacted => s.i > snap.through
        /\ Merged(s.ops)
        /\ \A w \in written : w.seg < s.h => (Passed(s, w) => Kept(w, s.ops)) /\ InSight(s, w)
    BY <2>1 DEF CompactorHolds
  <2>3. s.h \in Nat
    BY DEF StoreTypes, Scanners
  <2>4. \A w \in written' : w.seg < s.h => w \in written
    BY <1>2, <1>3, <2>2, <2>3
  <2> QED
    BY <1>1, <2>2, <2>4 DEF CompactorHolds, Kept, Covered, Merged, Passed, InSight
<1>8. \A w \in written' : w.id <= expected /\ scan["reader"].pc # "idle" => w \in written
  <2> SUFFICES ASSUME NEW w \in written', w.id <= expected, scan["reader"].pc # "idle", w = new
               PROVE  FALSE
    BY <1>2
  <2>1. expected <= Cardinality(written)
    BY DEF ReaderHasSnapshot
  <2> QED
    BY <1>3, <2>1
<1>9. ReaderHasSnapshot'
  <2> DEFINE s == scan["reader"]
  <2>1. SUFFICES ASSUME s.pc # "idle" PROVE ReaderHasSnapshot'
    BY <1>1 DEF ReaderHasSnapshot
  <2>2. /\ expected <= Cardinality(written)
        /\ ~s.from.compacted => s.from.through = 0
        /\ s.from.through <= head
        /\ Merged(s.ops)
        /\ LapsNoted(s.from)
        /\ \A w \in written :
             w.id <= expected /\ s.from.compacted /\ w.seg <= s.from.through => Kept(w, s.ops)
    BY <2>1 DEF ReaderHasSnapshot
  <2>3. expected <= Cardinality(written')
    BY <1>2, <1>3, <2>2
  <2>4. \A w \in written' :
          w.id <= expected /\ s.from.compacted /\ w.seg <= s.from.through => Kept(w, s.ops)
    BY <1>8, <2>1, <2>2
  <2> HIDE DEF new
  <2> QED
    BY <1>1, <2>2, <2>3, <2>4 DEF ReaderHasSnapshot, LapsNoted, Kept, Covered, Merged
<1>10. ReaderHasHead'
  BY <1>1, <1>8 DEF ReaderHasHead, Covered, Passed, InSight, Fresh
<1> QED
  BY <1>5, <1>6, <1>7, <1>9, <1>10

\* A segment that is reused is noted, if the snapshot or the reader still needs it.
LEMMA ScansAdvance ==
  ASSUME StoreInvariant, StoreTypes', Advance
  PROVE  /\ ScansInRange' /\ SnapshotHolds' /\ CompactorHolds'
         /\ ReaderHasSnapshot' /\ ReaderHasHead'
<1> USE DEF StoreInvariant
<1>1. /\ scan' = scan /\ snap' = snap /\ written' = written
      /\ unmerged' = unmerged /\ purged' = purged /\ expected' = expected
  BY DEF Advance, writerRest
<1>2. head' = head + 1 /\ head \in Nat /\ RingSize \in Nat \ {0}
  BY StoreAssumption DEF Advance, StoreTypes
<1>3. lapped' = lapped \cup Lapped(head + 1) /\ lapped \subseteq lapped'
  BY DEF Advance
<1>4. ASSUME NEW i \in Nat, i + RingSize = head + 1, Needed(i)
      PROVE  i \in lapped'
  <2>1. head + 1 >= RingSize /\ (head + 1) - RingSize = i
    BY <1>2, <1>4
  <2>2. Lapped(head + 1) = {i}
    BY <1>4, <2>1 DEF Lapped
  <2> QED
    BY <1>3, <2>2
<1>5. \A w \in written : \A ops : Kept(w, ops) => Kept(w, ops)'
  BY <1>1, <1>3 DEF Kept, Covered
<1>6. \A w \in written : \A ops : Covered(w, ops) \/ w.seg \in lapped
                              => Covered(w, ops)' \/ w.seg \in lapped'
  BY <1>1, <1>3 DEF Covered
<1>7. ScansInRange'
  BY <1>1 DEF ScansInRange
<1>8. SnapshotHolds'
  <2>1. ASSUME NEW i \in Nat, i + RingSize <= head + 1, ~snap.compacted \/ i > snap.through
        PROVE  i \in lapped'
    <3>1. CASE i + RingSize <= head
      BY <1>3, <2>1, <3>1 DEF SnapshotHolds, LapsNoted
    <3>2. CASE i + RingSize = head + 1
      BY <1>4, <2>1, <3>2 DEF Needed
    <3> QED
      BY <1>2, <2>1, <3>1, <3>2
  <2>2. LapsNoted(snap)'
    BY <1>1, <1>2, <2>1 DEF LapsNoted
  <2>3. snap.through <= head + 1 /\ (~snap.compacted => snap.through = 0) /\ Merged(snap.entries)
    BY <1>2 DEF SnapshotHolds, StoreTypes
  <2>4. snap.compacted =>
          /\ \A w \in written : w.seg <= snap.through => Kept(w, snap.entries)'
          /\ \A s \in Slots :
               \/ <<snap.through, s>> \in unmerged
               \/ \E w \in written : w.seg = snap.through /\ w.at = s
    BY <1>1, <1>5 DEF SnapshotHolds
  <2> QED
    BY <1>1, <1>2, <2>2, <2>3, <2>4 DEF SnapshotHolds, Kept, Covered, Merged
<1>9. CompactorHolds'
  <2> PICK s : s = scan["compactor"]
    OBVIOUS
  <2>1. SUFFICES ASSUME s.pc # "idle" PROVE CompactorHolds'
    BY <1>1 DEF CompactorHolds
  <2>2. /\ s.pc \in {"segment", "slots"}
        /\ s.h <= head
        /\ snap.through <= s.h
        /\ snap.compacted => s.i > snap.through
        /\ Merged(s.ops)
        /\ \A w \in written : w.seg < s.h => (Passed(s, w) => Kept(w, s.ops)) /\ InSight(s, w)
    BY <2>1 DEF CompactorHolds
  <2>3. s.h <= head + 1
    BY <1>2, <2>2 DEF StoreTypes, Scanners
  <2>4. \A w \in written : w.seg < s.h =>
          (Passed(s, w) => Kept(w, s.ops)') /\ InSight(s, w)
    BY <1>5, <2>2
  <2> QED
    BY <1>1, <1>2, <1>3, <2>2, <2>3, <2>4
    DEF CompactorHolds, Kept, Covered, Merged, Passed, InSight
<1>10. ReaderHasSnapshot'
  <2> PICK s : s = scan["reader"]
    OBVIOUS
  <2>1. SUFFICES ASSUME s.pc # "idle" PROVE ReaderHasSnapshot'
    BY <1>1 DEF ReaderHasSnapshot
  <2>2. /\ expected <= Cardinality(written)
        /\ ~s.from.compacted => s.from.through = 0
        /\ s.from.through <= head
        /\ Merged(s.ops)
        /\ LapsNoted(s.from)
        /\ \A w \in written :
             w.id <= expected /\ s.from.compacted /\ w.seg <= s.from.through => Kept(w, s.ops)
    BY <2>1 DEF ReaderHasSnapshot
  <2>3. s.from.through \in Nat
    BY DEF StoreTypes, Scanners, ScanFrom
  <2>4. ASSUME NEW i \in Nat, i + RingSize <= head + 1, ~s.from.compacted \/ i > s.from.through
        PROVE  i \in lapped'
    <3>1. CASE i + RingSize <= head
      BY <1>3, <2>2, <2>4, <3>1 DEF LapsNoted
    <3>2. CASE i + RingSize = head + 1
      BY <1>4, <2>1, <2>3, <2>4, <3>2 DEF Needed
    <3> QED
      BY <1>2, <2>4, <3>1, <3>2
  <2>5. s.from.through <= head + 1
    BY <1>2, <2>2, <2>3
  <2>6. \A w \in written :
          w.id <= expected /\ s.from.compacted /\ w.seg <= s.from.through => Kept(w, s.ops)'
    BY <1>5, <2>2
  <2> QED
    BY <1>1, <1>2, <2>2, <2>4, <2>5, <2>6 DEF ReaderHasSnapshot, LapsNoted, Kept, Covered, Merged
<1>11. ReaderHasHead'
  <2> PICK s : s = scan["reader"]
    OBVIOUS
  <2>1. SUFFICES ASSUME s.pc \in {"segment", "slots"} PROVE ReaderHasHead'
    BY <1>1 DEF ReaderHasHead
  <2>2. /\ s.h <= head
        /\ s.from.through <= s.h
        /\ s.from.compacted /\ s.from.through = s.h /\ s.h + RingSize <= head => s.h \in lapped
        /\ \A w \in written : w.id <= expected =>
             /\ w.seg <= s.h
             /\ Fresh(s, w) =>
                  /\ Passed(s, w) => Covered(w, s.ops) \/ w.seg \in lapped
                  /\ InSight(s, w)
    BY <2>1 DEF ReaderHasHead
  <2>3. s.h \in Nat
    BY DEF StoreTypes, Scanners
  <2>4. ASSUME s.from.compacted, s.from.through = s.h, s.h + RingSize <= head + 1
        PROVE  s.h \in lapped'
    <3>1. CASE s.h + RingSize <= head
      BY <1>3, <2>2, <2>4, <3>1
    <3>2. CASE s.h + RingSize = head + 1
      BY <1>4, <2>1, <2>3, <2>4, <3>2 DEF Needed
    <3> QED
      BY <1>2, <2>3, <2>4, <3>1, <3>2
  <2>5. s.h <= head + 1
    BY <1>2, <2>2, <2>3
  <2>6. \A w \in written : w.id <= expected /\ Fresh(s, w) =>
          (Passed(s, w) => Covered(w, s.ops)' \/ w.seg \in lapped') /\ InSight(s, w)
    BY <1>6, <2>2
  <2>7. \A w \in written : InSight(s, w) => InSight(s, w)'
    BY <1>1, <1>3 DEF InSight
  <2> QED
    BY <1>1, <1>2, <2>2, <2>4, <2>5, <2>6, <2>7
    DEF ReaderHasHead, Covered, Passed, InSight, Fresh
<1> QED
  BY <1>7, <1>8, <1>9, <1>10, <1>11

-------------------------------------------------------------------------------
(* The steps of a scan.                                                    *)

\* What a scan finds out about a write when it looks at a segment: it is about to
\* read its slot, or has passed it already, or the ring has reused the segment.
LEMMA SegmentReads ==
  ASSUME StoreInvariant, NEW a \in Scanners, ScanSegment(a), NEW w \in written,
         w.seg = scan[a].i /\ w.seg + RingSize <= head => w.seg \in lapped
  PROVE  /\ Passed(scan'[a], w) => Passed(scan[a], w) \/ w.seg \in lapped
         /\ InSight(scan'[a], w)
<1> USE DEF StoreInvariant
<1>1. PICK s \in ScanRecord : s = scan[a]
  BY SegmentStep
<1>2. PICK t \in ScanRecord : t = scan'[a]
  BY SegmentStep
<1>3. PICK n \in Nat : n = CapAt(cursor[Place(s.i)])
  BY PlaceIn, CapIn DEF StoreTypes, ScanRecord
<1>4. t = IF epoch[Place(s.i)] = s.i \div RingSize /\ s.j < n
          THEN [s EXCEPT !.pc = "slots", !.n = n]
          ELSE [s EXCEPT !.i = s.i + 1, !.j = 0]
  BY <1>1, <1>2, <1>3, SegmentStep
<1>5. s.pc = "segment"
  BY <1>1, SegmentStep
<1>6. w.seg \in Nat /\ w.at \in Slots /\ w.seg <= head /\ w.at \in Nat
  BY StoreAssumption DEF StoreTypes, WrittenOnce, Slots
<1>7. ASSUME w.seg = s.i, w.seg \notin lapped
      PROVE  w.at < n /\ epoch[Place(s.i)] = s.i \div RingSize
  <2>1. w.seg + RingSize > head
    BY <1>1, <1>6, <1>7, StoreAssumption DEF StoreTypes
  <2>2. w.at < cursor[Place(s.i)]
    BY <1>7, <2>1 DEF RingHolds
  <2>3. epoch[Place(s.i)] = s.i \div RingSize
    BY <1>6, <1>7, <2>1 DEF RingHolds, StoreTypes
  <2>4. cursor[Place(s.i)] \in Nat
    BY <1>6, <1>7, PlaceIn DEF StoreTypes
  <2> QED
    BY <1>3, <1>6, <2>2, <2>3, <2>4, CapIn
<1>8. CASE epoch[Place(s.i)] = s.i \div RingSize /\ s.j < n
  <2>1. t.i = s.i /\ t.j = s.j /\ t.n = n
    BY <1>4, <1>8 DEF ScanRecord
  <2> QED
    BY <1>1, <1>2, <1>7, <2>1 DEF Passed, InSight
<1>9. CASE ~(epoch[Place(s.i)] = s.i \div RingSize /\ s.j < n)
  <2>1. t.pc = "segment" /\ t.i = s.i + 1 /\ t.j = 0
    BY <1>4, <1>5, <1>9 DEF ScanRecord
  <2>2. s.i \in Nat /\ s.j \in Nat
    BY DEF ScanRecord
  <2>3. Passed(t, w) => w.seg < s.i \/ w.seg = s.i
    BY <1>6, <2>1, <2>2 DEF Passed
  <2>4. w.seg = s.i => w.seg \in lapped \/ w.at < s.j
    BY <1>6, <1>7, <1>9, <2>2
  <2> QED
    BY <1>1, <1>2, <2>1, <2>3, <2>4 DEF Passed, InSight
<1> QED
  BY <1>8, <1>9

\* What it finds out when it reads a slot.
LEMMA SlotReads ==
  ASSUME StoreInvariant, NEW a \in Scanners, ScanSlot(a), Merged(scan[a].ops),
         NEW w \in written, InSight(scan[a], w),
         w.seg = scan[a].i /\ w.seg + RingSize <= head => w.seg \in lapped
  PROVE  /\ Passed(scan'[a], w) =>
              Passed(scan[a], w) \/ w.seg \in lapped \/ Covered(w, scan'[a].ops)
         /\ Covered(w, scan[a].ops) => Covered(w, scan'[a].ops)
         /\ InSight(scan'[a], w)
<1> USE DEF StoreInvariant
<1>1. PICK s \in ScanRecord : s = scan[a]
  BY SlotStep
<1>2. PICK t \in ScanRecord : t = scan'[a]
  BY SlotStep
<1>3. PICK y \in Op \cup {NoOp} : y = slot[Place(s.i)][s.j]
  BY <1>1, SlotStep
<1>4. PICK got : got = Merge(s.ops \cup ({y} \ {NoOp}))
  OBVIOUS
<1>5. t = IF s.j + 1 < s.n
          THEN [s EXCEPT !.j = s.j + 1, !.ops = got]
          ELSE [s EXCEPT !.pc = "segment", !.i = s.i + 1, !.j = 0, !.n = 0, !.ops = got]
  BY <1>1, <1>2, <1>3, <1>4, SlotStep
<1>6. s.pc = "slots" /\ t.ops = got
  BY <1>1, <1>5, SlotStep DEF ScanRecord
<1>7. /\ w.seg \in Nat /\ w.at \in Nat /\ w.seg <= head /\ w.id \in Nat
      /\ s.i \in Nat /\ s.j \in Nat /\ s.n \in Nat
  BY StoreAssumption DEF StoreTypes, WrittenOnce, Slots, ScanRecord
<1>8. s.ops \in SUBSET Op /\ Merged(s.ops)
  BY <1>1 DEF ScanRecord
<1>9. Covered(w, s.ops) => Covered(w, got)
  BY <1>4, <1>7, <1>8, MergeCovers
<1>10. ASSUME w.seg = s.i, w.at = s.j, w.seg \notin lapped
       PROVE  Covered(w, got)
  <2>1. w.seg + RingSize > head
    BY <1>1, <1>7, <1>10, StoreAssumption DEF StoreTypes
  <2>2. y \in Op /\ y.key = w.key /\ y.id = w.id
    BY <1>3, <1>10, <2>1 DEF RingHolds
  <2>3. PICK q \in Merge(s.ops \cup ({y} \ {NoOp})) : q.key = y.key /\ q.id >= y.id
    BY <1>8, <2>2, MergeTakesOp
  <2> QED
    BY <1>4, <2>2, <2>3 DEF Covered
<1>11. w.seg = s.i => w.at < s.n \/ w.seg \in lapped
  BY <1>1, <1>6 DEF InSight
<1>12. CASE s.j + 1 < s.n
  <2>1. t.i = s.i /\ t.j = s.j + 1 /\ t.n = s.n
    BY <1>5, <1>12 DEF ScanRecord
  <2>2. Passed(t, w) => Passed(s, w) \/ (w.seg = s.i /\ w.at = s.j)
    BY <1>7, <2>1 DEF Passed
  <2> QED
    BY <1>1, <1>2, <1>6, <1>9, <1>10, <1>11, <2>1, <2>2 DEF InSight
<1>13. CASE ~(s.j + 1 < s.n)
  <2>1. t.pc = "segment" /\ t.i = s.i + 1 /\ t.j = 0
    BY <1>5, <1>13 DEF ScanRecord
  <2>2. Passed(t, w) => w.seg < s.i \/ w.seg = s.i
    BY <1>7, <2>1 DEF Passed
  <2>3. w.seg = s.i => w.seg \in lapped \/ w.at < s.j \/ w.at = s.j
    BY <1>7, <1>11, <1>13
  <2>4. Passed(t, w) => Passed(s, w) \/ w.seg \in lapped \/ Covered(w, got)
    BY <1>10, <2>2, <2>3 DEF Passed
  <2> QED
    BY <1>1, <1>2, <1>6, <1>9, <2>1, <2>4 DEF InSight
<1> QED
  BY <1>12, <1>13

\* What stays as it was while a scan takes a step.
LEMMA ScanFrame ==
  ASSUME StoreInvariant, NEW a \in Scanners, ScanSegment(a) \/ ScanSlot(a)
  PROVE  /\ StoreTypes' /\ ScansInRange'
         /\ WrittenOnce' /\ RingHolds' /\ WriterApart' /\ SnapshotHolds'
         /\ scan[a].pc \in {"segment", "slots"} /\ scan'[a].pc \in {"segment", "slots"}
         /\ scan'[a].from = scan[a].from /\ scan'[a].h = scan[a].h
         /\ scan'[a].i >= scan[a].i
         /\ scan'[a].i \in Nat
         /\ Merged(scan[a].ops) => Merged(scan'[a].ops)
         /\ \A b \in Scanners : b # a => scan'[b] = scan[b]
         /\ UNCHANGED <<head, snap, written, expected, unmerged, lapped, purged>>
<1> USE DEF StoreInvariant
<1>1. UNCHANGED <<logVars, snap, writer, historyVars>>
  BY DEF ScanSegment, ScanSlot
<1>2. WrittenOnce' /\ RingHolds' /\ WriterApart' /\ SnapshotHolds'
  <2>1. WrittenOnce'
    BY <1>1 DEF logVars, historyVars, WrittenOnce
  <2>2. RingHolds'
    BY <1>1 DEF logVars, historyVars, RingHolds, Place
  <2>3. WriterApart'
    BY <1>1 DEF logVars, historyVars, WriterApart, Place
  <2>4. SnapshotHolds'
    BY <1>1 DEF logVars, historyVars, SnapshotHolds, LapsNoted, Kept, Covered, Merged
  <2> QED
    BY <2>1, <2>2, <2>3, <2>4
<1>3. CASE ScanSegment(a)
  <2>1. PICK s \in ScanRecord : s = scan[a]
    BY <1>3, SegmentStep
  <2>2. PICK t \in ScanRecord : t = scan'[a]
    BY <1>3, SegmentStep
  <2>3. PICK n \in Nat : n = CapAt(cursor[Place(s.i)])
    BY PlaceIn, CapIn DEF StoreTypes, ScanRecord
  <2>4. t = IF epoch[Place(s.i)] = s.i \div RingSize /\ s.j < n
            THEN [s EXCEPT !.pc = "slots", !.n = n]
            ELSE [s EXCEPT !.i = s.i + 1, !.j = 0]
    BY <1>3, <2>1, <2>2, <2>3, SegmentStep
  <2>5. s.pc = "segment"
    BY <1>3, <2>1, SegmentStep
  <2>6. /\ t.pc \in {"segment", "slots"} /\ t.from = s.from /\ t.h = s.h /\ t.i >= s.i
        /\ t.ops = s.ops
        /\ t.pc = "slots" => t.j < t.n /\ t.n = n
    BY <2>4, <2>5 DEF ScanRecord
  <2>7. scan' = [scan EXCEPT ![a] = t]
    BY <1>3, <2>2, SegmentStep
  <2>8. n <= SegmentCap
    <3>1. cursor[Place(s.i)] \in Nat
      BY PlaceIn DEF StoreTypes, ScanRecord
    <3> QED
      BY <2>3, <3>1, StoreAssumption DEF CapAt
  <2>9. StoreTypes'
    BY <1>1, <2>7 DEF StoreTypes, logVars, historyVars, ScanRecord
  <2>10. \A b \in Scanners : b # a => scan'[b] = scan[b]
    BY <2>7 DEF StoreTypes
  <2>11. ScansInRange'
    BY <2>2, <2>6, <2>8, <2>10 DEF ScansInRange
  <2>12. t.i \in Nat
    BY DEF ScanRecord
  <2> QED
    BY <1>1, <1>2, <2>1, <2>2, <2>5, <2>6, <2>9, <2>10, <2>11, <2>12 DEF logVars, historyVars
<1>4. CASE ScanSlot(a)
  <2>1. PICK s \in ScanRecord : s = scan[a]
    BY <1>4, SlotStep
  <2>2. PICK t \in ScanRecord : t = scan'[a]
    BY <1>4, SlotStep
  <2>3. PICK y \in Op \cup {NoOp} : y = slot[Place(s.i)][s.j]
    BY <1>4, <2>1, SlotStep
  <2>4. PICK got : got = Merge(s.ops \cup ({y} \ {NoOp}))
    OBVIOUS
  <2>5. t = IF s.j + 1 < s.n
            THEN [s EXCEPT !.j = s.j + 1, !.ops = got]
            ELSE [s EXCEPT !.pc = "segment", !.i = s.i + 1, !.j = 0, !.n = 0, !.ops = got]
    BY <1>4, <2>1, <2>2, <2>3, <2>4, SlotStep
  <2>6. s.pc = "slots"
    BY <1>4, <2>1, SlotStep
  <2>7. /\ t.pc \in {"segment", "slots"} /\ t.from = s.from /\ t.h = s.h /\ t.i >= s.i
        /\ t.ops = got
        /\ t.pc = "slots" => t.j < t.n /\ t.n = s.n
    BY <2>5, <2>6 DEF ScanRecord
  <2>8. scan' = [scan EXCEPT ![a] = t]
    BY <1>4, <2>2, SlotStep
  <2>9. s.n <= SegmentCap
    BY <2>1, <2>6 DEF ScansInRange
  <2>10. Merged(got)
    BY <2>4, MergeKeepsOps DEF ScanRecord
  <2>11. StoreTypes'
    BY <1>1, <2>8 DEF StoreTypes, logVars, historyVars, ScanRecord
  <2>12. \A b \in Scanners : b # a => scan'[b] = scan[b]
    BY <2>8 DEF StoreTypes
  <2>13. ScansInRange'
    BY <2>2, <2>7, <2>9, <2>12 DEF ScansInRange
  <2>14. t.i \in Nat
    BY DEF ScanRecord
  <2> QED
    BY <1>1, <1>2, <2>1, <2>2, <2>6, <2>7, <2>10, <2>11, <2>12, <2>13, <2>14
    DEF logVars, historyVars
<1> QED
  BY <1>3, <1>4

\* The compaction's own step: it starts behind the snapshot, so that every segment it
\* finds reused is noted.
LEMMA CompactorScans ==
  ASSUME StoreInvariant, ScanSegment("compactor") \/ ScanSlot("compactor")
  PROVE  CompactorHolds' /\ ReaderHasSnapshot' /\ ReaderHasHead'
<1> USE DEF StoreInvariant
<1>1. "compactor" \in Scanners /\ "reader" \in Scanners
  BY DEF Scanners
<1>2. PICK s : s = scan["compactor"]
  OBVIOUS
<1>3. PICK t : t = scan'["compactor"]
  OBVIOUS
<1>4. /\ s.pc \in {"segment", "slots"} /\ t.pc \in {"segment", "slots"}
      /\ t.h = s.h
      /\ t.i >= s.i
      /\ t.i \in Nat
      /\ Merged(s.ops) => Merged(t.ops)
      /\ scan'["reader"] = scan["reader"]
      /\ UNCHANGED <<head, snap, written, expected, unmerged, lapped, purged>>
  BY <1>1, <1>2, <1>3, ScanFrame
<1>5. /\ s.h <= head
      /\ snap.through <= s.h
      /\ snap.compacted => s.i > snap.through
      /\ Merged(s.ops)
      /\ \A w \in written : w.seg < s.h => (Passed(s, w) => Kept(w, s.ops)) /\ InSight(s, w)
  BY <1>2, <1>4 DEF CompactorHolds
<1>6. s.i \in Nat /\ snap.through \in Nat
  BY <1>1, <1>2 DEF StoreTypes
<1>7. ASSUME NEW w \in written, w.seg < s.h
      PROVE  (Passed(t, w) => Kept(w, t.ops)) /\ InSight(t, w)
  <2>1. w.seg = s.i /\ w.seg + RingSize <= head => w.seg \in lapped
    BY <1>5, <1>6 DEF SnapshotHolds, LapsNoted
  <2>2. (Passed(s, w) => Kept(w, s.ops)) /\ InSight(s, w)
    BY <1>5, <1>7
  <2>3. CASE ScanSegment("compactor")
    <3>1. (Passed(t, w) => Passed(s, w) \/ w.seg \in lapped) /\ InSight(t, w)
      BY <1>1, <1>2, <1>3, <2>1, <2>3, SegmentReads
    <3>2. t.ops = s.ops
      BY <1>1, <1>2, <1>3, <2>3, SegmentStep DEF ScanRecord
    <3> QED
      BY <2>2, <3>1, <3>2 DEF Kept
  <2>4. CASE ScanSlot("compactor")
    <3>1. /\ Passed(t, w) => Passed(s, w) \/ w.seg \in lapped \/ Covered(w, t.ops)
          /\ Covered(w, s.ops) => Covered(w, t.ops)
          /\ InSight(t, w)
      BY <1>1, <1>2, <1>3, <1>5, <2>1, <2>2, <2>4, SlotReads
    <3> QED
      BY <2>2, <3>1 DEF Kept
  <2> QED
    BY <2>3, <2>4
<1>8. CompactorHolds'
  <2>1. snap.compacted => t.i > snap.through
    BY <1>4, <1>5, <1>6
  <2> QED
    BY <1>3, <1>4, <1>5, <1>7, <2>1 DEF CompactorHolds, Kept, Covered, Merged, Passed, InSight
<1>9. ReaderHasSnapshot'
  BY <1>4 DEF ReaderHasSnapshot, LapsNoted, Kept, Covered, Merged
<1>10. ReaderHasHead'
  BY <1>4 DEF ReaderHasHead, Covered, Passed, InSight, Fresh
<1> QED
  BY <1>8, <1>9, <1>10

\* The read's own step: for a write that the snapshot does not answer for, a reused
\* segment is noted.
LEMMA ReaderScans ==
  ASSUME StoreInvariant, ScanSegment("reader") \/ ScanSlot("reader")
  PROVE  CompactorHolds' /\ ReaderHasSnapshot' /\ ReaderHasHead'
<1> USE DEF StoreInvariant
<1>1. "compactor" \in Scanners /\ "reader" \in Scanners
  BY DEF Scanners
<1>2. PICK s : s = scan["reader"]
  OBVIOUS
<1>3. PICK t : t = scan'["reader"]
  OBVIOUS
<1>4. /\ s.pc \in {"segment", "slots"} /\ t.pc \in {"segment", "slots"}
      /\ t.h = s.h
      /\ t.from = s.from
      /\ Merged(s.ops) => Merged(t.ops)
      /\ scan'["compactor"] = scan["compactor"]
      /\ UNCHANGED <<head, snap, written, expected, unmerged, lapped, purged>>
  BY <1>1, <1>2, <1>3, ScanFrame
<1>5. /\ expected <= Cardinality(written)
      /\ ~s.from.compacted => s.from.through = 0
      /\ s.from.through <= head
      /\ Merged(s.ops)
      /\ LapsNoted(s.from)
      /\ \A w \in written :
           w.id <= expected /\ s.from.compacted /\ w.seg <= s.from.through => Kept(w, s.ops)
  BY <1>2, <1>4 DEF ReaderHasSnapshot
<1>6. /\ s.h <= head
      /\ s.from.through <= s.h
      /\ s.from.compacted /\ s.from.through = s.h /\ s.h + RingSize <= head => s.h \in lapped
      /\ \A w \in written : w.id <= expected =>
           /\ w.seg <= s.h
           /\ Fresh(s, w) =>
                /\ Passed(s, w) => Covered(w, s.ops) \/ w.seg \in lapped
                /\ InSight(s, w)
  BY <1>2, <1>4 DEF ReaderHasHead
<1>7. ASSUME NEW w \in written, w.id <= expected
      PROVE  /\ s.from.compacted /\ w.seg <= s.from.through => Kept(w, t.ops)
             /\ Fresh(t, w) =>
                  /\ Passed(t, w) => Covered(w, t.ops) \/ w.seg \in lapped
                  /\ InSight(t, w)
  <2>1. Fresh(t, w) => Fresh(s, w)
    BY <1>4 DEF Fresh
  <2>2. w.seg \in Nat
    BY DEF StoreTypes
  <2>3. Fresh(s, w) /\ w.seg + RingSize <= head => w.seg \in lapped
    BY <1>5, <1>6, <2>2 DEF Fresh, LapsNoted
  <2>4. CASE ScanSegment("reader")
    <3>1. t.ops = s.ops
      BY <1>1, <1>2, <1>3, <2>4, SegmentStep DEF ScanRecord
    <3>2. Fresh(s, w) => (Passed(t, w) => Passed(s, w) \/ w.seg \in lapped) /\ InSight(t, w)
      BY <1>1, <1>2, <1>3, <2>3, <2>4, SegmentReads
    <3> QED
      BY <1>5, <1>6, <1>7, <2>1, <3>1, <3>2
  <2>5. CASE ScanSlot("reader")
    <3>1. Covered(w, s.ops) => Covered(w, t.ops)
      <4>1. PICK y \in Op \cup {NoOp} : y = slot[Place(s.i)][s.j]
        BY <1>1, <1>2, <2>5, SlotStep
      <4>2. t.ops = Merge(s.ops \cup ({y} \ {NoOp}))
        BY <1>1, <1>2, <1>3, <2>5, <4>1, SlotStep DEF ScanRecord
      <4>3. s.ops \in SUBSET Op /\ w.id \in Nat
        BY <1>1, <1>2 DEF StoreTypes
      <4> QED
        BY <1>5, <4>2, <4>3, MergeCovers
    <3>2. Fresh(s, w) => /\ Passed(t, w) => \/ Passed(s, w)
                                            \/ w.seg \in lapped
                                            \/ Covered(w, t.ops)
                         /\ InSight(t, w)
      BY <1>1, <1>2, <1>3, <1>5, <1>6, <1>7, <2>3, <2>5, SlotReads
    <3>3. s.from.compacted /\ w.seg <= s.from.through => Kept(w, t.ops)
      BY <1>5, <1>7, <3>1 DEF Kept
    <3> QED
      BY <1>6, <1>7, <2>1, <3>1, <3>2, <3>3
  <2> QED
    BY <2>4, <2>5
<1>8. CompactorHolds'
  BY <1>4 DEF CompactorHolds, Kept, Covered, Merged, Passed, InSight
<1>9. ReaderHasSnapshot'
  BY <1>3, <1>4, <1>5, <1>7 DEF ReaderHasSnapshot, LapsNoted, Kept, Covered, Merged
<1>10. ReaderHasHead'
  BY <1>3, <1>4, <1>6, <1>7 DEF ReaderHasHead, Covered, Passed, InSight, Fresh
<1> QED
  BY <1>8, <1>9, <1>10

-------------------------------------------------------------------------------
(* The beginning and the end of a compaction and of a read.                *)

\* No step of a scan's begin or end touches the log.
LEMMA LogFrame ==
  ASSUME StoreInvariant, UNCHANGED <<logVars, writer, written>>
  PROVE  WrittenOnce' /\ RingHolds' /\ WriterApart'
<1> USE DEF StoreInvariant, logVars
<1>1. WrittenOnce'
  BY DEF WrittenOnce
<1>2. RingHolds'
  BY DEF RingHolds, Place
<1>3. WriterApart'
  BY DEF WriterApart, Place
<1> QED
  BY <1>1, <1>2, <1>3

\* What the parts about the snapshot, the compaction and the read depend on.
LEMMA SnapshotFrame ==
  ASSUME StoreInvariant, UNCHANGED <<head, snap, written, lapped, unmerged, purged>>
  PROVE  SnapshotHolds'
BY DEF StoreInvariant, SnapshotHolds, LapsNoted, Kept, Covered, Merged

LEMMA CompactorFrame ==
  ASSUME StoreInvariant, UNCHANGED <<head, snap, written, lapped, unmerged, purged>>,
         scan'["compactor"] = scan["compactor"]
  PROVE  CompactorHolds'
BY DEF StoreInvariant, CompactorHolds, Kept, Covered, Merged, Passed, InSight

LEMMA ReaderFrame ==
  ASSUME StoreInvariant, UNCHANGED <<head, written, expected, lapped, unmerged, purged>>,
         scan'["reader"] = scan["reader"]
  PROVE  ReaderHasSnapshot' /\ ReaderHasHead'
<1>1. ReaderHasSnapshot'
  BY DEF StoreInvariant, ReaderHasSnapshot, LapsNoted, Kept, Covered, Merged
<1>2. ReaderHasHead'
  BY DEF StoreInvariant, ReaderHasHead, Covered, Passed, InSight, Fresh
<1> QED
  BY <1>1, <1>2

LEMMA RangeFrame ==
  ASSUME StoreInvariant, NEW a \in Scanners, scan'[a].pc # "slots",
         \A b \in Scanners : b # a => scan'[b] = scan[b]
  PROVE  ScansInRange'
BY DEF StoreInvariant, ScansInRange

\* A compaction begins: behind its first segment is what the snapshot keeps.
LEMMA CompactBeginKeeps ==
  ASSUME StoreInvariant, CompactBegin
  PROVE  StoreInvariant'
<1> USE DEF StoreInvariant
<1>1. PICK t : t = scan'["compactor"]
  OBVIOUS
<1>2. /\ StoreTypes'
      /\ scan'["reader"] = scan["reader"]
      /\ t.pc = "segment" /\ t.h = head /\ t.i = FirstSegment(snap) /\ t.j = 0
      /\ t.ops = snap.entries
  BY <1>1, CompactBeginStep
<1>3. UNCHANGED <<logVars, snap, writer, historyVars>> /\ ~(snap.compacted /\ head = snap.through)
  BY DEF CompactBegin
<1>4. UNCHANGED <<head, snap, written, expected, lapped, unmerged, purged>>
  BY <1>3 DEF logVars, historyVars
<1>5. ScansInRange'
  BY <1>1, <1>2, RangeFrame DEF Scanners
<1>6. head \in Nat /\ snap.through \in Nat /\ snap.through <= head
  BY DEF SnapshotHolds, StoreTypes
<1>7. ASSUME NEW w \in written, w.seg < t.h
      PROVE  (Passed(t, w) => Kept(w, t.ops)) /\ InSight(t, w)
  <2>1. w.seg \in Nat /\ w.at \in Nat
    BY StoreAssumption DEF StoreTypes, Slots
  <2>2. Passed(t, w) => snap.compacted /\ w.seg <= snap.through
    BY <1>2, <1>6, <2>1 DEF Passed, FirstSegment, SnapshotHolds
  <2> QED
    BY <1>2, <2>2 DEF InSight, SnapshotHolds
<1>8. CompactorHolds'
  <2>1. t.h <= head /\ snap.through <= t.h /\ Merged(t.ops)
    BY <1>2, <1>6 DEF SnapshotHolds
  <2>2. snap.compacted => t.i > snap.through
    BY <1>2, <1>6 DEF FirstSegment
  <2> QED
    BY <1>1, <1>2, <1>4, <1>7, <2>1, <2>2 DEF CompactorHolds, Kept, Covered, Merged, Passed, InSight
<1>9. ReaderHasSnapshot' /\ ReaderHasHead'
  BY <1>2, <1>4, ReaderFrame
<1>10. SnapshotHolds'
  BY <1>4, SnapshotFrame
<1>11. WrittenOnce' /\ RingHolds' /\ WriterApart'
  BY <1>3, <1>4, LogFrame
<1> QED
  BY <1>2, <1>5, <1>8, <1>9, <1>10, <1>11

\* The published snapshot: what the compaction had passed, less the expired
\* tombstones, and for the head segment whatever was not merged is recorded as such.
LEMMA CompactPublishKeeps ==
  ASSUME StoreInvariant, NEW cutoff, CompactPublish(cutoff)
  PROVE  StoreInvariant'
<1> USE DEF StoreInvariant
<1>1. PICK s : s = scan["compactor"]
  OBVIOUS
<1>2. s.pc = "segment" /\ s.i > s.h
  BY <1>1 DEF CompactPublish
<1>3. /\ s.h <= head
      /\ snap.through <= s.h
      /\ snap.compacted => s.i > snap.through
      /\ Merged(s.ops)
      /\ \A w \in written : w.seg < s.h => (Passed(s, w) => Kept(w, s.ops)) /\ InSight(s, w)
  BY <1>1, <1>2 DEF CompactorHolds
<1>4. /\ StoreTypes'
      /\ scan'["reader"] = scan["reader"]
      /\ scan'["compactor"].pc = "idle"
      /\ snap'.through = s.h
      /\ snap'.compacted
      /\ snap'.entries \in SUBSET s.ops
  BY <1>1, <1>3, CompactPublishStep
<1>5. /\ \A k \in StoreKeys : purged'[k] >= purged[k]
      /\ \A o \in s.ops \ snap'.entries : purged'[o.key] >= o.id
  BY <1>1, <1>3, PurgeStep
<1>6. UNCHANGED <<logVars, writer, written, expected, lapped>> /\ UNCHANGED head
  BY DEF CompactPublish, logVars
<1>7. /\ unmerged \subseteq unmerged'
      /\ \A x \in {s.h} \X Slots :
           \/ x \in unmerged'
           \/ \E w \in written : w.seg = x[1] /\ w.at = x[2]
                                 /\ \E o \in s.ops : o.key = w.key /\ o.id >= w.id
  BY <1>1 DEF CompactPublish
<1>8. ScansInRange'
  BY <1>4, RangeFrame DEF Scanners
<1>9. s.h \in Nat /\ s.i \in Nat /\ s.ops \in SUBSET Op /\ snap.through \in Nat
  BY <1>1 DEF StoreTypes, Scanners
<1>10. \A w \in written : w.id \in Nat /\ w.key \in StoreKeys /\ w.seg \in Nat /\ w.at \in Slots
  BY DEF StoreTypes
<1>11. ASSUME NEW w \in written, NEW o \in s.ops, o.key = w.key, o.id >= w.id
       PROVE  (\E q \in snap'.entries : q.key = w.key /\ q.id >= w.id) \/ purged'[w.key] >= w.id
  <2>1. CASE o \in snap'.entries
    BY <1>11, <2>1
  <2>2. CASE o \notin snap'.entries
    <3>1. purged'[w.key] >= o.id
      BY <1>5, <1>11, <2>2
    <3>2. o.id \in Nat /\ purged'[w.key] \in Nat
      BY <1>4, <1>9, <1>10, StoreAssumption DEF Op, StoreTypes
    <3> QED
      BY <1>10, <1>11, <3>1, <3>2
  <2> QED
    BY <2>1, <2>2
<1>12. ASSUME NEW w \in written, Covered(w, s.ops)
       PROVE  (\E q \in snap'.entries : q.key = w.key /\ q.id >= w.id) \/ purged'[w.key] >= w.id
  <2>1. CASE purged[w.key] >= w.id
    <3>1. purged'[w.key] >= purged[w.key] /\ purged[w.key] \in Nat /\ purged'[w.key] \in Nat
      BY <1>4, <1>5, <1>10 DEF StoreTypes
    <3> QED
      BY <1>10, <2>1, <3>1
  <2> QED
    BY <1>11, <1>12, <2>1 DEF Covered
<1>13. ASSUME NEW w \in written, w.seg <= s.h
       PROVE  \/ \E q \in snap'.entries : q.key = w.key /\ q.id >= w.id
              \/ purged'[w.key] >= w.id
              \/ w.seg \in lapped
              \/ <<w.seg, w.at>> \in unmerged'
  <2>1. CASE w.seg < s.h
    <3>1. Passed(s, w)
      BY <1>2, <1>9, <1>10, <2>1 DEF Passed
    <3>2. Kept(w, s.ops)
      BY <1>3, <2>1, <3>1
    <3> QED
      BY <1>7, <1>12, <3>2 DEF Kept
  <2>2. CASE w.seg = s.h
    <3>1. <<w.seg, w.at>> \in {s.h} \X Slots
      BY <1>10, <2>2
    <3>2. CASE <<w.seg, w.at>> \notin unmerged'
      <4>1. PICK x \in written : x.seg = w.seg /\ x.at = w.at
                                 /\ \E o \in s.ops : o.key = x.key /\ o.id >= x.id
        BY <1>7, <3>1, <3>2
      <4>2. x = w
        BY <4>1 DEF WrittenOnce
      <4> QED
        BY <1>11, <4>1, <4>2
    <3> QED
      BY <3>2
  <2> QED
    BY <1>9, <1>10, <1>13, <2>1, <2>2
<1>14. SnapshotHolds'
  <2>1. LapsNoted(snap)'
    <3>1. ASSUME NEW i \in Nat, i + RingSize <= head, i > s.h
          PROVE  i \in lapped
      BY <1>3, <1>9, <3>1 DEF SnapshotHolds, LapsNoted
    <3> QED
      BY <1>4, <1>6, <3>1 DEF LapsNoted
  <2>2. Merged(snap.entries)'
    BY <1>3, <1>4 DEF Merged
  <2>3. ASSUME NEW x \in Slots
        PROVE  \/ <<s.h, x>> \in unmerged'
               \/ \E w \in written : w.seg = s.h /\ w.at = x
    BY <1>7
  <2>4. \A w \in written : w.seg <= s.h => Kept(w, snap.entries)'
    BY <1>6, <1>13 DEF Kept, Covered
  <2> QED
    BY <1>3, <1>4, <1>6, <2>1, <2>2, <2>3, <2>4 DEF SnapshotHolds, Kept, Covered
<1>15. CompactorHolds'
  BY <1>4 DEF CompactorHolds
<1>16. ReaderHasSnapshot' /\ ReaderHasHead'
  <2>1. PICK r : r = scan["reader"]
    OBVIOUS
  <2>2. \A w \in written : Kept(w, r.ops) => Kept(w, r.ops)'
    <3> SUFFICES ASSUME NEW w \in written, Kept(w, r.ops) PROVE Kept(w, r.ops)'
      OBVIOUS
    <3> QED
      BY <1>4, <1>5, <1>6, <1>7, <1>10, KeptStays
  <2>3. \A w \in written : Covered(w, r.ops) => Covered(w, r.ops)'
    <3> SUFFICES ASSUME NEW w \in written, Covered(w, r.ops) PROVE Covered(w, r.ops)'
      OBVIOUS
    <3> QED
      BY <1>4, <1>5, <1>10, CoveredStays
  <2>4. ReaderHasSnapshot'
    <3> SUFFICES ASSUME r.pc # "idle" PROVE ReaderHasSnapshot'
      BY <1>4, <2>1 DEF ReaderHasSnapshot
    <3>1. /\ expected <= Cardinality(written)
          /\ ~r.from.compacted => r.from.through = 0
          /\ r.from.through <= head
          /\ Merged(r.ops)
          /\ LapsNoted(r.from)
          /\ \A w \in written :
               w.id <= expected /\ r.from.compacted /\ w.seg <= r.from.through => Kept(w, r.ops)'
      BY <2>1, <2>2 DEF ReaderHasSnapshot
    <3> QED
      BY <1>4, <1>6, <2>1, <3>1 DEF ReaderHasSnapshot, LapsNoted, Kept, Covered, Merged
  <2>5. ReaderHasHead'
    <3> SUFFICES ASSUME r.pc \in {"segment", "slots"} PROVE ReaderHasHead'
      BY <1>4, <2>1 DEF ReaderHasHead
    <3>1. /\ r.h <= head
          /\ r.from.through <= r.h
          /\ r.from.compacted /\ r.from.through = r.h /\ r.h + RingSize <= head => r.h \in lapped
          /\ \A w \in written : w.id <= expected =>
               /\ w.seg <= r.h
               /\ Fresh(r, w) =>
                    /\ Passed(r, w) => Covered(w, r.ops)' \/ w.seg \in lapped
                    /\ InSight(r, w)
      BY <2>1, <2>3 DEF ReaderHasHead
    <3> QED
      BY <1>4, <1>6, <2>1, <3>1 DEF ReaderHasHead, Covered, Passed, InSight, Fresh
  <2> QED
    BY <2>4, <2>5
<1>17. WrittenOnce' /\ RingHolds' /\ WriterApart'
  BY <1>6, LogFrame
<1> QED
  BY <1>4, <1>8, <1>14, <1>15, <1>16, <1>17

\* A read begins with what the snapshot keeps.
LEMMA ReadBeginKeeps ==
  ASSUME StoreInvariant, ReadBegin
  PROVE  StoreInvariant'
<1> USE DEF StoreInvariant
<1>1. PICK t : t = scan'["reader"]
  OBVIOUS
<1>2. /\ StoreTypes'
      /\ scan'["compactor"] = scan["compactor"]
      /\ t.pc = "head"
      /\ t.from.through = snap.through
      /\ t.from.compacted = snap.compacted
      /\ t.ops = snap.entries
      /\ expected' = Cardinality(written)
  BY <1>1, ReadBeginStep
<1>3. UNCHANGED <<logVars, snap, writer, written, unmerged, lapped, purged>> /\ UNCHANGED head
  BY DEF ReadBegin, logVars
<1>4. ScansInRange'
  BY <1>1, <1>2, RangeFrame DEF Scanners
<1>5. Cardinality(written) \in Nat
  BY FS_CardinalityType DEF WrittenOnce
<1>6. ReaderHasSnapshot'
  <2>1. /\ ~t.from.compacted => t.from.through = 0
        /\ t.from.through <= head
        /\ Merged(t.ops)
        /\ LapsNoted(t.from)
        /\ \A w \in written : t.from.compacted /\ w.seg <= t.from.through => Kept(w, t.ops)
    BY <1>2 DEF SnapshotHolds, LapsNoted
  <2> QED
    BY <1>1, <1>2, <1>3, <1>5, <2>1 DEF ReaderHasSnapshot, LapsNoted, Kept, Covered, Merged
<1>7. ReaderHasHead'
  BY <1>1, <1>2 DEF ReaderHasHead
<1>8. CompactorHolds'
  BY <1>2, <1>3, CompactorFrame
<1>9. SnapshotHolds'
  BY <1>3, SnapshotFrame
<1>10. WrittenOnce' /\ RingHolds' /\ WriterApart'
  BY <1>3, LogFrame
<1> QED
  BY <1>2, <1>4, <1>6, <1>7, <1>8, <1>9, <1>10

\* The head is loaded: nothing fresh is behind the segment and slot it starts from.
LEMMA ReadHeadKeeps ==
  ASSUME StoreInvariant, ReadHead
  PROVE  StoreInvariant'
<1> USE DEF StoreInvariant
<1>1. PICK s : s = scan["reader"]
  OBVIOUS
<1>2. PICK t : t = scan'["reader"]
  OBVIOUS
<1> DEFINE covered == s.from.compacted /\ s.from.through = head
<1>3. /\ StoreTypes'
      /\ scan'["compactor"] = scan["compactor"]
      /\ s.pc = "head"
      /\ t.pc = "segment"
      /\ t.from = s.from
      /\ t.h = head
      /\ t.i = IF covered THEN head ELSE FirstSegment(s.from)
      /\ t.j = IF covered THEN s.from.headCursor ELSE 0
      /\ t.ops = s.ops
  BY <1>1, <1>2, ReadHeadStep
<1>4. UNCHANGED <<logVars, snap, writer, historyVars>>
  BY DEF ReadHead
<1>5. UNCHANGED <<head, snap, written, expected, lapped, unmerged, purged>>
  BY <1>4 DEF logVars, historyVars
<1>6. ScansInRange'
  BY <1>2, <1>3, RangeFrame DEF Scanners
<1>7. /\ expected <= Cardinality(written)
      /\ ~s.from.compacted => s.from.through = 0
      /\ s.from.through <= head
      /\ Merged(s.ops)
      /\ LapsNoted(s.from)
      /\ \A w \in written :
           w.id <= expected /\ s.from.compacted /\ w.seg <= s.from.through => Kept(w, s.ops)
  BY <1>1, <1>3 DEF ReaderHasSnapshot
<1>8. ReaderHasSnapshot'
  BY <1>2, <1>3, <1>5, <1>7 DEF ReaderHasSnapshot, LapsNoted, Kept, Covered, Merged
<1>9. ReaderHasHead'
  <2>1. head \in Nat /\ s.from.through \in Nat /\ s.from.headCursor \in Nat
    BY <1>1 DEF StoreTypes, Scanners, ScanFrom
  <2>2. ~(head + RingSize <= head)
    BY <2>1, StoreAssumption
  <2>3. ASSUME NEW w \in written, Fresh(t, w)
        PROVE  ~Passed(t, w)
    <3>1. w.seg \in Nat /\ w.at \in Nat
      BY StoreAssumption DEF StoreTypes, Slots
    <3>2. CASE covered
      <4>1. t.i = head /\ t.j = s.from.headCursor
        BY <1>3, <3>2
      <4> QED
        BY <1>3, <2>1, <2>3, <3>1, <3>2, <4>1 DEF Fresh, Passed
    <3>3. CASE ~covered
      <4>1. t.i = FirstSegment(s.from) /\ t.j = 0
        BY <1>3, <3>3
      <4> QED
        BY <1>3, <1>7, <2>1, <2>3, <3>1, <3>3, <4>1 DEF Fresh, Passed, FirstSegment
    <3> QED
      BY <3>2, <3>3
  <2>4. \A w \in written : w.seg <= head
    BY DEF WrittenOnce
  <2>5. \A w \in written : InSight(t, w)
    BY <1>3 DEF InSight
  <2>6. t.h <= head /\ t.from.through <= t.h
    BY <1>3, <1>7, <2>1
  <2> HIDE DEF covered
  <2> QED
    BY <1>2, <1>3, <1>5, <2>2, <2>3, <2>4, <2>5, <2>6
    DEF ReaderHasHead, Covered, Passed, InSight, Fresh
<1>10. CompactorHolds'
  BY <1>3, <1>5, CompactorFrame
<1>11. SnapshotHolds'
  BY <1>5, SnapshotFrame
<1>12. WrittenOnce' /\ RingHolds' /\ WriterApart'
  BY <1>4, <1>5, LogFrame
<1> QED
  BY <1>3, <1>6, <1>8, <1>9, <1>10, <1>11, <1>12

\* A read returns.
LEMMA ReadReturnKeeps ==
  ASSUME StoreInvariant, ReadReturn
  PROVE  StoreInvariant'
<1> USE DEF StoreInvariant
<1>1. /\ StoreTypes'
      /\ scan'["compactor"] = scan["compactor"]
      /\ scan'["reader"].pc = "idle"
  BY ReadReturnStep
<1>2. UNCHANGED <<logVars, snap, writer, written, unmerged, lapped, purged>> /\ UNCHANGED head
  BY DEF ReadReturn, logVars
<1>3. ScansInRange'
  BY <1>1, RangeFrame DEF Scanners
<1>4. ReaderHasSnapshot' /\ ReaderHasHead'
  BY <1>1 DEF ReaderHasSnapshot, ReaderHasHead
<1>5. CompactorHolds'
  BY <1>1, <1>2, CompactorFrame
<1>6. SnapshotHolds'
  BY <1>2, SnapshotFrame
<1>7. WrittenOnce' /\ RingHolds' /\ WriterApart'
  BY <1>2, LogFrame
<1> QED
  BY <1>1, <1>3, <1>4, <1>5, <1>6, <1>7

-------------------------------------------------------------------------------
(* The invariant holds, and what it says of reads and snapshots.           *)

\* The store starts empty.
LEMMA InvariantInit ==
  StoreInit => StoreInvariant
<1> SUFFICES ASSUME StoreInit PROVE StoreInvariant
  OBVIOUS
<1>1. StoreTypes
  BY TypesInit
<1>2. /\ head = 0 /\ written = {} /\ writer.pc = "idle"
      /\ epoch = [p \in Places |-> 0]
      /\ snap = EmptySnapshot
  BY DEF StoreInit, WriterIdle
<1>3. scan["reader"].pc = "idle" /\ scan["compactor"].pc = "idle"
      /\ \A a \in Scanners : scan[a].pc = "idle"
  BY DEF StoreInit, Scanners, ScanIdle
<1>4. ScansInRange /\ CompactorHolds /\ ReaderHasSnapshot /\ ReaderHasHead
  BY <1>3 DEF ScansInRange, CompactorHolds, ReaderHasSnapshot, ReaderHasHead
<1>5. WrittenOnce
  BY <1>2, FS_EmptySet DEF WrittenOnce
<1>6. RingHolds
  <2>1. Place(0) \in Places /\ 0 \div RingSize = 0
    BY PlaceIn, StoreAssumption
  <2> QED
    BY <1>2, <2>1 DEF RingHolds
<1>7. WriterApart
  BY <1>2 DEF WriterApart
<1>8. SnapshotHolds
  <2>1. snap.through = 0 /\ snap.entries = {} /\ ~snap.compacted
    BY <1>2 DEF EmptySnapshot
  <2>2. \A i \in Nat : ~(i + RingSize <= head)
    BY <1>2, StoreAssumption
  <2> QED
    BY <1>2, <2>1, <2>2 DEF SnapshotHolds, LapsNoted, Merged
<1> QED
  BY <1>1, <1>4, <1>5, <1>6, <1>7, <1>8 DEF StoreInvariant

\* Every step keeps the invariant.
LEMMA InvariantNext ==
  StoreInvariant /\ [StoreNext]_storeVars => StoreInvariant'
<1> SUFFICES ASSUME StoreInvariant, [StoreNext]_storeVars PROVE StoreInvariant'
  OBVIOUS
<1>1. CASE Claim
  <2>1. StoreTypes'
    BY <1>1, TypesClaim DEF StoreInvariant
  <2> QED
    BY <1>1, <2>1, RingClaim, ScansClaim DEF StoreInvariant
<1>2. ASSUME NEW k \in StoreKeys, NEW t \in BOOLEAN, Fill(k, t)
      PROVE  StoreInvariant'
  BY <1>2, TypesFill, RingFill, ScansFill DEF StoreInvariant
<1>3. CASE Advance
  <2>1. StoreTypes'
    BY <1>3, TypesAdvance DEF StoreInvariant
  <2> QED
    BY <1>3, <2>1, RingAdvance, ScansAdvance DEF StoreInvariant
<1>4. ASSUME NEW a \in Scanners, ScanSegment(a) \/ ScanSlot(a)
      PROVE  StoreInvariant'
  <2>1. StoreTypes' /\ ScansInRange' /\ WrittenOnce' /\ RingHolds' /\ WriterApart' /\ SnapshotHolds'
    BY <1>4, ScanFrame
  <2>2. CompactorHolds' /\ ReaderHasSnapshot' /\ ReaderHasHead'
    BY <1>4, CompactorScans, ReaderScans DEF Scanners
  <2> QED
    BY <2>1, <2>2 DEF StoreInvariant
<1>5. CASE CompactBegin
  BY <1>5, CompactBeginKeeps
<1>6. ASSUME NEW cutoff \in 0..Cardinality(written), CompactPublish(cutoff)
      PROVE  StoreInvariant'
  BY <1>6, CompactPublishKeeps
<1>7. CASE ReadBegin
  BY <1>7, ReadBeginKeeps
<1>8. CASE ReadHead
  BY <1>8, ReadHeadKeeps
<1>9. CASE ReadReturn
  BY <1>9, ReadReturnKeeps
<1>10. CASE UNCHANGED storeVars
  <2>1. UNCHANGED <<logVars, snap, writer, scan, historyVars>>
    BY <1>10 DEF storeVars
  <2>2. UNCHANGED <<head, epoch, cursor, slot, snap, writer, scan, written, expected, unmerged,
                    lapped, purged>>
    BY <2>1 DEF logVars, historyVars
  <2>3. StoreTypes' /\ ScansInRange'
    BY <2>2 DEF StoreInvariant, StoreTypes, ScansInRange
  <2>4. WrittenOnce' /\ RingHolds' /\ WriterApart'
    BY <2>1, <2>2, LogFrame
  <2>5. SnapshotHolds' /\ CompactorHolds' /\ ReaderHasSnapshot' /\ ReaderHasHead'
    BY <2>2, SnapshotFrame, CompactorFrame, ReaderFrame
  <2> QED
    BY <2>3, <2>4, <2>5 DEF StoreInvariant
<1> QED
  BY <1>1, <1>2, <1>3, <1>4, <1>5, <1>6, <1>7, <1>8, <1>9, <1>10 DEF StoreNext

\* The invariant holds in every reachable state.
THEOREM StoreIsInvariant ==
  StoreSpec => []StoreInvariant
<1>1. StoreInit => StoreInvariant
  BY InvariantInit
<1>2. StoreInvariant /\ [StoreNext]_storeVars => StoreInvariant'
  BY InvariantNext
<1> QED
  BY <1>1, <1>2, PTL DEF StoreSpec

\* At its end a read has passed every slot written before it began.
LEMMA InvariantReads ==
  StoreInvariant => ReadsAreComplete
<1> SUFFICES ASSUME StoreInvariant, AtEnd, NEW w \in written, w.id <= expected
             PROVE  Covered(w, scan["reader"].ops) \/ w.seg \in lapped \/ Skipped(w)
  BY DEF ReadsAreComplete
<1> USE DEF StoreInvariant
<1>1. PICK s : s = scan["reader"]
  OBVIOUS
<1>2. s.pc = "segment" /\ s.i > s.h
  BY <1>1 DEF AtEnd
<1>3. /\ s.from.through <= s.h
      /\ w.seg <= s.h
      /\ Fresh(s, w) /\ Passed(s, w) => Covered(w, s.ops) \/ w.seg \in lapped
  BY <1>1, <1>2 DEF ReaderHasHead
<1>4. s.from.compacted /\ w.seg <= s.from.through => Kept(w, s.ops)
  BY <1>1, <1>2 DEF ReaderHasSnapshot
<1>5. /\ s.h \in Nat /\ s.i \in Nat /\ s.from.through \in Nat /\ s.from.headCursor \in Nat
      /\ w.seg \in Nat /\ w.at \in Nat
  <2>1. s.h \in Nat /\ s.i \in Nat /\ s.from.through \in Nat /\ s.from.headCursor \in Nat
    BY <1>1 DEF StoreTypes, Scanners, ScanFrom
  <2>2. w.seg \in Nat /\ w.at \in Nat
    BY StoreAssumption DEF StoreTypes, Slots
  <2> QED
    BY <2>1, <2>2
<1>6. Passed(s, w)
  BY <1>2, <1>3, <1>5 DEF Passed
<1>7. CASE Fresh(s, w)
  BY <1>1, <1>3, <1>6, <1>7
<1>8. CASE ~Fresh(s, w)
  <2>1. s.from.compacted /\ w.seg <= s.from.through
    BY <1>5, <1>8 DEF Fresh
  <2>2. s.h > w.seg \/ w.at < s.from.headCursor
    BY <1>3, <1>5, <1>8, <2>1 DEF Fresh
  <2> QED
    BY <1>1, <1>4, <2>1, <2>2 DEF Kept, Skipped
<1> QED
  BY <1>7, <1>8

\* A read misses no completed write but by the two losses it names: the ring reused
\* the segment, or a compaction of the open head passed over the slot.
THEOREM ReadsMissNothingElse ==
  StoreSpec => []ReadsAreComplete
<1>1. StoreInvariant => ReadsAreComplete
  BY InvariantReads
<1> QED
  BY <1>1, StoreIsInvariant, PTL

\* The published snapshot holds every completed write of the segments it stands for,
\* or a newer state of its key, but for the same two losses: what Purge removes is
\* remembered, and the head it was taken over is recorded slot by slot.
SnapshotIsComplete ==
  snap.compacted =>
    \A w \in written : w.seg <= snap.through =>
      \/ Covered(w, snap.entries)
      \/ w.seg \in lapped
      \/ <<w.seg, w.at>> \in unmerged

THEOREM SnapshotMissesNothingElse ==
  StoreSpec => []SnapshotIsComplete
<1>1. StoreInvariant => SnapshotIsComplete
  BY DEF StoreInvariant, SnapshotHolds, SnapshotIsComplete, Kept
<1> QED
  BY <1>1, StoreIsInvariant, PTL

-------------------------------------------------------------------------------
(* What a read may return.  A reused segment keeps the ops of its last pass   *)
(* in its slots, and a claimed slot that is not yet filled shows one.        *)

\* The op is one of the completed writes.
WasWritten(o) == \E w \in written : w.key = o.key /\ w.id = o.id

\* Slots, snapshot and scans hold completed writes.
Origin ==
  /\ \A p \in Places, s \in Slots : slot[p][s] = NoOp \/ WasWritten(slot[p][s])
  /\ \A o \in snap.entries : WasWritten(o)
  /\ \A a \in Scanners : \A o \in scan[a].ops : WasWritten(o)

\* A read returns completed writes, one per key, and an older one than a write
\* completed before the read began only if that write was lost in one of the two
\* ways, or if its key was deleted and the tombstone purged.  The last is what a
\* stale slot can do: it brings back a deleted key, never an older value of a live one.
ReadsReturnWrites ==
  AtEnd =>
    /\ \A o \in scan["reader"].ops : WasWritten(o)
    /\ \A o, q \in scan["reader"].ops : o.key = q.key => o.id = q.id
    /\ \A o \in scan["reader"].ops, w \in written :
         w.id <= expected /\ w.key = o.key /\ o.id < w.id =>
           purged[w.key] >= w.id \/ w.seg \in lapped \/ Skipped(w)

\* Only Fill puts a new op anywhere, and it is one that is written in the same step.
LEMMA OriginNext ==
  ASSUME StoreInvariant, StoreInvariant', Origin, [StoreNext]_storeVars
  PROVE  Origin'
<1> USE DEF StoreInvariant
<1>1. CASE UNCHANGED <<slot, snap, scan, written>>
  BY <1>1 DEF Origin, WasWritten
<1>2. CASE Claim
  BY <1>1, <1>2 DEF Claim, writerRest
<1>3. CASE Advance
  BY <1>1, <1>3 DEF Advance, writerRest
<1>4. ASSUME NEW k \in StoreKeys, NEW t \in BOOLEAN, Fill(k, t)
      PROVE  Origin'
  <2> DEFINE op == [key |-> k, id |-> NextId, tomb |-> t]
             Known(o) == \E w \in written' : w.key = o.key /\ w.id = o.id
  <2>1. written \subseteq written' /\ snap' = snap /\ scan' = scan
    BY <1>4 DEF Fill, writerRest
  <2>2. \A o : WasWritten(o) => Known(o)
    BY <2>1 DEF WasWritten
  <2>3. Known(op)
    <3>1. [key |-> k, id |-> NextId, seg |-> head, at |-> writer.at] \in written'
      BY <1>4 DEF Fill
    <3> QED
      BY <3>1
  <2>4. slot' = [slot EXCEPT ![Place(head)][writer.at] = op]
    BY <1>4 DEF Fill
  <2> HIDE DEF op, Known
  <2>5. ASSUME NEW p \in Places, NEW s \in Slots
        PROVE  slot'[p][s] = NoOp \/ Known(slot'[p][s])
    <3>1. slot'[p][s] = slot[p][s] \/ slot'[p][s] = op
      BY <2>4 DEF StoreTypes
    <3> QED
      BY <2>2, <2>3, <3>1 DEF Origin
  <2>6. \A o \in snap.entries : Known(o)
    BY <2>2 DEF Origin
  <2>7. \A a \in Scanners : \A o \in scan[a].ops : Known(o)
    BY <2>2 DEF Origin
  <2> QED
    BY <2>1, <2>5, <2>6, <2>7 DEF Origin, WasWritten, Known
<1>5. ASSUME NEW a \in Scanners, ScanSegment(a)
      PROVE  Origin'
  <2>1. scan'[a].ops = scan[a].ops
    BY <1>5, SegmentStep DEF ScanRecord
  <2>2. \A b \in Scanners : b # a => scan'[b] = scan[b]
    BY <1>5, ScanFrame
  <2>3. UNCHANGED <<slot, snap, written>>
    BY <1>5 DEF ScanSegment, logVars, historyVars
  <2> QED
    BY <2>1, <2>2, <2>3 DEF Origin, WasWritten
<1>6. ASSUME NEW a \in Scanners, ScanSlot(a)
      PROVE  Origin'
  <2>1. PICK s \in ScanRecord : s = scan[a]
    BY <1>6, SlotStep
  <2>2. PICK y \in Op \cup {NoOp} : y = slot[Place(s.i)][s.j]
    BY <1>6, <2>1, SlotStep
  <2>3. scan'[a].ops = Merge(s.ops \cup ({y} \ {NoOp}))
    BY <1>6, <2>1, <2>2, SlotStep DEF ScanRecord
  <2>4. Place(s.i) \in Places /\ s.j \in Slots
    <3>1. s.pc = "slots"
      BY <1>6, <2>1, SlotStep
    <3>2. s.j < s.n /\ s.n <= SegmentCap
      BY <2>1, <3>1 DEF ScansInRange
    <3>3. s.i \in Nat /\ s.j \in Nat /\ s.n \in Nat
      BY DEF ScanRecord
    <3> QED
      BY <3>2, <3>3, PlaceIn, StoreAssumption DEF Slots
  <2>5. y = NoOp \/ WasWritten(y)
    BY <2>2, <2>4 DEF Origin
  <2>6. \A o \in scan'[a].ops : WasWritten(o)
    BY <2>1, <2>3, <2>5 DEF Merge, Origin
  <2>7. \A b \in Scanners : b # a => scan'[b] = scan[b]
    BY <1>6, ScanFrame
  <2>8. UNCHANGED <<slot, snap, written>>
    BY <1>6 DEF ScanSlot, logVars, historyVars
  <2> QED
    BY <2>6, <2>7, <2>8 DEF Origin, WasWritten
<1>7. CASE CompactBegin
  <2>1. scan'["compactor"].ops = snap.entries /\ scan'["reader"] = scan["reader"]
    BY <1>7, CompactBeginStep
  <2>2. UNCHANGED <<slot, snap, written>>
    BY <1>7 DEF CompactBegin, logVars, historyVars
  <2> QED
    BY <2>1, <2>2 DEF Origin, WasWritten, Scanners
<1>8. ASSUME NEW cutoff, CompactPublish(cutoff)
      PROVE  Origin'
  <2>1. Merged(scan["compactor"].ops)
    BY <1>8 DEF CompactPublish, CompactorHolds
  <2>2. snap'.entries \in SUBSET scan["compactor"].ops /\ scan'["reader"] = scan["reader"]
    BY <1>8, <2>1, CompactPublishStep
  <2>3. scan'["compactor"].ops = {}
    BY <1>8 DEF CompactPublish, StoreTypes, Scanners, ScanIdle
  <2>4. UNCHANGED <<slot, written>>
    BY <1>8 DEF CompactPublish, logVars
  <2> QED
    BY <2>2, <2>3, <2>4 DEF Origin, WasWritten, Scanners
<1>9. CASE ReadBegin
  <2>1. scan'["reader"].ops = snap.entries /\ scan'["compactor"] = scan["compactor"]
    BY <1>9, ReadBeginStep
  <2>2. UNCHANGED <<slot, snap, written>>
    BY <1>9 DEF ReadBegin, logVars
  <2> QED
    BY <2>1, <2>2 DEF Origin, WasWritten, Scanners
<1>10. CASE ReadHead
  <2>1. scan'["reader"].ops = scan["reader"].ops /\ scan'["compactor"] = scan["compactor"]
    BY <1>10, ReadHeadStep
  <2>2. UNCHANGED <<slot, snap, written>>
    BY <1>10 DEF ReadHead, logVars, historyVars
  <2> QED
    BY <2>1, <2>2 DEF Origin, WasWritten, Scanners
<1>11. CASE ReadReturn
  <2>1. scan'["reader"].ops = {} /\ scan'["compactor"] = scan["compactor"]
    BY <1>11 DEF ReadReturn, StoreTypes, Scanners, ScanIdle
  <2>2. UNCHANGED <<slot, snap, written>>
    BY <1>11 DEF ReadReturn, logVars
  <2> QED
    BY <2>1, <2>2 DEF Origin, WasWritten, Scanners
<1>12. CASE UNCHANGED storeVars
  BY <1>1, <1>12 DEF storeVars, logVars, historyVars
<1> QED
  BY <1>2, <1>3, <1>4, <1>5, <1>6, <1>7, <1>8, <1>9, <1>10, <1>11, <1>12 DEF StoreNext

\* Reads return nothing else than completed writes, one per key, and outdated ones
\* only where a write was lost or a purged tombstone is missed.
THEOREM ReadsReturnOnlyWrites ==
  StoreSpec => []ReadsReturnWrites
<1>1. StoreInit => Origin
  <2> SUFFICES ASSUME StoreInit PROVE Origin
    OBVIOUS
  <2>1. \A p \in Places, s \in Slots : slot[p][s] = NoOp
    BY DEF StoreInit
  <2>2. snap.entries = {} /\ \A a \in Scanners : scan[a].ops = {}
    BY DEF StoreInit, EmptySnapshot, ScanIdle
  <2> QED
    BY <2>1, <2>2 DEF Origin
<1>2. StoreInvariant /\ StoreInvariant' /\ Origin /\ [StoreNext]_storeVars => Origin'
  BY OriginNext
<1>3. StoreInvariant /\ Origin => ReadsReturnWrites
  <2> SUFFICES ASSUME StoreInvariant, Origin, AtEnd PROVE ReadsReturnWrites
    BY DEF ReadsReturnWrites
  <2>1. PICK got : got = scan["reader"].ops
    OBVIOUS
  <2>2. Merged(got) /\ got \in SUBSET Op
    BY <2>1 DEF StoreInvariant, ReaderHasSnapshot, AtEnd, StoreTypes, Scanners
  <2>3. \A o \in got : o.id \in Nat
    BY <2>2, StoreAssumption DEF Op
  <2>4. \A o \in got : WasWritten(o)
    BY <2>1 DEF Origin, Scanners
  <2>5. \A o, q \in got : o.key = q.key => o.id = q.id
    BY <2>2, <2>3 DEF Merged
  <2>6. ASSUME NEW o \in got, NEW w \in written, w.id <= expected, w.key = o.key, o.id < w.id
        PROVE  purged[w.key] >= w.id \/ w.seg \in lapped \/ Skipped(w)
    <3>1. Covered(w, got) \/ w.seg \in lapped \/ Skipped(w)
      BY <2>1, <2>6, InvariantReads DEF ReadsAreComplete
    <3>2. w.id \in Nat
      BY DEF StoreInvariant, StoreTypes
    <3>3. ~\E q \in got : q.key = w.key /\ q.id >= w.id
      BY <2>3, <2>5, <2>6, <3>2
    <3> QED
      BY <3>1, <3>3 DEF Covered
  <2> QED
    BY <2>1, <2>4, <2>5, <2>6 DEF ReadsReturnWrites
<1> QED
  BY <1>1, <1>2, <1>3, StoreIsInvariant, PTL DEF StoreSpec
===============================================================================
