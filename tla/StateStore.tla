------------------------------ MODULE StateStore ------------------------------
(***************************************************************************)
(* The state cache (core/statecache/store.go): a ring of segments that is   *)
(* written without locks, compacted in the background into an immutable     *)
(* snapshot, and read by merging the snapshot with what was written since.  *)
(*                                                                         *)
(* Three goroutines: the dispatcher writes, the compaction loop compacts,   *)
(* a backfill or the reconciler reads.  Segments are numbered without end;  *)
(* segment i lives in ring place i % RingSize.  A step is one claim, one    *)
(* slot access or one publication.  The loads of a segment's epoch and      *)
(* cursor are one step, as only a lapped segment can change between them;   *)
(* so are the load of the head's cursor and the publication of a snapshot,  *)
(* as a claim between them only makes later reads longer.                   *)
(*                                                                         *)
(* An op is its key, its op id and whether it is a tombstone, chosen when   *)
(* it becomes visible.  The dispatcher, the only writer, assigns the ids in *)
(* order; ops of one message share an id in the code and have their own     *)
(* here.  Age follows the ids: a compaction purges the tombstones up to     *)
(* some op id, any one.  A read keeps the newest op of a key, as the        *)
(* callers of readOps do.  Topics are part of the key.  The pressure signal *)
(* only makes a compaction start earlier, and here one may start at any     *)
(* time.                                                                    *)
(***************************************************************************)
EXTENDS Naturals, FiniteSets, FiniteSetsExt

CONSTANTS StoreKeys,    \* topic:key
          TombKeys,     \* bound: the keys that are deleted
          RingSize,     \* segments of the ring
          SegmentCap,   \* slots of a segment
          MaxOps        \* bound: how many ops are written

ASSUME StoreAssumption ==
  /\ TombKeys \subseteq StoreKeys
  /\ RingSize \in Nat \ {0}
  /\ SegmentCap \in Nat \ {0}
  /\ MaxOps \in Nat

Op        == [key : StoreKeys, id : 1..MaxOps, tomb : BOOLEAN]
NoOp      == [id |-> 0]
Places    == 0..(RingSize - 1)
Slots     == 0..(SegmentCap - 1)
Scanners  == {"compactor", "reader"}

VARIABLES
  head,      \* number of the segment being written
  epoch,     \* [Places -> Nat]: pass of the ring a segment belongs to
  cursor,    \* [Places -> Nat]: slots claimed
  slot,      \* [Places -> [Slots -> Op \cup {NoOp}]]
  snap,      \* the published snapshot
  writer,    \* the dispatcher inside writeOp
  scan,      \* [Scanners -> where Compact and readOps are]
  written,   \* history: completed writes with their segment and slot
  expected,  \* history: number of writes completed when the read began
  unmerged,  \* history: slots of a head segment its compaction did not merge
  lapped,    \* history: segments reused before everyone had read them
  purged     \* history: [StoreKeys -> op id of the last purged tombstone]

logVars     == <<head, epoch, cursor, slot>>
historyVars == <<written, expected, unmerged, lapped, purged>>
storeVars   == <<logVars, snap, writer, scan, historyVars>>

EmptySnapshot == [entries |-> {}, through |-> 0, compacted |-> FALSE, headCursor |-> 0]

Covers(s) == [through |-> s.through, compacted |-> s.compacted, headCursor |-> s.headCursor]

WriterIdle == [pc |-> "idle", at |-> 0]

ScanIdle == [pc |-> "idle", from |-> Covers(EmptySnapshot), h |-> 0, i |-> 0, j |-> 0,
             n |-> 0, ops |-> {}]

StoreInit ==
  /\ head = 0
  /\ epoch = [p \in Places |-> 0]
  /\ cursor = [p \in Places |-> 0]
  /\ slot = [p \in Places |-> [s \in Slots |-> NoOp]]
  /\ snap = EmptySnapshot
  /\ writer = WriterIdle
  /\ scan = [a \in Scanners |-> ScanIdle]
  /\ written = {}
  /\ expected = 0
  /\ unmerged = {}
  /\ lapped = {}
  /\ purged = [k \in StoreKeys |-> 0]

Place(i) == i % RingSize

CapAt(n) == IF n > SegmentCap THEN SegmentCap ELSE n

\* Every write has an id of its own, in the order of the writes.
NextId == Cardinality(written) + 1

\* The highest op id wins.
Merge(ops) == {o \in ops : \A x \in ops : x.key = o.key => x.id <= o.id}

-------------------------------------------------------------------------------
(* Set and Tomb: writeOp.  The bound MaxOps may leave a claimed slot empty. *)

writerRest == <<snap, scan, expected, unmerged, purged>>

\* One atomic increment claims a slot, or finds the segment full.
Claim ==
  LET p == Place(head) IN
  /\ writer.pc \in {"idle", "claim"}
  /\ cursor' = [cursor EXCEPT ![p] = @ + 1]
  /\ writer' = IF cursor[p] < SegmentCap
               THEN [pc |-> "fill", at |-> cursor[p]]
               ELSE [pc |-> "advance", at |-> 0]
  /\ UNCHANGED <<head, epoch, slot, written, lapped, writerRest>>

Fill(k, t) ==
  LET op == [key |-> k, id |-> NextId, tomb |-> t] IN
  /\ writer.pc = "fill"
  /\ NextId <= MaxOps
  /\ t => k \in TombKeys
  /\ slot' = [slot EXCEPT ![Place(head)][writer.at] = op]
  /\ written' = written \cup {[key |-> k, id |-> NextId, seg |-> head, at |-> writer.at]}
  /\ writer' = WriterIdle
  /\ UNCHANGED <<head, epoch, cursor, lapped, writerRest>>

\* A reader or the next compaction still needs segment i; a reader also the last
\* one of its snapshot, for what follows the recorded cursor.
Needed(i) ==
  \/ ~snap.compacted \/ i > snap.through
  \/ /\ scan["reader"].pc # "idle"
     /\ ~scan["reader"].from.compacted \/ i >= scan["reader"].from.through

Lapped(next) == IF next >= RingSize /\ Needed(next - RingSize) THEN {next - RingSize} ELSE {}

\* The next segment is prepared and made visible; its slots keep what they held.
Advance ==
  LET next == head + 1
      p == Place(next)
  IN
  /\ writer.pc = "advance"
  /\ epoch' = [epoch EXCEPT ![p] = next \div RingSize]
  /\ cursor' = [cursor EXCEPT ![p] = 0]
  /\ head' = next
  /\ writer' = [writer EXCEPT !.pc = "claim"]
  /\ lapped' = lapped \cup Lapped(next)
  /\ UNCHANGED <<slot, written, writerRest>>

-------------------------------------------------------------------------------
(* The scan that Compact and readOps share.                                *)

FirstSegment(s) == IF s.compacted THEN s.through + 1 ELSE s.through

\* Epoch check and cursor of the next segment; a stale one is passed over.
ScanSegment(a) ==
  LET s == scan[a]
      p == Place(s.i)
      n == CapAt(cursor[p])
  IN
  /\ s.pc = "segment"
  /\ s.i <= s.h
  /\ scan' = [scan EXCEPT ![a] =
                IF epoch[p] = s.i \div RingSize /\ s.j < n
                THEN [s EXCEPT !.pc = "slots", !.n = n]
                ELSE [s EXCEPT !.i = s.i + 1, !.j = 0]]
  /\ UNCHANGED <<logVars, snap, writer, historyVars>>

\* An empty slot is passed over; so is nothing else, whatever its age.
ScanSlot(a) ==
  LET s == scan[a]
      got == Merge(s.ops \cup ({slot[Place(s.i)][s.j]} \ {NoOp}))
  IN
  /\ s.pc = "slots"
  /\ scan' = [scan EXCEPT ![a] =
                IF s.j + 1 < s.n
                THEN [s EXCEPT !.j = s.j + 1, !.ops = got]
                ELSE [s EXCEPT !.pc = "segment", !.i = s.i + 1, !.j = 0, !.n = 0, !.ops = got]]
  /\ UNCHANGED <<logVars, snap, writer, historyVars>>

-------------------------------------------------------------------------------
(* Compact.                                                                *)

CompactBegin ==
  /\ scan["compactor"].pc = "idle"
  /\ ~(snap.compacted /\ head = snap.through)
  /\ scan' = [scan EXCEPT !["compactor"] =
                [ScanIdle EXCEPT !.pc = "segment", !.h = head, !.i = FirstSegment(snap),
                                 !.ops = snap.entries]]
  /\ UNCHANGED <<logVars, snap, writer, historyVars>>

\* Purge, record the head segment's cursor, publish.
CompactPublish(cutoff) ==
  LET s == scan["compactor"]
      expired == {o \in s.ops : o.tomb /\ o.id <= cutoff}
  IN
  /\ s.pc = "segment"
  /\ s.i > s.h
  /\ snap' = [entries |-> s.ops \ expired, through |-> s.h, compacted |-> TRUE,
              headCursor |-> CapAt(cursor[Place(s.h)])]
  /\ scan' = [scan EXCEPT !["compactor"] = ScanIdle]
  /\ unmerged' = unmerged \cup
       {x \in {s.h} \X Slots :
          ~\E w \in written : w.seg = x[1] /\ w.at = x[2]
                             /\ \E o \in s.ops : o.key = w.key /\ o.id >= w.id}
  /\ purged' = [k \in StoreKeys |->
       Max({purged[k]} \cup {o.id : o \in {x \in expired : x.key = k}})]
  /\ UNCHANGED <<logVars, writer, written, expected, lapped>>

-------------------------------------------------------------------------------
(* readOps.                                                                *)

\* Snapshot first ...
ReadBegin ==
  /\ scan["reader"].pc = "idle"
  /\ scan' = [scan EXCEPT !["reader"] =
                [ScanIdle EXCEPT !.pc = "head", !.from = Covers(snap), !.ops = snap.entries]]
  /\ expected' = Cardinality(written)
  /\ UNCHANGED <<logVars, snap, writer, written, unmerged, lapped, purged>>

\* Seeded bug: nothing is read from a head that the snapshot covers.
ReadHead_SkipsCovered ==
  /\ scan["reader"].pc = "head"
  /\ scan' = [scan EXCEPT !["reader"].pc = "segment", !["reader"].h = head,
                          !["reader"].i = FirstSegment(scan["reader"].from)]
  /\ UNCHANGED <<logVars, snap, writer, historyVars>>

\* ... head second.  If the snapshot covers the head, only what follows its
\* cursor is new.
ReadHead ==
  LET s == scan["reader"]
      covered == s.from.compacted /\ s.from.through = head
  IN
  /\ s.pc = "head"
  /\ scan' = [scan EXCEPT !["reader"] =
                [s EXCEPT !.pc = "segment", !.h = head,
                          !.i = IF covered THEN head ELSE FirstSegment(s.from),
                          !.j = IF covered THEN s.from.headCursor ELSE 0]]
  /\ UNCHANGED <<logVars, snap, writer, historyVars>>

AtEnd == scan["reader"].pc = "segment" /\ scan["reader"].i > scan["reader"].h

ReadReturn ==
  /\ AtEnd
  /\ scan' = [scan EXCEPT !["reader"] = ScanIdle]
  /\ expected' = 0
  /\ UNCHANGED <<logVars, snap, writer, written, unmerged, lapped, purged>>

-------------------------------------------------------------------------------
StoreNext ==
  \/ Claim
  \/ \E k \in StoreKeys, t \in BOOLEAN : Fill(k, t)
  \/ Advance
  \/ \E a \in Scanners : ScanSegment(a) \/ ScanSlot(a)
  \/ CompactBegin
  \/ \E cutoff \in 0..Cardinality(written) : CompactPublish(cutoff)
  \/ ReadBegin
  \/ ReadHead
  \/ ReadReturn

StoreSpec == StoreInit /\ [][StoreNext]_storeVars

-------------------------------------------------------------------------------
(* Properties.                                                             *)

\* The write, or a later one of its key, is among the ops; or a tombstone as
\* late has been purged.
Covered(w, ops) ==
  \/ \E o \in ops : o.key = w.key /\ o.id >= w.id
  \/ purged[w.key] >= w.id

\* The slot was passed over when its segment was compacted as the head, and the
\* head has moved on or the recorded cursor is already behind the slot.
Skipped(w) ==
  /\ <<w.seg, w.at>> \in unmerged
  /\ scan["reader"].h > w.seg \/ w.at < scan["reader"].from.headCursor

\* A read returns, for every write completed before it began, that write or a
\* newer state of its key, while the writer, the compaction and the end of the
\* ring move under it.  Two losses are excepted, and no other: segments reused
\* before they were read (TestRingWrapWithoutCompaction), and slots passed over
\* by a compaction of the head segment.
ReadsAreComplete ==
  AtEnd =>
    \A w \in {x \in written : x.id <= expected} :
      Covered(w, scan["reader"].ops) \/ w.seg \in lapped \/ Skipped(w)

\* store.go, Snapshot: "returns all current entries: the compacted snapshot merged
\* with any uncompacted segments".  As above, and compaction is no excuse.
SnapshotReturnsAll ==
  AtEnd =>
    \A w \in {x \in written : x.id <= expected} :
      Covered(w, scan["reader"].ops) \/ w.seg \in lapped
===============================================================================
