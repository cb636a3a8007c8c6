----------------------------- MODULE JitterBuffer -----------------------------
(***************************************************************************)
(* The jitter buffer between the decoder of a connection and the mixer     *)
(* (core/buffers/jitter_buffer.go): one goroutine writes, one reads, they  *)
(* share a ring and two positions that only grow, and no lock.  The reader *)
(* keeps the fill in a window by skipping ("snap") and by dropping or      *)
(* inserting one frame, and widens or narrows the window by counting these *)
(* corrections.  A third goroutine may ask for the fill.                   *)
(*                                                                         *)
(* A frame is its position in the stream.  A step is one access to a       *)
(* shared position or one frame copied; what a reader does between loading *)
(* writePos and copying touches nothing a writer sees and is one step.     *)
(* Left out: the samples, the other statistics, channels.                  *)
(***************************************************************************)
EXTENDS Integers

CONSTANTS
  W, R, S,                    \* frames of a write, of a read, safety pad
  LMin, LInit, LMax,          \* the allowance for late packets
  HMin, HInit, HMax,          \* the allowance for bunched packets
  WindowReads, WidenThreshold, WidenStep, NarrowStep,
  WriteSizes, ReadSizes,      \* frames per call; the mixer reads R at a time
  MaxFrames                   \* bound on writePos

\* The panics of the constructor, the signs of its constants, and a window that
\* narrows slowly: by half a millisecond in 400 reads.
ASSUME GeometryAssumption ==
  /\ {W, R, S, LMin, LInit, LMax, HMin, HInit, HMax} \subseteq Nat
  /\ W > 0 /\ R > 0
  /\ LMin <= LInit /\ LInit <= LMax
  /\ HMin <= HInit /\ HInit <= HMax
  /\ {WindowReads, WidenThreshold, WidenStep, NarrowStep, MaxFrames} \subseteq Nat
  /\ WidenThreshold > 0 /\ WindowReads > 0
  /\ NarrowStep <= W /\ NarrowStep <= WindowReads
  /\ WriteSizes \subseteq Nat \ {0}
  /\ ReadSizes \subseteq 1..R

None == -1

Larger(a, b) == IF a < b THEN b ELSE a
Smaller(a, b) == IF a < b THEN a ELSE b

Floor == R + S
BandTop == Floor + LMax + 2 * W + HMax
Capacity == 2 * BandTop + 2 * Larger(W, R)

VARIABLES
  writePos, readPos,   \* frames published, frames consumed
  data,                \* what each place of the ring holds
  currentL, currentH,
  window,              \* [inserts, drops, reads] of the current window
  write,               \* the Write under way: n frames, done of them copied
  read,                \* the Read under way: see Read
  observed,            \* readPos as fillFrames has loaded it, or None
  measured,            \* history: 0, or the lowest fill measured if negative
  snappedAt,           \* history: writePos at the last snap
  resnapped,           \* history: the reader snapped twice without a write
  damage               \* history: how far the writer had come in a Read that
                       \* copied a wrong frame, or None

adaptVars == <<currentL, currentH, window>>
writerVars == <<writePos, data, write>>
historyVars == <<measured, snappedAt, resnapped, damage>>
vars == <<writerVars, readPos, adaptVars, read, observed, historyVars>>

Idle == [n |-> 0, done |-> 0]
NoRead == [n |-> 0, at |-> 0, from |-> 0, corr |-> 0, seen |-> 0]
NewWindow == [inserts |-> 0, drops |-> 0, reads |-> 0]

Init ==
  /\ writePos = 0 /\ readPos = 0
  /\ data = [i \in 0..(Capacity - 1) |-> None]
  /\ currentL = LInit /\ currentH = HInit /\ window = NewWindow
  /\ write = Idle /\ read = NoRead
  /\ observed = None /\ measured = 0
  /\ snappedAt = None /\ resnapped = FALSE /\ damage = None

-------------------------------------------------------------------------------
(* The window: levels, adapt, decide.                                      *)

SnapTarget == Floor + currentL + W
DropLine == SnapTarget + currentH

\* Seeded bug: no room for the frame being written.
OverrunAt_NoFrame == Floor + currentL + currentH

OverrunAt == SnapTarget + W + currentH

\* Corrections on both sides are jitter and widen the window; a side that is
\* calm narrows; corrections on one side only are drift.
Decide(inserts, drops) ==
  IF Smaller(inserts, drops) >= WidenThreshold
  THEN /\ currentL' = Smaller(currentL + WidenStep, LMax)
       /\ currentH' = Smaller(currentH + WidenStep, HMax)
  ELSE /\ currentL' = IF inserts = 0 THEN Larger(currentL - NarrowStep, LMin) ELSE currentL
       /\ currentH' = IF drops = 0 THEN Larger(currentH - NarrowStep, HMin) ELSE currentH

\* One read, which inserted or dropped as corr says, ends.
Adapt(corr) ==
  LET inserts == window.inserts + (IF corr = -1 THEN 1 ELSE 0)
      drops == window.drops + (IF corr = 1 THEN 1 ELSE 0)
      reads == window.reads + 1
  IN IF reads < WindowReads
     THEN /\ window' = [inserts |-> inserts, drops |-> drops, reads |-> reads]
          /\ UNCHANGED <<currentL, currentH>>
     ELSE /\ window' = NewWindow
          /\ Decide(inserts, drops)

-------------------------------------------------------------------------------
(* The writer.                                                             *)

\* Write: of more than the ring holds only the end is kept.
Write(n) ==
  LET kept == Smaller(n, Capacity)
  IN /\ write.n = 0
     /\ writePos + kept <= MaxFrames
     /\ write' = [n |-> kept, done |-> 0]
     /\ UNCHANGED <<writePos, data, readPos, adaptVars, read, observed, historyVars>>

\* writeToRing.
WriteToRing ==
  LET p == writePos + write.done
  IN /\ write.done < write.n
     /\ data' = [data EXCEPT ![p % Capacity] = p]
     /\ write' = [write EXCEPT !.done = @ + 1]
     /\ UNCHANGED <<writePos, readPos, adaptVars, read, observed, historyVars>>

\* "publish writePos after the data is in the ring".
Publish ==
  /\ write.n > 0
  /\ write.done = write.n
  /\ writePos' = writePos + write.n
  /\ write' = Idle
  /\ UNCHANGED <<data, readPos, adaptVars, read, observed, historyVars>>

-------------------------------------------------------------------------------
(* The reader.                                                             *)

Fill == writePos - readPos

\* No Read has produced audio yet, and there is not enough for the first one.
Starting == readPos = 0 /\ Fill < SnapTarget

\* Seeded bug: only a reader that has been lapped snaps.
Overrun_LapOnly == Fill >= Capacity

\* Lapped, or above the overrun line.
Overrun == Fill >= Capacity \/ Fill > OverrunAt

\* Where this Read begins: the first one, a lapped and an overrun one skip.
Snaps == readPos = 0 \/ Overrun
SnappedPos == IF Snaps THEN writePos - SnapTarget ELSE readPos

\* 1: drop a frame, -1: insert one.
Correction(fill, n) ==
  IF fill > DropLine /\ fill >= n + 1 THEN 1
  ELSE IF fill < Floor /\ n >= 2 THEN -1 ELSE 0

\* The skip is visible at once.
Snap ==
  /\ readPos' = SnappedPos
  /\ snappedAt' = IF Snaps THEN writePos ELSE snappedAt
  /\ resnapped' = (resnapped \/ (readPos # 0 /\ Overrun /\ snappedAt = writePos))

\* Read, startup or underrun: silence, nothing is consumed.
ReadSilence(n) ==
  /\ read.n = 0
  /\ IF Starting THEN UNCHANGED <<readPos, snappedAt, resnapped>>
     ELSE writePos - SnappedPos < n /\ Snap
  /\ Adapt(0)
  /\ UNCHANGED <<writerVars, read, observed, measured, damage>>

\* Read, playing: n frames from the skipped position on, and for a drop the one
\* after them, are going to be read.  An insert reads n and consumes one less.
Read(n) ==
  LET fill == writePos - SnappedPos
      corr == Correction(fill, n)
  IN /\ read.n = 0
     /\ ~Starting
     /\ fill >= n
     /\ Snap
     /\ read' = [n |-> n + Larger(corr, 0), at |-> 0, from |-> SnappedPos,
                 corr |-> corr, seen |-> writePos]
     /\ UNCHANGED <<writerVars, adaptVars, observed, measured, damage>>

\* readFromRing, and the frame beyond it that is averaged in.
ReadFromRing ==
  LET p == read.from + read.at
  IN /\ read.at < read.n
     /\ read' = [read EXCEPT !.at = @ + 1]
     /\ damage' = IF data[p % Capacity] # p /\ damage = None
                  THEN writePos + write.done - read.seen ELSE damage
     /\ UNCHANGED <<writerVars, readPos, adaptVars, observed, measured, snappedAt, resnapped>>

\* The Read consumes what it played, and adapts.
ReadReturns ==
  /\ read.n > 0
  /\ read.at = read.n
  /\ readPos' = read.from + read.n - (IF read.corr = -1 THEN 1 ELSE 0)
  /\ read' = NoRead
  /\ Adapt(read.corr)
  /\ UNCHANGED <<writerVars, observed, historyVars>>

-------------------------------------------------------------------------------
(* Anybody: fillFrames, behind GetStats, Snapshot and GetBehind.           *)

Measure(fill) == measured' = Smaller(measured, fill)

\* Seeded bug: the two loads in the other order.
FillFrames_WriteFirst ==
  /\ \/ /\ observed = None
        /\ observed' = writePos
        /\ UNCHANGED measured
     \/ /\ observed # None
        /\ observed' = None
        /\ Measure(observed - readPos)
  /\ UNCHANGED <<writerVars, readPos, adaptVars, read, snappedAt, resnapped, damage>>

\* readPos, then writePos.
FillFrames ==
  /\ \/ /\ observed = None
        /\ observed' = readPos
        /\ UNCHANGED measured
     \/ /\ observed # None
        /\ observed' = None
        /\ Measure(writePos - observed)
  /\ UNCHANGED <<writerVars, readPos, adaptVars, read, snappedAt, resnapped, damage>>

-------------------------------------------------------------------------------
Next ==
  \/ \E n \in WriteSizes : Write(n)
  \/ WriteToRing
  \/ Publish
  \/ \E n \in ReadSizes : ReadSilence(n) \/ Read(n)
  \/ ReadFromRing
  \/ ReadReturns
  \/ FillFrames

Spec == Init /\ [][Next]_vars

-------------------------------------------------------------------------------
\* How far the writer may come while a Read copies.
Headroom == Capacity - BandTop

\* "only ever a recoverable snap, never corruption": every frame a Read copies is
\* the one that was written at its position, unless during this Read the writer
\* got through more than the half of the ring that is kept free for it.
IntactAudio == damage = None \/ damage > Headroom

\* "snapping out of an overrun doesn't re-trip it", although the Read may have
\* narrowed the window: between two snaps something has been written.
SnapsAreApart == ~resnapped

\* "the observed fill is non-negative", whatever the reader skips in between.
FillNeverNegative == measured >= 0
===============================================================================
