-------------------------- MODULE JitterBuffer_proofs --------------------------
(***************************************************************************)
(* Proofs about JitterBuffer, for every geometry the constructor accepts   *)
(* whose window narrows slowly: what a Read returns is intact unless the   *)
(* writer overtakes it by half the ring, no snap follows a snap without a  *)
(* write between them, and no observer measures a negative fill.           *)
(***************************************************************************)
EXTENDS JitterBuffer, TLAPS

\* The ranges of the variables.
JitterTypes ==
  /\ writePos \in Nat /\ readPos \in Nat
  /\ data \in [0..(Capacity - 1) -> Int]
  /\ currentL \in LMin..LMax /\ currentH \in HMin..HMax
  /\ window \in [inserts : Nat, drops : Nat, reads : 0..(WindowReads - 1)]
  /\ write \in [n : 0..Capacity, done : Nat] /\ write.done <= write.n
  /\ read \in [n : Nat, at : Nat, from : Nat, corr : {-1, 0, 1}, seen : Nat]
  /\ observed \in Nat \cup {None}
  /\ snappedAt \in Nat \cup {None}
  /\ damage \in Int

\* Nobody is ahead of the writer, and a Read copies from what was published
\* when it began, no further back than the overrun line.
Positions ==
  /\ readPos <= writePos
  /\ observed # None => observed <= writePos
  /\ read.n > 0 =>
       /\ readPos = read.from
       /\ read.from + read.n <= read.seen
       /\ read.seen <= writePos
       /\ read.seen - read.from <= BandTop
       /\ read.corr = -1 => read.n >= 2
  /\ snappedAt # None => snappedAt <= writePos

\* The ring holds the frames copied last, as many as it has places.
RingHolds ==
  \A p \in Nat :
    (p < writePos + write.done /\ writePos + write.done <= p + Capacity)
      => data[p % Capacity] = p

\* How far the fill is above the point a snap aims at.
Above == writePos - readPos - SnapTarget

\* Since the last snap nothing was written, each Read took at least one frame,
\* and the window has narrowed at most once per WindowReads of them.
Calm ==
  snappedAt = writePos =>
    /\ Above <= NarrowStep
    /\ Above + window.reads <= WindowReads - 1

JitterInv ==
  /\ JitterTypes
  /\ Positions
  /\ RingHolds
  /\ Calm
  /\ measured = 0
  /\ resnapped = FALSE
  /\ IntactAudio

-------------------------------------------------------------------------------
\* Capacity and its parts are natural numbers, with the headroom promised.
LEMMA Geometry ==
  /\ Floor \in Nat /\ Floor >= R
  /\ BandTop \in Nat
  /\ Capacity \in Nat
  /\ Capacity > BandTop + W
  /\ BandTop = Floor + LMax + 2 * W + HMax
  /\ Headroom \in Nat
  /\ Headroom = Capacity - BandTop
BY GeometryAssumption DEF Floor, BandTop, Capacity, Larger, Headroom

\* The levels lie between the floor and the top of the band.
LEMMA LevelsOrdered ==
  ASSUME JitterTypes
  PROVE  /\ SnapTarget \in Nat /\ OverrunAt \in Nat /\ DropLine \in Nat
         /\ SnapTarget = Floor + currentL + W
         /\ OverrunAt = SnapTarget + W + currentH
         /\ OverrunAt <= BandTop
<1>1. /\ currentL \in Int /\ LMin <= currentL /\ currentL <= LMax
      /\ currentH \in Int /\ HMin <= currentH /\ currentH <= HMax
  BY GeometryAssumption DEF JitterTypes
<1>2. W \in Nat /\ LMin \in Nat /\ HMin \in Nat /\ LMax \in Nat /\ HMax \in Nat
  BY GeometryAssumption
<1> QED
  BY <1>1, <1>2, Geometry DEF SnapTarget, OverrunAt, DropLine

\* Two frames less than a ring apart have different places.
LEMMA PlacesDiffer ==
  ASSUME NEW c \in Nat \ {0}, NEW p \in Nat, NEW q \in Nat, p < q, q < p + c
  PROVE  p % c # q % c
<1> DEFINE i == p \div c
           j == q \div c
<1>1. i \in Int /\ j \in Int /\ p = (c * i) + (p % c) /\ q = (c * j) + (q % c)
  OBVIOUS
<1>2. SUFFICES ASSUME p % c = q % c PROVE FALSE
  OBVIOUS
<1> HIDE DEF i, j
<1>3. PICK k \in Int : k = j - i
  BY <1>1
<1>4. c * k = q - p
  BY <1>1, <1>2, <1>3
<1>5. CASE k <= 0
  BY <1>4, <1>5
<1>6. CASE k >= 1
  BY <1>4, <1>6
<1> QED
  BY <1>3, <1>5, <1>6

-------------------------------------------------------------------------------
\* The window stays in its bounds, and narrows at its end only.
LEMMA WindowKept ==
  ASSUME JitterTypes, NEW corr \in {-1, 0, 1}, Adapt(corr)
  PROVE  /\ currentL' \in LMin..LMax /\ currentH' \in HMin..HMax
         /\ window' \in [inserts : Nat, drops : Nat, reads : 0..(WindowReads - 1)]
         /\ \/ window'.reads = window.reads + 1 /\ currentL' = currentL
            \/ /\ window'.reads = 0 /\ window.reads = WindowReads - 1
               /\ currentL' >= currentL - NarrowStep
<1>1. /\ LMin \in Nat /\ LMax \in Nat /\ HMin \in Nat /\ HMax \in Nat
      /\ WidenStep \in Nat /\ NarrowStep \in Nat /\ WindowReads \in Nat
      /\ WindowReads > 0 /\ LMin <= LMax /\ HMin <= HMax
  BY GeometryAssumption
<1>2. /\ currentL \in LMin..LMax /\ currentH \in HMin..HMax
      /\ window.inserts \in Nat /\ window.drops \in Nat
      /\ window.reads \in 0..(WindowReads - 1)
  BY DEF JitterTypes
<1> DEFINE inserts == window.inserts + (IF corr = -1 THEN 1 ELSE 0)
           drops == window.drops + (IF corr = 1 THEN 1 ELSE 0)
<1>3. inserts \in Nat /\ drops \in Nat
  BY <1>2
<1>4. CASE window.reads + 1 < WindowReads
  <2>1. /\ window' = [inserts |-> inserts, drops |-> drops, reads |-> window.reads + 1]
        /\ currentL' = currentL /\ currentH' = currentH
    BY <1>4 DEF Adapt
  <2> QED
    BY <2>1, <1>1, <1>2, <1>3, <1>4
<1>5. CASE ~(window.reads + 1 < WindowReads)
  <2>1. window' = NewWindow /\ Decide(inserts, drops)
    BY <1>5 DEF Adapt
  <2>2. window' \in [inserts : Nat, drops : Nat, reads : 0..(WindowReads - 1)]
    BY <2>1, <1>1 DEF NewWindow
  <2>3. window'.reads = 0 /\ window.reads = WindowReads - 1
    BY <2>1, <1>1, <1>2, <1>5 DEF NewWindow
  <2>4. /\ currentL' \in LMin..LMax /\ currentH' \in HMin..HMax
        /\ currentL' >= currentL - NarrowStep
    BY <2>1, <1>1, <1>2 DEF Decide, Smaller, Larger
  <2> QED
    BY <2>2, <2>3, <2>4
<1> QED
  BY <1>4, <1>5

\* A Read that is past its start begins in the band, and never further back
\* than the one before it ended.
LEMMA BeginsInBand ==
  ASSUME JitterTypes, Positions, ~Starting
  PROVE  /\ SnappedPos \in Nat
         /\ readPos <= SnappedPos /\ SnappedPos <= writePos
         /\ writePos - SnappedPos <= BandTop
         /\ Snaps => writePos - SnappedPos = SnapTarget
         /\ ~Snaps => SnappedPos = readPos
<1>1. /\ writePos \in Nat /\ readPos \in Nat /\ readPos <= writePos
  BY DEF JitterTypes, Positions
<1>2. /\ SnapTarget \in Nat /\ OverrunAt \in Nat /\ OverrunAt <= BandTop
      /\ SnapTarget <= OverrunAt /\ BandTop \in Nat /\ Capacity \in Nat
      /\ BandTop < Capacity
  <2>1. W \in Nat /\ HMin \in Nat /\ currentH \in Int /\ HMin <= currentH
    BY GeometryAssumption DEF JitterTypes
  <2> QED
    BY <2>1, LevelsOrdered, Geometry
<1>3. readPos = 0 => writePos - readPos >= SnapTarget
  BY <1>1, <1>2 DEF Starting, Fill
<1>4. CASE Snaps
  <2>1. SnappedPos = writePos - SnapTarget
    BY <1>4 DEF SnappedPos
  <2>2. writePos - readPos >= SnapTarget
    BY <1>1, <1>2, <1>3, <1>4 DEF Snaps, Overrun, Fill
  <2> QED
    BY <2>1, <2>2, <1>1, <1>2, <1>4
<1>5. CASE ~Snaps
  <2>1. SnappedPos = readPos
    BY <1>5 DEF SnappedPos
  <2>2. writePos - readPos <= OverrunAt
    BY <1>1, <1>2, <1>5 DEF Snaps, Overrun, Fill
  <2> QED
    BY <2>1, <2>2, <1>1, <1>2, <1>5
<1> QED
  BY <1>4, <1>5

\* With nothing written since the last snap, the reader is not in overrun.
LEMMA NoSnapAgain ==
  ASSUME JitterTypes, Positions, Calm, Overrun
  PROVE  snappedAt # writePos
<1>1. /\ writePos \in Nat /\ readPos \in Nat
      /\ currentH \in Int /\ HMin <= currentH
  BY GeometryAssumption DEF JitterTypes
<1>2. W \in Nat /\ HMin \in Nat /\ NarrowStep \in Nat /\ NarrowStep <= W
  BY GeometryAssumption
<1>3. SnapTarget \in Nat /\ OverrunAt = SnapTarget + W + currentH /\ OverrunAt <= BandTop
  BY LevelsOrdered
<1>4. BandTop \in Nat /\ Capacity \in Nat /\ BandTop < Capacity
  BY <1>2, Geometry
<1> QED
  BY <1>1, <1>2, <1>3, <1>4 DEF Calm, Above, Overrun, Fill

-------------------------------------------------------------------------------
LEMMA InitEstablishes == Init => JitterInv
<1> SUFFICES ASSUME Init PROVE JitterInv
  OBVIOUS
<1>1. /\ {LMin, LInit, LMax, HMin, HInit, HMax, WindowReads} \subseteq Nat
      /\ LMin <= LInit /\ LInit <= LMax /\ HMin <= HInit /\ HInit <= HMax
      /\ WindowReads > 0
  BY GeometryAssumption
<1>2. /\ writePos = 0 /\ readPos = 0 /\ measured = 0 /\ resnapped = FALSE
      /\ snappedAt = None /\ damage = None /\ observed = None
      /\ read = NoRead /\ write = Idle /\ window = NewWindow
      /\ currentL = LInit /\ currentH = HInit
      /\ data = [i \in 0..(Capacity - 1) |-> None]
  BY DEF Init
<1>3. JitterTypes
  <2>1. currentL \in LMin..LMax /\ currentH \in HMin..HMax
    BY <1>1, <1>2
  <2>2. window \in [inserts : Nat, drops : Nat, reads : 0..(WindowReads - 1)]
    BY <1>1, <1>2 DEF NewWindow
  <2>3. write \in [n : 0..Capacity, done : Nat] /\ write.done <= write.n
    BY <1>2, Geometry DEF Idle
  <2>4. data \in [0..(Capacity - 1) -> Int]
    BY <1>2 DEF None
  <2>5. read \in [n : Nat, at : Nat, from : Nat, corr : {-1, 0, 1}, seen : Nat]
    BY <1>2 DEF NoRead
  <2> QED
    BY <1>2, <2>1, <2>2, <2>3, <2>4, <2>5 DEF JitterTypes, None
<1>4. Positions
  BY <1>2 DEF Positions, NoRead
<1>5. RingHolds
  BY <1>2 DEF RingHolds, Idle
<1>6. Calm
  BY <1>2 DEF Calm, None
<1> QED
  BY <1>2, <1>3, <1>4, <1>5, <1>6 DEF JitterInv, IntactAudio

LEMMA WriteKeeps == ASSUME JitterInv, NEW n \in WriteSizes, Write(n) PROVE JitterInv'
<1> USE DEF JitterInv
<1> DEFINE kept == Smaller(n, Capacity)
<1>1. /\ write.n = 0 /\ write' = [n |-> kept, done |-> 0]
      /\ UNCHANGED <<writePos, data, readPos, currentL, currentH, window, read, observed,
                     measured, snappedAt, resnapped, damage>>
  BY DEF Write, adaptVars, historyVars
<1>2. kept \in 0..Capacity /\ write.done = 0 /\ writePos \in Nat
  <2>1. n \in Nat /\ Capacity \in Nat
    BY Geometry, GeometryAssumption
  <2>2. write.done \in Nat /\ write.done <= write.n /\ writePos \in Nat
    BY DEF JitterTypes
  <2> QED
    BY <1>1, <2>1, <2>2 DEF Smaller
<1> HIDE DEF kept
<1>3. JitterTypes'
  <2>1. write' \in [n : 0..Capacity, done : Nat] /\ write'.done <= write'.n
    BY <1>1, <1>2
  <2> QED
    BY <1>1, <2>1 DEF JitterTypes
<1>4. Positions'
  BY <1>1 DEF Positions
<1>5. RingHolds'
  BY <1>1, <1>2 DEF RingHolds
<1>6. Calm'
  BY <1>1 DEF Calm, Above, SnapTarget
<1> QED
  BY <1>1, <1>3, <1>4, <1>5, <1>6 DEF IntactAudio

LEMMA WriteToRingKeeps == ASSUME JitterInv, WriteToRing PROVE JitterInv'
<1> USE DEF JitterInv
<1> DEFINE q == writePos + write.done
<1>1. /\ write.done < write.n
      /\ data' = [data EXCEPT ![q % Capacity] = q]
      /\ write' = [write EXCEPT !.done = @ + 1]
      /\ UNCHANGED <<writePos, readPos, currentL, currentH, window, read, observed,
                     measured, snappedAt, resnapped, damage>>
  BY DEF WriteToRing, adaptVars, historyVars
<1>2. /\ writePos \in Nat /\ write.done \in Nat /\ write.n \in 0..Capacity
      /\ write \in [n : 0..Capacity, done : Nat]
      /\ data \in [0..(Capacity - 1) -> Int]
  BY DEF JitterTypes
<1>3. Capacity \in Nat \ {0} /\ q \in Nat
  <2>1. Capacity \in Nat
    BY Geometry
  <2>2. write.done < write.n
    BY <1>1
  <2>3. writePos \in Nat /\ write.done \in Nat /\ write.n \in 0..Capacity
    BY <1>2
  <2> QED
    BY <2>1, <2>2, <2>3
<1>4. q % Capacity \in 0..(Capacity - 1)
  BY <1>3
<1>5. write'.done = write.done + 1 /\ writePos' + write'.done = q + 1
  BY <1>1, <1>2
<1>6. JitterTypes'
  <2>1. write' \in [n : 0..Capacity, done : Nat] /\ write'.done <= write'.n
    BY <1>1, <1>2, Geometry
  <2>2. data' \in [0..(Capacity - 1) -> Int]
    BY <1>1, <1>2, <1>3
  <2> QED
    BY <1>1, <2>1, <2>2 DEF JitterTypes
<1>7. Positions'
  BY <1>1 DEF Positions
<1>8. RingHolds'
  <2> SUFFICES ASSUME NEW p \in Nat, p < q + 1, q + 1 <= p + Capacity
               PROVE  data'[p % Capacity] = p
    BY <1>5 DEF RingHolds
  <2>1. CASE p = q
    BY <2>1, <1>1, <1>2, <1>4
  <2>2. CASE p # q
    <3>1. p < q /\ q < p + Capacity /\ q <= p + Capacity
      BY <2>2, <1>3
    <3>2. data[p % Capacity] = p
      BY <3>1 DEF RingHolds
    <3>3. p % Capacity # q % Capacity
      BY <3>1, <1>3, PlacesDiffer
    <3>4. p % Capacity \in 0..(Capacity - 1)
      BY <1>3
    <3> QED
      BY <3>2, <3>3, <3>4, <1>1, <1>2
  <2> QED
    BY <2>1, <2>2
<1>9. Calm'
  BY <1>1 DEF Calm, Above, SnapTarget
<1> QED
  BY <1>1, <1>6, <1>7, <1>8, <1>9 DEF IntactAudio

LEMMA PublishKeeps == ASSUME JitterInv, Publish PROVE JitterInv'
<1> USE DEF JitterInv
<1>1. /\ write.n > 0 /\ write.done = write.n
      /\ writePos' = writePos + write.n
      /\ write' = Idle
      /\ UNCHANGED <<data, readPos, currentL, currentH, window, read, observed,
                     measured, snappedAt, resnapped, damage>>
  BY DEF Publish, adaptVars, historyVars
<1>2. /\ writePos \in Nat /\ write.n \in 0..Capacity /\ Capacity \in Nat /\ readPos \in Nat
      /\ observed \in Nat \cup {None} /\ snappedAt \in Nat \cup {None}
      /\ read \in [n : Nat, at : Nat, from : Nat, corr : {-1, 0, 1}, seen : Nat]
  BY Geometry DEF JitterTypes
<1>3. JitterTypes'
  <2>1. write' \in [n : 0..Capacity, done : Nat] /\ write'.done <= write'.n
    BY <1>1, <1>2 DEF Idle
  <2>2. writePos' \in Nat
    BY <1>1, <1>2
  <2> QED
    BY <1>1, <2>1, <2>2 DEF JitterTypes
<1>4. Positions'
  BY <1>1, <1>2 DEF Positions, None
<1>5. RingHolds'
  BY <1>1, <1>2 DEF RingHolds, Idle
<1>6. Calm'
  <2>1. snappedAt' # writePos'
    BY <1>1, <1>2 DEF Positions, None
  <2> QED
    BY <2>1 DEF Calm
<1> QED
  BY <1>1, <1>3, <1>4, <1>5, <1>6 DEF IntactAudio

\* What the reader may assume about its own state.
LEMMA ReaderFacts ==
  ASSUME JitterTypes
  PROVE  /\ writePos \in Nat /\ readPos \in Nat
         /\ read.n \in Nat /\ read.at \in Nat /\ read.from \in Nat /\ read.seen \in Nat
         /\ read.corr \in {-1, 0, 1}
         /\ window.reads \in 0..(WindowReads - 1)
         /\ WindowReads \in Nat /\ NarrowStep \in Nat /\ NarrowStep <= WindowReads
         /\ W \in Nat /\ NarrowStep <= W /\ Floor \in Nat /\ R \in Nat /\ R <= Floor
         /\ currentL \in Nat /\ SnapTarget = Floor + currentL + W
<1>1. /\ WindowReads \in Nat /\ NarrowStep \in Nat /\ NarrowStep <= WindowReads
      /\ W \in Nat /\ NarrowStep <= W /\ R \in Nat /\ LMin \in Nat /\ LMax \in Nat
  BY GeometryAssumption
<1>2. Floor \in Nat /\ R <= Floor
  BY <1>1, Geometry
<1>3. /\ writePos \in Nat /\ readPos \in Nat
      /\ read \in [n : Nat, at : Nat, from : Nat, corr : {-1, 0, 1}, seen : Nat]
      /\ window \in [inserts : Nat, drops : Nat, reads : 0..(WindowReads - 1)]
      /\ currentL \in LMin..LMax
  BY DEF JitterTypes
<1>4. /\ read.n \in Nat /\ read.at \in Nat /\ read.from \in Nat /\ read.seen \in Nat
      /\ read.corr \in {-1, 0, 1} /\ window.reads \in 0..(WindowReads - 1)
  BY <1>3
<1>5. currentL \in Nat
  BY <1>1, <1>3
<1> QED
  BY <1>1, <1>2, <1>3, <1>4, <1>5 DEF SnapTarget

\* A skip keeps the positions in order, and is never the second at one writePos.
LEMMA SnapKeeps ==
  ASSUME JitterTypes, Positions, Calm, ~Starting, Snap, resnapped = FALSE, UNCHANGED writePos
  PROVE  /\ readPos' \in Nat /\ readPos' = SnappedPos /\ readPos' <= writePos'
         /\ readPos <= readPos'
         /\ snappedAt' \in Nat \cup {None}
         /\ snappedAt' # None => snappedAt' <= writePos'
         /\ resnapped' = FALSE
<1>1. readPos' = SnappedPos /\ writePos' = writePos
  BY DEF Snap
<1>2. SnappedPos \in Nat /\ readPos <= SnappedPos /\ SnappedPos <= writePos
  BY BeginsInBand
<1>3. snappedAt' = IF Snaps THEN writePos ELSE snappedAt
  BY DEF Snap
<1>4. writePos \in Nat /\ snappedAt \in Nat \cup {None}
  BY DEF JitterTypes
<1>5. snappedAt' \in Nat \cup {None}
  BY <1>3, <1>4
<1>6. snappedAt' # None => snappedAt' <= writePos'
  BY <1>1, <1>3, <1>4 DEF Positions
<1>7. resnapped' = FALSE
  BY NoSnapAgain DEF Snap
<1> QED
  BY <1>1, <1>2, <1>5, <1>6, <1>7

LEMMA ReadSilenceKeeps ==
  ASSUME JitterInv, NEW n \in ReadSizes, ReadSilence(n) PROVE JitterInv'
<1> USE DEF JitterInv
<1>1. /\ read.n = 0 /\ Adapt(0)
      /\ UNCHANGED <<writePos, data, write, read, observed, measured, damage>>
  BY DEF ReadSilence, writerVars
<1>2. n \in Nat /\ n <= R
  BY GeometryAssumption
<1>3. /\ readPos' \in Nat /\ readPos' <= writePos'
      /\ snappedAt' \in Nat \cup {None}
      /\ snappedAt' # None => snappedAt' <= writePos'
      /\ resnapped' = FALSE
      /\ \/ readPos' = readPos /\ writePos - readPos < SnapTarget
         \/ writePos - readPos' < n
  <2>1. CASE Starting
    <3>1. UNCHANGED <<readPos, snappedAt, resnapped>>
      BY <2>1 DEF ReadSilence
    <3>2. writePos - readPos < SnapTarget
      BY <2>1 DEF Starting, Fill
    <3> QED
      BY <3>1, <3>2, <1>1 DEF JitterTypes, Positions
  <2>2. CASE ~Starting
    <3>1. Snap /\ writePos - SnappedPos < n
      BY <2>2 DEF ReadSilence
    <3> QED
      BY <2>2, <3>1, <1>1, SnapKeeps
  <2> QED
    BY <2>1, <2>2
<1>4. /\ currentL' \in LMin..LMax /\ currentH' \in HMin..HMax
      /\ window' \in [inserts : Nat, drops : Nat, reads : 0..(WindowReads - 1)]
      /\ \/ window'.reads = window.reads + 1 /\ currentL' = currentL
         \/ /\ window'.reads = 0 /\ window.reads = WindowReads - 1
            /\ currentL' >= currentL - NarrowStep
  BY <1>1, WindowKept
<1>5. JitterTypes'
  BY <1>1, <1>3, <1>4 DEF JitterTypes
<1>6. Positions'
  BY <1>1, <1>3 DEF Positions
<1>7. RingHolds'
  BY <1>1 DEF RingHolds
<1>8. Calm'
  <2>1. /\ SnapTarget' = Floor + currentL' + W /\ currentL' \in Nat
        /\ window'.reads \in 0..(WindowReads - 1)
    BY <1>4, <1>5, GeometryAssumption DEF SnapTarget
  <2>2. Above' < NarrowStep /\ Above' + window'.reads <= WindowReads - 1
    <3>1. Above' = writePos - readPos' - (Floor + currentL' + W)
      BY <1>1, <2>1 DEF Above
    <3>2. CASE writePos - readPos' < n
      BY <3>1, <3>2, <1>2, <1>3, <2>1, ReaderFacts
    <3>3. CASE readPos' = readPos /\ writePos - readPos < SnapTarget
      BY <3>1, <3>3, <1>4, <2>1, ReaderFacts
    <3> QED
      BY <3>2, <3>3, <1>3
  <2>3. Above' \in Int /\ NarrowStep \in Int
    BY <1>1, <1>3, <2>1, ReaderFacts DEF Above
  <2> QED
    BY <2>2, <2>3 DEF Calm
<1> QED
  BY <1>1, <1>3, <1>5, <1>6, <1>7, <1>8 DEF IntactAudio

LEMMA ReadKeeps == ASSUME JitterInv, NEW n \in ReadSizes, Read(n) PROVE JitterInv'
<1> USE DEF JitterInv
<1> DEFINE fill == writePos - SnappedPos
           corr == Correction(fill, n)
<1>1. /\ ~Starting /\ fill >= n /\ Snap
      /\ read' = [n |-> n + Larger(corr, 0), at |-> 0, from |-> SnappedPos,
                  corr |-> corr, seen |-> writePos]
      /\ UNCHANGED <<writePos, data, write, currentL, currentH, window, observed, measured,
                     damage>>
  BY DEF Read, writerVars, adaptVars
<1>2. n \in Nat /\ n >= 1
  BY GeometryAssumption
<1>3. /\ readPos' \in Nat /\ readPos' = SnappedPos /\ readPos' <= writePos'
      /\ snappedAt' \in Nat \cup {None}
      /\ snappedAt' # None => snappedAt' <= writePos'
      /\ resnapped' = FALSE
  BY <1>1, SnapKeeps
<1>4. /\ corr \in {-1, 0, 1}
      /\ corr = -1 => n >= 2
      /\ corr = 1 => fill >= n + 1
  BY DEF Correction
<1>5. /\ SnappedPos \in Nat /\ fill <= BandTop
      /\ Snaps => fill = SnapTarget
      /\ ~Snaps => SnappedPos = readPos
  BY <1>1, BeginsInBand
<1>6. fill \in Int /\ writePos \in Nat
  BY <1>5 DEF JitterTypes
<1> HIDE DEF corr
<1>7. /\ read'.n \in Nat /\ read'.at = 0 /\ read'.from = SnappedPos /\ read'.corr = corr
      /\ read'.seen = writePos /\ read'.n <= fill /\ (read'.corr = -1 => read'.n >= 2)
  <2> HIDE DEF fill
  <2> DEFINE slots == n + Larger(corr, 0)
  <2>1. slots \in Nat /\ slots <= fill /\ (corr = -1 => slots >= 2)
    <3>1. CASE corr = 1
      BY <3>1, <1>1, <1>2, <1>4, <1>6 DEF Larger
    <3>2. CASE corr # 1
      <4>1. corr = -1 \/ corr = 0
        BY <3>2, <1>4
      <4>2. Larger(corr, 0) = 0
        BY <4>1 DEF Larger
      <4>3. slots = n
        BY <4>2, <1>2
      <4> QED
        BY <4>3, <1>1, <1>2, <1>4, <1>6
    <3> QED
      BY <3>1, <3>2
  <2> HIDE DEF slots
  <2>2. read' = [n |-> slots, at |-> 0, from |-> SnappedPos, corr |-> corr, seen |-> writePos]
    BY <1>1 DEF slots
  <2> QED
    BY <2>1, <2>2
<1>8. JitterTypes'
  <2>1. read' \in [n : Nat, at : Nat, from : Nat, corr : {-1, 0, 1}, seen : Nat]
    <3>1. read' = [n |-> read'.n, at |-> 0, from |-> SnappedPos, corr |-> corr,
                   seen |-> writePos]
      BY <1>1
    <3>2. read'.n \in Nat /\ SnappedPos \in Nat /\ corr \in {-1, 0, 1} /\ writePos \in Nat
      BY <1>4, <1>5, <1>6, <1>7
    <3> QED
      BY <3>1, <3>2
  <2> QED
    BY <1>1, <1>3, <2>1 DEF JitterTypes
<1>9. Positions'
  <2>1. /\ read'.from + read'.n <= read'.seen /\ read'.seen <= writePos'
        /\ read'.seen - read'.from <= BandTop
    BY <1>1, <1>5, <1>6, <1>7
  <2> QED
    BY <1>1, <1>3, <1>7, <2>1 DEF Positions
<1>10. RingHolds'
  BY <1>1 DEF RingHolds
<1>11. Calm'
  <2>1. SnapTarget' = SnapTarget /\ writePos' = writePos /\ window' = window
    BY <1>1 DEF SnapTarget
  <2>2. CASE Snaps
    <3>1. Above' = 0
      BY <2>1, <2>2, <1>3, <1>5, <1>6, ReaderFacts DEF Above
    <3> QED
      BY <3>1, <2>1, ReaderFacts DEF Calm
  <2>3. CASE ~Snaps
    <3>1. snappedAt' = snappedAt /\ readPos' = readPos
      BY <2>3, <1>1, <1>3, <1>5 DEF Snap
    <3> QED
      BY <3>1, <2>1 DEF Calm, Above
  <2> QED
    BY <2>2, <2>3
<1> QED
  BY <1>1, <1>3, <1>8, <1>9, <1>10, <1>11 DEF IntactAudio

LEMMA ReadFromRingKeeps == ASSUME JitterInv, ReadFromRing PROVE JitterInv'
<1> USE DEF JitterInv
<1> DEFINE p == read.from + read.at
           ahead == writePos + write.done - read.seen
<1>1. /\ read.at < read.n
      /\ read' = [read EXCEPT !.at = @ + 1]
      /\ damage' = IF data[p % Capacity] # p /\ damage = None THEN ahead ELSE damage
      /\ UNCHANGED <<writePos, readPos, data, write, currentL, currentH, window, observed,
                     measured, snappedAt, resnapped>>
  BY DEF ReadFromRing, writerVars, adaptVars
<1>2. /\ read \in [n : Nat, at : Nat, from : Nat, corr : {-1, 0, 1}, seen : Nat]
      /\ damage \in Int
  BY DEF JitterTypes
<1>3. writePos \in Nat /\ write.done \in Nat /\ ahead \in Int
  BY <1>2 DEF JitterTypes
<1>4. /\ read' \in [n : Nat, at : Nat, from : Nat, corr : {-1, 0, 1}, seen : Nat]
      /\ read'.n = read.n /\ read'.from = read.from /\ read'.seen = read.seen
      /\ read'.corr = read.corr
  BY <1>1, <1>2
<1>5. JitterTypes'
  <2>1. damage' \in Int
    BY <1>1, <1>2, <1>3
  <2> QED
    BY <1>1, <1>4, <2>1 DEF JitterTypes
<1>6. Positions'
  BY <1>1, <1>4 DEF Positions
<1>7. RingHolds'
  BY <1>1 DEF RingHolds
<1>8. Calm'
  BY <1>1 DEF Calm, Above, SnapTarget
<1>9. IntactAudio'
  <2>1. CASE data[p % Capacity] # p /\ damage = None
    <3>1. /\ p \in Nat /\ p < read.seen /\ read.seen <= writePos
          /\ read.seen - p <= BandTop
      <4>1. /\ read.from + read.n <= read.seen /\ read.seen <= writePos
            /\ read.seen - read.from <= BandTop
        BY <1>1, ReaderFacts DEF Positions
      <4> QED
        BY <4>1, <1>1, ReaderFacts, Geometry
    <3>2. p < writePos + write.done
      BY <3>1, <1>3, ReaderFacts
    <3>3. ~(writePos + write.done <= p + Capacity)
      BY <2>1, <3>1, <3>2 DEF RingHolds
    <3>4. ahead > Headroom
      BY <3>1, <3>3, <1>3, ReaderFacts, Geometry
    <3> QED
      BY <2>1, <3>4, <1>1 DEF IntactAudio
  <2>2. CASE ~(data[p % Capacity] # p /\ damage = None)
    BY <2>2, <1>1 DEF IntactAudio
  <2> QED
    BY <2>1, <2>2
<1> QED
  BY <1>1, <1>5, <1>6, <1>7, <1>8, <1>9

LEMMA ReadReturnsKeeps == ASSUME JitterInv, ReadReturns PROVE JitterInv' /\ readPos < readPos'
<1> USE DEF JitterInv
<1>1. /\ read.n > 0
      /\ readPos' = read.from + read.n - (IF read.corr = -1 THEN 1 ELSE 0)
      /\ read' = NoRead /\ Adapt(read.corr)
      /\ UNCHANGED <<writePos, data, write, observed, measured, snappedAt, resnapped, damage>>
  BY DEF ReadReturns, writerVars, historyVars
<1>2. /\ readPos = read.from
      /\ read.from + read.n <= read.seen /\ read.seen <= writePos
      /\ read.corr = -1 => read.n >= 2
  BY <1>1 DEF Positions
<1>3. readPos' \in Nat /\ readPos' >= readPos + 1 /\ readPos' <= writePos
  BY <1>1, <1>2, ReaderFacts
<1>4. /\ currentL' \in LMin..LMax /\ currentH' \in HMin..HMax
      /\ window' \in [inserts : Nat, drops : Nat, reads : 0..(WindowReads - 1)]
      /\ \/ window'.reads = window.reads + 1 /\ currentL' = currentL
         \/ /\ window'.reads = 0 /\ window.reads = WindowReads - 1
            /\ currentL' >= currentL - NarrowStep
  BY <1>1, ReaderFacts, WindowKept
<1>5. JitterTypes'
  <2>1. read' \in [n : Nat, at : Nat, from : Nat, corr : {-1, 0, 1}, seen : Nat]
    BY <1>1 DEF NoRead
  <2> QED
    BY <1>1, <1>3, <1>4, <2>1 DEF JitterTypes
<1>6. Positions'
  BY <1>1, <1>3 DEF Positions, NoRead
<1>7. RingHolds'
  BY <1>1 DEF RingHolds
<1>8. Calm'
  <2> SUFFICES ASSUME snappedAt = writePos
               PROVE  Above' <= NarrowStep /\ Above' + window'.reads <= WindowReads - 1
    BY <1>1 DEF Calm
  <2>1. Above <= NarrowStep /\ Above + window.reads <= WindowReads - 1
    BY DEF Calm
  <2>2. SnapTarget' = Floor + currentL' + W /\ currentL' \in Nat
    BY <1>4, <1>5, GeometryAssumption DEF SnapTarget
  <2>3. /\ Above = writePos - readPos - (Floor + currentL + W)
        /\ Above' = writePos - readPos' - (Floor + currentL' + W)
    BY <1>1, <2>2, ReaderFacts DEF Above
  <2> QED
    BY <2>1, <2>2, <2>3, <1>3, <1>4, ReaderFacts
<1> QED
  BY <1>1, <1>3, <1>5, <1>6, <1>7, <1>8, ReaderFacts DEF IntactAudio

LEMMA FillFramesKeeps == ASSUME JitterInv, FillFrames PROVE JitterInv'
<1> USE DEF JitterInv
<1>1. /\ UNCHANGED <<writePos, readPos, data, write, currentL, currentH, window, read,
                     snappedAt, resnapped, damage>>
      /\ \/ observed' = readPos /\ measured' = measured
         \/ /\ observed # None /\ observed' = None
            /\ measured' = Smaller(measured, writePos - observed)
  BY DEF FillFrames, Measure, writerVars, adaptVars
<1>2. /\ observed' \in Nat \cup {None} /\ measured' = 0
      /\ observed' # None => observed' <= writePos
  <2>1. /\ writePos \in Nat /\ readPos \in Nat /\ readPos <= writePos
        /\ observed \in Nat \cup {None}
        /\ observed # None => observed <= writePos
    BY DEF JitterTypes, Positions
  <2> QED
    BY <1>1, <2>1 DEF Smaller, None
<1>3. JitterTypes'
  BY <1>1, <1>2 DEF JitterTypes
<1>4. Positions'
  BY <1>1, <1>2 DEF Positions
<1>5. RingHolds'
  BY <1>1 DEF RingHolds
<1>6. Calm'
  BY <1>1 DEF Calm, Above, SnapTarget
<1> QED
  BY <1>1, <1>2, <1>3, <1>4, <1>5, <1>6 DEF IntactAudio

LEMMA StutterKeeps == ASSUME JitterInv, UNCHANGED vars PROVE JitterInv'
<1> USE DEF JitterInv
<1>1. UNCHANGED <<writePos, readPos, data, write, currentL, currentH, window, read, observed,
                  measured, snappedAt, resnapped, damage>>
  BY DEF vars, writerVars, adaptVars, historyVars
<1>2. JitterTypes'
  BY <1>1 DEF JitterTypes
<1>3. Positions' /\ RingHolds' /\ Calm'
  BY <1>1 DEF Positions, RingHolds, Calm, Above, SnapTarget
<1> QED
  BY <1>1, <1>2, <1>3 DEF IntactAudio

LEMMA StepKeeps == JitterInv /\ [Next]_vars => JitterInv'
<1> SUFFICES ASSUME JitterInv, [Next]_vars PROVE JitterInv'
  OBVIOUS
<1>1. CASE \E n \in WriteSizes : Write(n)
  BY <1>1, WriteKeeps
<1>2. CASE WriteToRing
  BY <1>2, WriteToRingKeeps
<1>3. CASE Publish
  BY <1>3, PublishKeeps
<1>4. CASE \E n \in ReadSizes : ReadSilence(n)
  BY <1>4, ReadSilenceKeeps
<1>5. CASE \E n \in ReadSizes : Read(n)
  BY <1>5, ReadKeeps
<1>6. CASE ReadFromRing
  BY <1>6, ReadFromRingKeeps
<1>7. CASE ReadReturns
  BY <1>7, ReadReturnsKeeps
<1>8. CASE FillFrames
  BY <1>8, FillFramesKeeps
<1>9. CASE UNCHANGED vars
  BY <1>9, StutterKeeps
<1> QED
  BY <1>1, <1>2, <1>3, <1>4, <1>5, <1>6, <1>7, <1>8, <1>9 DEF Next

-------------------------------------------------------------------------------
\* The inductive invariant of Read and Write, for every geometry.
THEOREM JitterInvariant == Spec => []JitterInv
<1>1. Init => JitterInv
  BY InitEstablishes
<1>2. JitterInv /\ [Next]_vars => JitterInv'
  BY StepKeeps
<1> QED
  BY <1>1, <1>2, PTL DEF Spec

\* What a Read copies is what Write put there, unless the writer has got through
\* the free half of the ring while it copied: for every geometry the constructor
\* accepts whose window narrows as slowly as GeometryAssumption asks.
THEOREM AudioIsIntact == Spec => []IntactAudio
<1>1. JitterInv => IntactAudio
  BY DEF JitterInv
<1> QED
  BY <1>1, JitterInvariant, PTL

\* A snap leaves the window's overrun line alone until something is written,
\* however often the window has narrowed meanwhile.
THEOREM SnapsApart == Spec => []SnapsAreApart
<1>1. JitterInv => SnapsAreApart
  BY DEF JitterInv, SnapsAreApart
<1> QED
  BY <1>1, JitterInvariant, PTL

\* fillFrames measures no negative fill.
THEOREM MeasuredFill == Spec => []FillNeverNegative
<1>1. JitterInv => FillNeverNegative
  BY DEF JitterInv, FillNeverNegative
<1> QED
  BY <1>1, JitterInvariant, PTL

\* Read never goes back: no frame it consumed or skipped is played again.
THEOREM NothingPlayedTwice == Spec => [][readPos <= readPos']_vars
<1>1. JitterInv /\ [Next]_vars => [readPos <= readPos']_vars
  <2> SUFFICES ASSUME JitterInv, Next PROVE readPos <= readPos'
    OBVIOUS
  <2> USE DEF JitterInv
  <2>1. readPos \in Nat
    BY DEF JitterTypes
  <2>2. CASE \E n \in WriteSizes : Write(n)
    BY <2>1, <2>2 DEF Write
  <2>3. CASE WriteToRing
    BY <2>1, <2>3 DEF WriteToRing
  <2>4. CASE Publish
    BY <2>1, <2>4 DEF Publish
  <2>5. CASE \E n \in ReadSizes : ReadSilence(n)
    <3>1. PICK n \in ReadSizes : ReadSilence(n)
      BY <2>5
    <3>2. CASE Starting
      BY <2>1, <3>1, <3>2 DEF ReadSilence
    <3>3. CASE ~Starting
      <4>1. Snap /\ UNCHANGED writePos
        BY <3>1, <3>3 DEF ReadSilence, writerVars
      <4> QED
        BY <3>3, <4>1, SnapKeeps
    <3> QED
      BY <3>2, <3>3
  <2>6. CASE \E n \in ReadSizes : Read(n)
    <3>1. ~Starting /\ Snap /\ UNCHANGED writePos
      BY <2>6 DEF Read, writerVars
    <3> QED
      BY <3>1, SnapKeeps
  <2>7. CASE ReadFromRing
    BY <2>1, <2>7 DEF ReadFromRing
  <2>8. CASE ReadReturns
    <3>1. readPos < readPos' /\ JitterInv'
      BY <2>8, ReadReturnsKeeps
    <3> QED
      BY <2>1, <3>1 DEF JitterTypes
  <2>9. CASE FillFrames
    BY <2>1, <2>9 DEF FillFrames
  <2> QED
    BY <2>2, <2>3, <2>4, <2>5, <2>6, <2>7, <2>8, <2>9 DEF Next
<1> QED
  BY <1>1, JitterInvariant, PTL DEF Spec
================================================================================
