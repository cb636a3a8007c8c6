--------------------------- MODULE ClientView_proofs ---------------------------
(***************************************************************************)
(* What a client is told, for any sources, sub-spaces, tickets and buffer  *)
(* sizes.  The argument is one of simulation: for a source that is not     *)
(* excused, the ops about it that are still on their way, applied one      *)
(* after the other to what the client's side has, lead to what the cache   *)
(* holds; and no op is applied to a state it does not fit.  What is        *)
(* decided about the client itself has an argument of its own, at the end, *)
(* which excuses nobody.                                                   *)
(***************************************************************************)
EXTENDS ClientView, WellFoundedInduction, TLAPS

USE ViewAssumption

-------------------------------------------------------------------------------
(* The client's side of one identity, and what an op does to it.           *)

Identities == Sources \cup {Me}

\* The key of an identity that the client is sent.
Carried(x) == IF x = Me THEN <<"entity", Me>> ELSE <<"attributes", x>>

\* The record in force at the writer, if any, and the latest op sent on.
Sides == [record : SUBSET SUBSET SubSpaces, held : Ops]

Sees(own, side) == \E subs \in side.record : Overlap(own, subs)

After(own, x, side, op) ==
  IF About(op) # x THEN side
  ELSE IF x = Me \/ (op.key[1] = "attributes" /\ Sees(own, side))
  THEN [side EXCEPT !.held = op]
  ELSE IF op.key[1] = "entity"
  THEN [side EXCEPT !.record = IF op.tomb THEN {} ELSE {op.subs}]
  ELSE side

Newer(a, b) == a.id <= b.id /\ (a.id = b.id => a = b)

\* An op follows on a state: it is no older than what is held, a session is of
\* one set of sub-spaces, and a record outlives the attributes.
Fits(x, side, op) ==
  About(op) = x =>
    /\ op.key = Carried(x) => Newer(side.held, op)
    /\ x # Me /\ ~op.tomb => side.record \subseteq {op.subs}
    /\ x # Me /\ op.tomb /\ op.key[1] = "entity" => side.held.tomb

\* What is held was visible and still is.
Sound(own, x, side) ==
  /\ side.held.key = Carried(x)
  /\ x # Me /\ ~side.held.tomb => side.record = {side.held.subs} /\ Overlap(own, side.held.subs)

LEMMA OpKeys ==
  ASSUME NEW op \in Ops
  PROVE  /\ op.key \in Keys /\ op.tomb \in BOOLEAN /\ op.subs \in SUBSET SubSpaces /\ op.id \in Nat
         /\ About(op) \in Identities
         /\ About(op) = Me => op.key = Carried(Me)
         /\ About(op) # Me => /\ op.key[1] \in Topics
                              /\ op.key = <<op.key[1], About(op)>>
                              /\ op.key = Carried(About(op)) <=> op.key[1] = "attributes"
  BY DEF Ops, Keys, About, Identities, Carried, Topics

LEMMA SideAfter ==
  ASSUME NEW own, NEW x \in Identities, NEW side \in Sides, NEW op \in Ops,
         Sound(own, x, side), Fits(x, side, op)
  PROVE  /\ After(own, x, side, op) \in Sides
         /\ Sound(own, x, After(own, x, side, op))
         /\ About(op) # x => After(own, x, side, op) = side
<1> DEFINE after == After(own, x, side, op)
<1>1. CASE About(op) # x
  BY <1>1 DEF After
<1>2. CASE About(op) = x /\ x = Me
  <2>1. after = [side EXCEPT !.held = op] /\ op.key = Carried(x)
    BY <1>2, OpKeys DEF After
  <2>2. QED
    BY <1>2, <2>1 DEF Sides, Sound
<1>3. CASE About(op) = x /\ x # Me /\ op.key[1] = "attributes"
  <2>1. op.key = Carried(x)
    BY <1>3, OpKeys
  <2>2. CASE Sees(own, side)
    <3>1. after = [side EXCEPT !.held = op]
      BY <1>3, <2>2 DEF After
    <3>2. ~op.tomb => side.record = {op.subs} /\ Overlap(own, op.subs)
      BY <1>3, <2>2 DEF Fits, Sees
    <3>3. QED
      BY <1>3, <2>1, <3>1, <3>2 DEF Sides, Sound
  <2>3. CASE ~Sees(own, side)
    BY <1>3, <2>3 DEF After
  <2>4. QED
    BY <2>2, <2>3
<1>4. CASE About(op) = x /\ x # Me /\ op.key[1] = "entity"
  <2>1. after = [side EXCEPT !.record = IF op.tomb THEN {} ELSE {op.subs}]
    BY <1>4 DEF After
  <2>2. after \in Sides /\ after.held = side.held
    BY <2>1, OpKeys DEF Sides
  <2>3. ~side.held.tomb => ~op.tomb /\ side.record = {op.subs}
    BY <1>4 DEF Fits, Sound
  <2>4. QED
    BY <1>4, <2>1, <2>2, <2>3 DEF Sound, Sides
<1>5. QED
  BY <1>1, <1>2, <1>3, <1>4, OpKeys DEF Topics

-------------------------------------------------------------------------------
(* Runs: a sequence of ops, applied in order.                              *)

\* run[i] is the client's side after the first i ops; ops about others leave it.
IsRun(own, x, run, ops) ==
  /\ run \in [0..Len(ops) -> Sides]
  /\ \A i \in 0..Len(ops) : Sound(own, x, run[i])
  /\ \A i \in 1..Len(ops) : /\ Fits(x, run[i - 1], ops[i])
                            /\ run[i] = After(own, x, run[i - 1], ops[i])
  /\ \A i, j \in 0..Len(ops) :
       i <= j /\ (\A m \in (i + 1)..j : About(ops[m]) # x) => run[i] = run[j]

Leads(own, x, from, ops, to) ==
  \E run : IsRun(own, x, run, ops) /\ run[0] = from /\ run[Len(ops)] = to

LEMMA EmptyRun ==
  ASSUME NEW own, NEW x, NEW side \in Sides, Sound(own, x, side)
  PROVE  Leads(own, x, side, <<>>, side)
<1> DEFINE run == [i \in 0..0 |-> side]
<1>1. IsRun(own, x, run, <<>>)
  BY DEF IsRun
<1>2. QED
  BY <1>1 DEF Leads

LEMMA RunOfNothing ==
  ASSUME NEW own, NEW x, NEW from, NEW to, Leads(own, x, from, <<>>, to)
  PROVE  from = to
  BY DEF Leads

LEMMA RunEnds ==
  ASSUME NEW own, NEW x, NEW from, NEW to, NEW ops \in Seq(Ops), Leads(own, x, from, ops, to)
  PROVE  from \in Sides /\ Sound(own, x, from) /\ to \in Sides /\ Sound(own, x, to)
  BY DEF Leads, IsRun

\* One more op at the end.
LEMMA RunGoesOn ==
  ASSUME NEW own, NEW x \in Identities, NEW from, NEW to, NEW ops \in Seq(Ops), NEW op \in Ops,
         Leads(own, x, from, ops, to), Fits(x, to, op)
  PROVE  Leads(own, x, from, Append(ops, op), After(own, x, to, op))
<1>1. PICK run : IsRun(own, x, run, ops) /\ run[0] = from /\ run[Len(ops)] = to
  BY DEF Leads
<1> DEFINE n == Len(ops)
           more == Append(ops, op)
           last == After(own, x, to, op)
           longer == [i \in 0..(n + 1) |-> IF i <= n THEN run[i] ELSE last]
<1>2. /\ n \in Nat /\ Len(more) = n + 1 /\ more[n + 1] = op
      /\ \A i \in 1..n : more[i] = ops[i]
  OBVIOUS
<1>3. /\ to \in Sides /\ Sound(own, x, to) /\ last \in Sides /\ Sound(own, x, last)
      /\ About(op) # x => last = to
  BY RunEnds, SideAfter
<1>4. \A i \in 0..n : longer[i] = run[i]
  BY <1>2
<1>5. longer[n + 1] = last /\ longer[n] = to
  BY <1>1, <1>2
<1> HIDE DEF longer, more, last, n
<1>6. longer \in [0..(n + 1) -> Sides]
  BY <1>1, <1>2, <1>3 DEF longer, IsRun, n
<1>7. \A i \in 0..(n + 1) : Sound(own, x, longer[i])
  <2> TAKE i \in 0..(n + 1)
  <2>1. i \in 0..n \/ i = n + 1
    BY <1>2
  <2>2. QED
    BY <1>1, <1>3, <1>4, <1>5, <2>1 DEF IsRun, n
<1>8. \A i \in 1..(n + 1) : Fits(x, longer[i - 1], more[i]) /\ longer[i] = After(own, x, longer[i - 1], more[i])
  <2> TAKE i \in 1..(n + 1)
  <2>1. CASE i \in 1..n
    <3>1. i - 1 \in 0..n /\ i \in 0..n
      BY <1>2, <2>1
    <3>2. QED
      BY <1>1, <1>2, <1>4, <2>1, <3>1 DEF IsRun, n
  <2>2. CASE i = n + 1
    <3>1. i - 1 = n
      BY <1>2, <2>2
    <3>2. QED
      BY <1>2, <1>5, <2>2, <3>1 DEF last
  <2>3. QED
    BY <1>2, <2>1, <2>2
<1>9. ASSUME NEW i \in 0..(n + 1), NEW j \in 0..(n + 1), i <= j,
             \A m \in (i + 1)..j : About(more[m]) # x
      PROVE  longer[i] = longer[j]
  <2>1. CASE j \in 0..n
    <3>1. i \in 0..n /\ \A m \in (i + 1)..j : About(ops[m]) # x
      BY <1>2, <1>9, <2>1
    <3>2. QED
      BY <1>1, <1>4, <1>9, <2>1, <3>1 DEF IsRun, n
  <2>2. CASE j = n + 1 /\ i # n + 1
    <3>1. /\ i \in 0..n /\ i <= n /\ n \in 0..n /\ About(op) # x
          /\ \A m \in (i + 1)..n : About(ops[m]) # x
      BY <1>2, <1>9, <2>2
    <3>2. run[i] = run[n]
      BY <1>1, <3>1 DEF IsRun, n
    <3>3. QED
      BY <1>1, <1>3, <1>4, <1>5, <2>2, <3>1, <3>2 DEF n
  <2>3. QED
    BY <1>2, <1>9, <2>1, <2>2
<1>10. IsRun(own, x, longer, more)
  BY <1>2, <1>6, <1>7, <1>8, <1>9 DEF IsRun
<1>11. longer[0] = from
  BY <1>1, <1>2, <1>4
<1>12. QED
  BY <1>2, <1>5, <1>10, <1>11 DEF Leads, more, last

\* The sequence without the op at position p.
Without(ops, p, rest) ==
  /\ rest \in Seq(Ops)
  /\ Len(rest) = Len(ops) - 1
  /\ \A i \in 1..(Len(ops) - 1) : rest[i] = IF i < p THEN ops[i] ELSE ops[i + 1]

\* The op at position p is applied before those in front of it, which are about
\* others; or it is about another itself, and nothing is applied.
LEMMA RunWithout ==
  ASSUME NEW own, NEW x \in Identities, NEW from, NEW to, NEW ops \in Seq(Ops),
         NEW p \in 1..Len(ops), NEW rest, Without(ops, p, rest),
         Leads(own, x, from, ops, to),
         \/ About(ops[p]) # x
         \/ \A m \in 1..(p - 1) : About(ops[m]) # x
  PROVE  /\ Fits(x, from, ops[p])
         /\ Leads(own, x, After(own, x, from, ops[p]), rest, to)
<1>1. PICK run : IsRun(own, x, run, ops) /\ run[0] = from /\ run[Len(ops)] = to
  BY DEF Leads
<1> DEFINE n == Len(ops)
           first == After(own, x, from, ops[p])
           shorter == [i \in 0..(n - 1) |->
                         IF i >= p THEN run[i + 1] ELSE IF About(ops[p]) = x THEN run[p] ELSE run[i]]
<1>2. n \in Nat /\ p \in 1..n /\ p - 1 \in 0..n /\ p \in 0..n /\ n - 1 \in Nat
  OBVIOUS
<1>3. rest \in Seq(Ops) /\ Len(rest) = n - 1 /\ \A i \in 1..(n - 1) : rest[i] = IF i < p THEN ops[i] ELSE ops[i + 1]
  BY DEF Without
<1>4. /\ run \in [0..n -> Sides]
      /\ \A i \in 0..n : Sound(own, x, run[i])
      /\ \A i \in 1..n : Fits(x, run[i - 1], ops[i]) /\ run[i] = After(own, x, run[i - 1], ops[i])
      /\ \A i, j \in 0..n :
           i <= j /\ (\A m \in (i + 1)..j : About(ops[m]) # x) => run[i] = run[j]
  BY <1>1 DEF IsRun
<1>5. About(ops[p]) = x => \A i \in 0..(p - 1) : run[i] = from
  <2> SUFFICES ASSUME About(ops[p]) = x, NEW i \in 0..(p - 1)
               PROVE  run[0] = run[i]
    BY <1>1
  <2>1. 0 \in 0..n /\ i \in 0..n /\ \A m \in (0 + 1)..i : About(ops[m]) # x
    BY <1>2
  <2>2. QED
    BY <1>4, <2>1
<1>6. About(ops[p]) # x => run[p] = run[p - 1] /\ Fits(x, from, ops[p]) /\ first = from
  <2>1. About(ops[p]) # x => run[p] = run[p - 1]
    BY <1>2, <1>4 DEF After
  <2>2. QED
    BY <2>1 DEF After, Fits
<1>7. Fits(x, from, ops[p]) /\ (About(ops[p]) = x => run[p] = first)
  <2>1. CASE About(ops[p]) = x
    <3>1. p - 1 \in 0..(p - 1)
      BY <1>2
    <3>2. run[p - 1] = from
      BY <1>5, <2>1, <3>1
    <3>3. QED
      BY <1>2, <1>4, <3>2
  <2>2. QED
    BY <1>6, <2>1
<1>8. /\ shorter \in [0..(n - 1) -> Sides]
      /\ \A i \in 0..(n - 1) : Sound(own, x, shorter[i])
  BY <1>2, <1>4
<1>9. /\ \A i \in 0..(n - 1) : i >= p => shorter[i] = run[i + 1]
      /\ \A i \in 0..(n - 1) : i < p => shorter[i] = IF About(ops[p]) = x THEN run[p] ELSE run[i]
  BY <1>2
<1>10. \A i \in 0..(n - 1) : i = p - 1 => shorter[i] = run[p]
  BY <1>2, <1>6, <1>9
<1> HIDE DEF shorter, first, n
<1>11. \A i \in 1..(n - 1) :
         Fits(x, shorter[i - 1], rest[i]) /\ shorter[i] = After(own, x, shorter[i - 1], rest[i])
  <2> TAKE i \in 1..(n - 1)
  <2>0. i - 1 \in 0..(n - 1) /\ i \in 0..(n - 1) /\ i \in 1..n /\ i + 1 \in 1..n
    BY <1>2
  <2>1. CASE i < p
    <3>1. rest[i] = ops[i] /\ shorter[i - 1] = (IF About(ops[p]) = x THEN run[p] ELSE run[i - 1])
          /\ shorter[i] = (IF About(ops[p]) = x THEN run[p] ELSE run[i])
      BY <1>2, <1>3, <1>9, <2>0, <2>1
    <3>2. CASE About(ops[p]) = x
      <4>1. About(ops[i]) # x
        BY <1>2, <2>0, <2>1, <3>2
      <4>2. QED
        BY <3>1, <3>2, <4>1 DEF Fits, After
    <3>3. CASE About(ops[p]) # x
      BY <1>4, <2>0, <3>1, <3>3
    <3>4. QED
      BY <3>2, <3>3
  <2>2. CASE i >= p
    <3>1. rest[i] = ops[i + 1] /\ shorter[i] = run[i + 1]
      BY <1>2, <1>3, <1>9, <2>0, <2>2
    <3>2. shorter[i - 1] = run[i]
      BY <1>2, <1>9, <1>10, <2>0, <2>2
    <3>3. QED
      BY <1>2, <1>4, <2>0, <3>1, <3>2
  <2>3. QED
    BY <1>2, <2>1, <2>2
<1>12. ASSUME NEW i \in 0..(n - 1), NEW j \in 0..(n - 1), i <= j,
              \A m \in (i + 1)..j : About(rest[m]) # x
       PROVE  shorter[i] = shorter[j]
  <2>1. CASE j < p
    <3>1. CASE About(ops[p]) = x
      BY <1>2, <1>9, <1>12, <2>1, <3>1
    <3>2. CASE About(ops[p]) # x
      <4>0. ASSUME NEW m \in (i + 1)..j
            PROVE  About(ops[m]) # x
        <5>1. m \in 1..(n - 1) /\ m < p
          BY <1>2, <1>12, <2>1
        <5>2. rest[m] = ops[m]
          BY <1>3, <5>1
        <5>3. QED
          BY <1>12, <5>2
      <4>1. i \in 0..n /\ j \in 0..n /\ \A m \in (i + 1)..j : About(ops[m]) # x
        BY <1>2, <1>12, <4>0
      <4>2. run[i] = run[j]
        BY <1>4, <1>12, <4>1
      <4>3. QED
        BY <1>2, <1>9, <1>12, <2>1, <3>2, <4>2
    <3>3. QED
      BY <3>1, <3>2
  <2>2. CASE j >= p /\ i >= p
    <3>1. i + 1 \in 0..n /\ j + 1 \in 0..n /\ i + 1 <= j + 1
      BY <1>2, <1>12
    <3>2. ASSUME NEW m \in ((i + 1) + 1)..(j + 1)
          PROVE  About(ops[m]) # x
      <4>1. m - 1 \in (i + 1)..j /\ m - 1 \in 1..(n - 1) /\ m - 1 >= p
        BY <1>2, <1>12, <2>2
      <4>2. rest[m - 1] = ops[m]
        BY <1>2, <1>3, <4>1
      <4>3. QED
        BY <1>12, <4>1, <4>2
    <3>3. run[i + 1] = run[j + 1]
      BY <1>4, <3>1, <3>2
    <3>4. QED
      BY <1>9, <1>12, <2>2, <3>3
  <2>3. CASE j >= p /\ i < p
    <3>1. p \in 0..n /\ j + 1 \in 0..n /\ p <= j + 1
      BY <1>2, <1>12, <2>3
    <3>2. ASSUME NEW m \in (p + 1)..(j + 1)
          PROVE  About(ops[m]) # x
      <4>1. m - 1 \in (i + 1)..j /\ m - 1 \in 1..(n - 1) /\ m - 1 >= p
        BY <1>2, <1>12, <2>3
      <4>2. rest[m - 1] = ops[m]
        BY <1>2, <1>3, <4>1
      <4>3. QED
        BY <1>12, <4>1, <4>2
    <3>3. run[p] = run[j + 1]
      BY <1>4, <3>1, <3>2
    <3>4. shorter[j] = run[p]
      BY <1>9, <1>12, <2>3, <3>3
    <3>5. shorter[i] = run[p]
      <4>1. CASE About(ops[p]) = x
        BY <1>9, <1>12, <2>3, <4>1
      <4>2. CASE About(ops[p]) # x
        <5>1. i \in 0..n /\ p - 1 \in 0..n /\ i <= p - 1
          BY <1>2, <1>12, <2>3
        <5>2. ASSUME NEW m \in (i + 1)..(p - 1)
              PROVE  About(ops[m]) # x
          <6>1. m \in (i + 1)..j /\ m \in 1..(n - 1) /\ m < p
            BY <1>2, <1>12, <2>3
          <6>2. QED
            BY <1>3, <1>12, <6>1
        <5>3. run[i] = run[p - 1]
          BY <1>4, <5>1, <5>2
        <5>4. QED
          BY <1>6, <1>9, <1>12, <2>3, <4>2, <5>3
      <4>3. QED
        BY <4>1, <4>2
    <3>6. QED
      BY <3>4, <3>5
  <2>4. QED
    BY <1>2, <1>12, <2>1, <2>2, <2>3
<1>13. IsRun(own, x, shorter, rest)
  BY <1>2, <1>3, <1>8, <1>11, <1>12 DEF IsRun
<1>14. shorter[0] = first
  <2>1. 0 \in 0..(n - 1) /\ 0 < p
    BY <1>2
  <2>2. QED
    BY <1>1, <1>6, <1>7, <1>9, <2>1
<1>15. shorter[n - 1] = to
  <2>1. n - 1 \in 0..(n - 1)
    BY <1>2
  <2>2. CASE p = n
    BY <1>1, <1>10, <2>1, <2>2 DEF n
  <2>3. CASE p < n
    BY <1>1, <1>2, <1>9, <2>1, <2>3 DEF n
  <2>4. QED
    BY <1>2, <2>2, <2>3
<1>16. QED
  BY <1>3, <1>7, <1>13, <1>14, <1>15 DEF Leads, first

-------------------------------------------------------------------------------
(* Types and phases.                                                       *)

ViewTypes ==
  /\ mine \in SUBSET SubSpaces
  /\ opId \in Nat
  /\ cache \in [Keys -> Ops]
  /\ \A k \in Keys : cache[k].key = k /\ cache[k].id <= opId /\ (cache[k].id = 0 => cache[k] = Absent(k))
  /\ sending \in Ops \cup {None}
  /\ sending # None => cache[sending.key] = sending
  /\ stringChOut \in Seq(Ops) /\ pendingStrings \in Seq(Ops) /\ draining \in Seq(Ops)
  /\ toDeliver \subseteq Ops
  /\ members \subseteq Sources
  /\ nodeSubspaces \in [Sources -> SUBSET SubSpaces]
  /\ opened \subseteq Topics
  /\ pending \in [Topics -> Seq(Ops)]
  /\ \A t \in Topics : \A op \in ToSet(pending[t]) : op.key[1] = t
  /\ DOMAIN view = Keys /\ view = [k \in Keys |-> view[k]]

\* Which of the queues may hold something, and when.
StagesInOrder ==
  /\ stage \in {"none", "registered", "attached", "waiting", "read"}
  /\ stage = "none" => /\ stringChOut = <<>> /\ members = {} /\ opened = {}
                       /\ pending = [t \in Topics |-> <<>>]
                       /\ view = [k \in Keys |-> Absent(k)]
  /\ stage # "registered" => pendingStrings = <<>>
  /\ stage # "attached" => draining = <<>>
  /\ stage # "read" => toDeliver = {}
  /\ \A op, other \in toDeliver : op.key = other.key => op = other
  /\ \A t \in opened : pending[t] = <<>>
  /\ \A x \in Sources \ members : nodeSubspaces[x] = {}

EntityKey(x) == <<"entity", x>>
AttributesKey(x) == <<"attributes", x>>

\* A source's keys are those of its present session, the record the longest.
SessionsInOrder ==
  /\ session \in [Sources -> Nat]
  /\ at \in [Sources -> {"away", "entity", "attributes", "sweep 1", "sweep 2"}]
  /\ \A x \in Sources :
       /\ session[x] <= Len(SubSpacesOf[x])
       /\ at[x] = "away" <=> cache[EntityKey(x)].tomb
       /\ at[x] \in {"away", "sweep 2"} => cache[AttributesKey(x)].tomb
       /\ at[x] # "away" => session[x] > 0
       /\ ~cache[EntityKey(x)].tomb => cache[EntityKey(x)].subs = Tickets(x)
       /\ ~cache[AttributesKey(x)].tomb => cache[AttributesKey(x)].subs = Tickets(x)

LEMMA KeysOf ==
  /\ \A x \in Identities : EntityKey(x) \in Keys /\ Carried(x) \in Keys /\ Carried(x)[1] \in Topics
  /\ \A x \in Sources : AttributesKey(x) \in Keys /\ x # Me /\ Carried(x) = AttributesKey(x)
  /\ Carried(Me) = EntityKey(Me)
  BY DEF Keys, Topics, Identities, EntityKey, AttributesKey, Carried

LEMMA AbsentOp == ASSUME NEW k \in Keys PROVE Absent(k) \in Ops /\ Absent(k).key = k /\ Absent(k).tomb /\ Absent(k).id = 0
  BY DEF Absent, Ops

LEMMA TicketsAre ==
  ASSUME NEW x \in Sources, session[x] \in Nat, session[x] > 0, session[x] <= Len(SubSpacesOf[x])
  PROVE  Tickets(x) \in SUBSET SubSpaces
  BY DEF Tickets

\* The op a Put makes.
LEMMA PutOp ==
  ASSUME ViewTypes, NEW key \in Keys, NEW tomb \in BOOLEAN, NEW subs \in SUBSET SubSpaces,
         Put(key, tomb, subs)
  PROVE  /\ sending' \in Ops /\ sending' # None /\ sending = None
         /\ sending'.key = key /\ sending'.tomb = tomb /\ sending'.subs = subs
         /\ sending'.id = opId' /\ opId' = opId + 1
         /\ cache' = [cache EXCEPT ![key] = sending']
         /\ cache'[key] = sending' /\ \A k \in Keys \ {key} : cache'[k] = cache[k]
         /\ UNCHANGED <<mine, clientVars, writerVars, sinkVars, excused>>
<1>1. sending' = [key |-> key, tomb |-> tomb, subs |-> subs, id |-> opId + 1]
  BY DEF Put
<1>2. sending' \in Ops
  BY <1>1 DEF Ops, ViewTypes
<1>3. QED
  BY <1>1, <1>2 DEF Put, ViewTypes

LEMMA PutCached ==
  ASSUME ViewTypes, NEW key \in Keys, NEW tomb \in BOOLEAN, NEW subs \in SUBSET SubSpaces,
         Put(key, tomb, subs)
  PROVE  /\ cache'[key].tomb <=> tomb
         /\ cache'[key].subs = subs
         /\ \A k \in Keys \ {key} : cache'[k] = cache[k]
<1>1. sending'.tomb = tomb /\ sending'.subs = subs /\ cache'[key] = sending' /\ \A k \in Keys \ {key} : cache'[k] = cache[k]
  BY PutOp
<1>2. QED
  BY <1>1

LEMMA PutTypes ==
  ASSUME ViewTypes, NEW key \in Keys, NEW tomb \in BOOLEAN, NEW subs \in SUBSET SubSpaces,
         Put(key, tomb, subs)
  PROVE  ViewTypes'
<1>1. /\ sending' \in Ops /\ sending'.key = key /\ sending'.id = opId' /\ opId' = opId + 1
      /\ cache' = [cache EXCEPT ![key] = sending']
      /\ cache'[key] = sending' /\ \A k \in Keys \ {key} : cache'[k] = cache[k]
  BY PutOp
<1>2. cache' \in [Keys -> Ops] /\ opId' \in Nat
  BY <1>1 DEF ViewTypes
<1>3. ASSUME NEW k \in Keys
      PROVE  cache'[k].key = k /\ cache'[k].id <= opId' /\ (cache'[k].id = 0 => cache'[k] = Absent(k))
  <2>1. /\ cache[k].id \in Nat /\ cache[k].id <= opId /\ cache[k].key = k /\ opId \in Nat
        /\ cache[k].id = 0 => cache[k] = Absent(k)
    BY DEF ViewTypes, Ops
  <2>2. k = key \/ cache'[k] = cache[k]
    BY <1>1
  <2>3. QED
    BY <1>1, <2>1, <2>2
<1>4. UNCHANGED <<mine, clientVars, writerVars, sinkVars>>
  BY PutOp
<1>5. QED
  BY <1>1, <1>2, <1>3, <1>4 DEF ViewTypes, clientVars, writerVars, sinkVars

LEMMA TailSet ==
  ASSUME NEW s \in Seq(Ops), s # <<>>
  PROVE  ToSet(s) = {Head(s)} \cup ToSet(Tail(s)) /\ Tail(s) \in Seq(Ops)
<1>1. /\ Len(s) \in Nat \ {0} /\ DOMAIN s = 1..Len(s) /\ DOMAIN Tail(s) = 1..(Len(s) - 1)
      /\ Head(s) = s[1] /\ \A i \in 1..(Len(s) - 1) : Tail(s)[i] = s[i + 1]
  OBVIOUS
<1>2. \A i \in DOMAIN s : i = 1 \/ (i - 1 \in DOMAIN Tail(s) /\ Tail(s)[i - 1] = s[i])
  BY <1>1
<1>3. \A i \in DOMAIN Tail(s) : i + 1 \in DOMAIN s /\ Tail(s)[i] = s[i + 1]
  BY <1>1
<1>4. 1 \in DOMAIN s
  BY <1>1
<1>5. Tail(s) \in Seq(Ops)
  OBVIOUS
<1>6. QED
  BY <1>1, <1>2, <1>3, <1>4, <1>5 DEF ToSet

LEMMA AppendSet ==
  ASSUME NEW s \in Seq(Ops), NEW op \in Ops
  PROVE  ToSet(Append(s, op)) = ToSet(s) \cup {op}
<1>1. /\ Len(s) \in Nat /\ DOMAIN s = 1..Len(s) /\ DOMAIN Append(s, op) = 1..(Len(s) + 1)
      /\ Append(s, op)[Len(s) + 1] = op /\ \A i \in 1..Len(s) : Append(s, op)[i] = s[i]
  OBVIOUS
<1>2. \A i \in DOMAIN Append(s, op) : i = Len(s) + 1 \/ i \in DOMAIN s
  BY <1>1
<1>3. \A i \in DOMAIN s : i \in DOMAIN Append(s, op)
  BY <1>1
<1>4. Len(s) + 1 \in DOMAIN Append(s, op)
  BY <1>1
<1>5. QED
  BY <1>1, <1>2, <1>3, <1>4 DEF ToSet

\* Trimming takes nothing but what Cut names.
LEMMA TrimmedTypes ==
  ASSUME NEW s \in Seq(Ops), NEW op \in Ops
  PROVE  /\ Append(s, op) \in Seq(Ops)
         /\ Trimmed(Append(s, op)) \in Seq(Ops)
         /\ ToSet(Trimmed(Append(s, op))) \subseteq ToSet(s) \cup {op}
         /\ \A p \in ToSet(s) \cup {op} : p \in ToSet(Trimmed(Append(s, op))) \/ About(p) \in Cut(Append(s, op))
<1> DEFINE more == Append(s, op)
<1>1. more \in Seq(Ops) /\ more # <<>> /\ ToSet(more) = ToSet(s) \cup {op}
  BY AppendSet
<1>2. CASE Len(more) > PendingMax
  <2>1. Trimmed(more) = Tail(more) /\ Cut(more) = {About(Head(more))}
    BY <1>2 DEF Trimmed, Cut
  <2>2. Tail(more) \in Seq(Ops) /\ ToSet(more) = {Head(more)} \cup ToSet(Tail(more))
    BY <1>1, TailSet
  <2>3. QED
    BY <1>1, <2>1, <2>2
<1>3. CASE ~(Len(more) > PendingMax)
  BY <1>1, <1>3 DEF Trimmed
<1>4. QED
  BY <1>2, <1>3

\* What a Write leaves in the channels: the op is sent on, kept, or dropped.
LEMMA ForwardTypes ==
  ASSUME ViewTypes, NEW op \in Ops, NEW late,
         Forward(op, late) \/ Drop(late)
  PROVE  /\ opened' = opened
         /\ DOMAIN view' = Keys /\ view' = [k \in Keys |-> view'[k]]
         /\ pending' \in [Topics -> Seq(Ops)]
         /\ \A o \in Topics : \A p \in ToSet(pending'[o]) : p.key[1] = o
         /\ \A t \in opened : pending'[t] = pending[t]
         /\ excused \subseteq excused'
<1> DEFINE t == op.key[1]
           more == Append(pending[t], op)
<1>1. op.key \in Keys /\ t \in Topics
  BY OpKeys DEF Keys, Topics
<1>2. CASE Drop(late)
  BY <1>2 DEF Drop, sinkVars, ViewTypes
<1>3. CASE Forward(op, late) /\ t \in opened
  <2>1. view' = [view EXCEPT ![op.key] = IF op.id > @.id THEN op ELSE @] /\ UNCHANGED <<opened, pending>>
        /\ excused' = excused \cup late
    BY <1>3 DEF Forward, Received
  <2>2. QED
    BY <1>1, <2>1 DEF ViewTypes
<1>4. CASE Forward(op, late) /\ t \notin opened
  <2>1. pending' = [pending EXCEPT ![t] = Trimmed(more)] /\ UNCHANGED <<opened, view>>
        /\ excused' = excused \cup late \cup Cut(more)
    BY <1>4 DEF Forward
  <2>2. pending[t] \in Seq(Ops) /\ Trimmed(more) \in Seq(Ops) /\ ToSet(Trimmed(more)) \subseteq ToSet(pending[t]) \cup {op}
    <3>1. pending[t] \in Seq(Ops)
      BY <1>1 DEF ViewTypes
    <3>2. QED
      BY <3>1, TrimmedTypes
  <2>3. pending' \in [Topics -> Seq(Ops)]
    BY <1>1, <2>1, <2>2 DEF ViewTypes
  <2>4. \A o \in opened : pending'[o] = pending[o]
    BY <1>4, <2>1 DEF ViewTypes
  <2>5. ToSet(pending'[t]) \subseteq ToSet(pending[t]) \cup {op} /\ \A o \in Topics \ {t} : pending'[o] = pending[o]
    <3>1. pending'[t] = Trimmed(more) /\ \A o \in Topics \ {t} : pending'[o] = pending[o]
      BY <1>1, <2>1 DEF ViewTypes
    <3>2. QED
      BY <2>2, <3>1
  <2>6. ASSUME NEW o \in Topics, NEW p \in ToSet(pending'[o])
        PROVE  p.key[1] = o
    <3>1. \A q \in ToSet(pending[o]) : q.key[1] = o
      BY DEF ViewTypes
    <3>2. o = t => p = op \/ p \in ToSet(pending[o])
      BY <2>5
    <3>3. o # t => p \in ToSet(pending[o])
      BY <2>5
    <3>4. QED
      BY <3>1, <3>2, <3>3
  <2>7. QED
    BY <2>1, <2>3, <2>4, <2>6 DEF ViewTypes
<1>5. QED
  BY <1>2, <1>3, <1>4

\* The visibility map after a Write.
LEMMA WriteMembers ==
  ASSUME ViewTypes, NEW op \in Ops, NEW late, Write(op, late),
         \A x \in Sources \ members : nodeSubspaces[x] = {}
  PROVE  /\ members' \subseteq Sources
         /\ nodeSubspaces' \in [Sources -> SUBSET SubSpaces]
         /\ \A x \in Sources \ members' : nodeSubspaces'[x] = {}
         /\ \A x \in Sources : About(op) # x => (x \in members' <=> x \in members) /\ nodeSubspaces'[x] = nodeSubspaces[x]
         /\ Forward(op, late) \/ Drop(late) \/ Forward(op, late \cup ({About(op)} \ members))
<1> DEFINE y == About(op)
<1>0. members \subseteq Sources /\ nodeSubspaces \in [Sources -> SUBSET SubSpaces]
  BY DEF ViewTypes
<1>1. CASE op.key[1] = "entity" /\ y = Me
  BY <1>0, <1>1 DEF Write, HandledEntity
<1>2. CASE op.key[1] = "entity" /\ y # Me
  <2>1. y \in Sources /\ op.subs \in SUBSET SubSpaces
    BY <1>2, OpKeys DEF Identities
  <2>2. /\ op.tomb => members' = members \ {y} /\ nodeSubspaces' = [nodeSubspaces EXCEPT ![y] = {}]
        /\ ~op.tomb => members' = members \cup {y} /\ nodeSubspaces' = [nodeSubspaces EXCEPT ![y] = @ \cup op.subs]
        /\ Forward(op, late) \/ Drop(late)
    BY <1>2 DEF Write, HandledEntity
  <2>3. CASE op.tomb
    BY <1>0, <2>1, <2>2, <2>3
  <2>4. CASE ~op.tomb
    BY <1>0, <2>1, <2>2, <2>4
  <2>5. QED
    BY <2>3, <2>4
<1>3. CASE op.key[1] # "entity"
  <2>1. y \in Sources
    BY <1>3, OpKeys, KeysOf DEF Identities, EntityKey
  <2>2. /\ UNCHANGED nodeSubspaces
        /\ \/ members' = members \cup {y} /\ Forward(op, late \cup ({y} \ members))
           \/ members' = members /\ Drop(late)
    BY <1>3 DEF Write, writerVars
  <2>3. QED
    BY <1>0, <2>1, <2>2
<1>4. QED
  BY <1>1, <1>2, <1>3

LEMMA WriteTypes ==
  ASSUME ViewTypes, NEW op \in Ops, NEW late, Write(op, late),
         \A x \in Sources \ members : nodeSubspaces[x] = {}
  PROVE  /\ members' \subseteq Sources
         /\ nodeSubspaces' \in [Sources -> SUBSET SubSpaces]
         /\ \A x \in Sources \ members' : nodeSubspaces'[x] = {}
         /\ opened' = opened
         /\ DOMAIN view' = Keys /\ view' = [k \in Keys |-> view'[k]]
         /\ pending' \in [Topics -> Seq(Ops)]
         /\ \A o \in Topics : \A p \in ToSet(pending'[o]) : p.key[1] = o
         /\ \A t \in opened : pending'[t] = pending[t]
         /\ excused \subseteq excused'
<1>1. PICK l : Forward(op, l) \/ Drop(l)
  BY WriteMembers
<1>2. QED
  BY <1>1, ForwardTypes, WriteMembers

LEMMA HeadTail ==
  ASSUME NEW s \in Seq(Ops), s # <<>>
  PROVE  Head(s) \in Ops /\ Tail(s) \in Seq(Ops) /\ Len(s) > 0 /\ Head(s) = s[1]
  OBVIOUS

-------------------------------------------------------------------------------
(* What a source may publish.                                              *)

\* A record is announced first and withdrawn last, with one set of sub-spaces.
InTurn(key, tomb, subs) ==
  \A x \in Sources :
    /\ key = EntityKey(x) =>
         /\ tomb => cache[AttributesKey(x)].tomb
         /\ ~tomb /\ ~cache[EntityKey(x)].tomb => subs = cache[EntityKey(x)].subs
    /\ key = AttributesKey(x) =>
         /\ ~cache[EntityKey(x)].tomb
         /\ ~tomb => subs = cache[EntityKey(x)].subs

Published ==
  \E key \in Keys, tomb \in BOOLEAN, subs \in SUBSET SubSpaces :
    Put(key, tomb, subs) /\ InTurn(key, tomb, subs)

LEMMA KeysDiffer ==
  ASSUME NEW x \in Sources, NEW y \in Identities
  PROVE  /\ AttributesKey(x) # EntityKey(y)
         /\ EntityKey(x) = EntityKey(y) <=> x = y
         /\ y \in Sources => (AttributesKey(x) = AttributesKey(y) <=> x = y)
  BY DEF EntityKey, AttributesKey

\* SessionsInOrder of one source.
InOrder(x) ==
  /\ session[x] <= Len(SubSpacesOf[x])
  /\ at[x] = "away" <=> cache[EntityKey(x)].tomb
  /\ at[x] \in {"away", "sweep 2"} => cache[AttributesKey(x)].tomb
  /\ at[x] # "away" => session[x] > 0
  /\ ~cache[EntityKey(x)].tomb => cache[EntityKey(x)].subs = Tickets(x)
  /\ ~cache[AttributesKey(x)].tomb => cache[AttributesKey(x)].subs = Tickets(x)

LEMMA SessionsByOne ==
  SessionsInOrder <=> /\ session \in [Sources -> Nat]
                      /\ at \in [Sources -> {"away", "entity", "attributes", "sweep 1", "sweep 2"}]
                      /\ \A x \in Sources : InOrder(x)
  BY DEF SessionsInOrder, InOrder

\* A step of one source leaves the others as they are.
LEMMA OthersInOrder ==
  ASSUME SessionsInOrder, NEW x \in Sources,
         session' \in [Sources -> Nat],
         at' \in [Sources -> {"away", "entity", "attributes", "sweep 1", "sweep 2"}],
         \A y \in Sources \ {x} : /\ session'[y] = session[y] /\ at'[y] = at[y]
                                  /\ cache'[EntityKey(y)] = cache[EntityKey(y)]
                                  /\ cache'[AttributesKey(y)] = cache[AttributesKey(y)],
         InOrder(x)'
  PROVE  SessionsInOrder'
<1>1. ASSUME NEW y \in Sources, y # x PROVE InOrder(y)'
  BY <1>1, SessionsByOne DEF InOrder, Tickets
<1>2. QED
  BY <1>1 DEF SessionsInOrder, InOrder

LEMMA JoinInTurn ==
  ASSUME ViewTypes, SessionsInOrder, NEW x \in Sources, Join(x)
  PROVE  Published /\ SessionsInOrder'
<1> DEFINE n == session[x] + 1
           subs == SubSpacesOf[x][n]
           key == EntityKey(x)
<1>1. /\ at[x] = "away" /\ session[x] < Len(SubSpacesOf[x])
      /\ session' = [session EXCEPT ![x] = n] /\ at' = [at EXCEPT ![x] = "attributes"]
      /\ Put(key, FALSE, subs)
  BY DEF Join, Then, EntityKey
<1>2. session[x] \in Nat /\ n \in Nat /\ n <= Len(SubSpacesOf[x]) /\ n > 0 /\ subs \in SUBSET SubSpaces
  <2>1. SubSpacesOf[x] \in Seq(SUBSET SubSpaces) /\ session[x] \in Nat
    BY DEF SessionsInOrder
  <2>2. n \in 1..Len(SubSpacesOf[x])
    BY <1>1, <2>1
  <2>3. QED
    BY <2>1, <2>2
<1>3. key \in Keys /\ AttributesKey(x) \in Keys /\ AttributesKey(x) # key
  BY KeysOf, KeysDiffer DEF Identities
<1>4. /\ ~cache'[key].tomb /\ cache'[key].subs = subs
      /\ \A k \in Keys \ {key} : cache'[k] = cache[k]
  BY <1>1, <1>2, <1>3, PutCached
<1>5. cache[AttributesKey(x)].tomb /\ cache[key].tomb
  BY <1>1 DEF SessionsInOrder
<1>6. InTurn(key, FALSE, subs)
  BY <1>5, KeysDiffer DEF InTurn, Identities
<1>7. session'[x] = n /\ at'[x] = "attributes"
  BY <1>1 DEF SessionsInOrder
<1>8. InOrder(x)'
  BY <1>2, <1>3, <1>4, <1>5, <1>7 DEF InOrder, Tickets
<1>9. SessionsInOrder'
  <2>1. \A y \in Sources \ {x} : EntityKey(y) \in Keys \ {key} /\ AttributesKey(y) \in Keys \ {key}
    BY KeysOf, KeysDiffer DEF Identities
  <2>2. session' \in [Sources -> Nat] /\ at' \in [Sources -> {"away", "entity", "attributes", "sweep 1", "sweep 2"}]
    <3>1. session \in [Sources -> Nat] /\ at \in [Sources -> {"away", "entity", "attributes", "sweep 1", "sweep 2"}]
      BY DEF SessionsInOrder
    <3>2. QED
      BY <1>1, <1>2, <3>1
  <2>3. QED
    BY <1>1, <1>4, <1>8, <2>1, <2>2, OthersInOrder
<1>10. QED
  BY <1>1, <1>2, <1>3, <1>6, <1>9 DEF Published

\* The loop and the sweep put keys of the session that is under way.
LEMMA PutInTurn ==
  ASSUME ViewTypes, SessionsInOrder, NEW x \in Sources, NEW next, UNCHANGED session,
         at' = [at EXCEPT ![x] = next],
         NEW key \in {EntityKey(x), AttributesKey(x)}, NEW tomb \in BOOLEAN, NEW subs \in SUBSET SubSpaces,
         Put(key, tomb, subs),
         ~tomb => subs = Tickets(x) /\ next \in {"entity", "attributes"} /\ at[x] \in {"entity", "attributes"},
         tomb /\ key = AttributesKey(x) => at[x] = "sweep 1" /\ next = "sweep 2",
         tomb /\ key = EntityKey(x) => at[x] = "sweep 2" /\ next = "away"
  PROVE  Published /\ SessionsInOrder'
<1>1. key \in Keys /\ EntityKey(x) \in Keys /\ AttributesKey(x) \in Keys /\ AttributesKey(x) # EntityKey(x)
  <2>1. x \in Identities
    BY DEF Identities
  <2>2. EntityKey(x) \in Keys /\ AttributesKey(x) \in Keys /\ AttributesKey(x) # EntityKey(x)
    BY <2>1, KeysOf, KeysDiffer
  <2>3. QED
    BY <2>2
<1>2. /\ cache'[key].tomb <=> tomb
      /\ cache'[key].subs = subs
      /\ \A k \in Keys \ {key} : cache'[k] = cache[k]
  BY <1>1, PutCached
<1>3. InOrder(x) /\ session'[x] = session[x] /\ at'[x] = next /\ Tickets(x)' = Tickets(x)
  BY SessionsByOne DEF SessionsInOrder, Tickets
<1>4. InTurn(key, tomb, subs)
  <2> SUFFICES ASSUME NEW y \in Sources
               PROVE  /\ key = EntityKey(y) =>
                           /\ tomb => cache[AttributesKey(y)].tomb
                           /\ ~tomb /\ ~cache[EntityKey(y)].tomb => subs = cache[EntityKey(y)].subs
                      /\ key = AttributesKey(y) =>
                           /\ ~cache[EntityKey(y)].tomb
                           /\ ~tomb => subs = cache[EntityKey(y)].subs
    BY DEF InTurn
  <2>1. key = EntityKey(y) \/ key = AttributesKey(y) => y = x
    BY KeysDiffer DEF Identities
  <2>2. QED
    BY <1>1, <1>3, <2>1 DEF InOrder
<1>5. InOrder(x)'
  BY <1>1, <1>2, <1>3 DEF InOrder
<1>6. next \in {"away", "entity", "attributes", "sweep 1", "sweep 2"}
  BY <1>1
<1>7. SessionsInOrder'
  <2>1. \A y \in Sources \ {x} : EntityKey(y) \in Keys \ {key} /\ AttributesKey(y) \in Keys \ {key}
    BY KeysOf, KeysDiffer DEF Identities
  <2>2. session' \in [Sources -> Nat] /\ at' \in [Sources -> {"away", "entity", "attributes", "sweep 1", "sweep 2"}]
    BY <1>6 DEF SessionsInOrder
  <2>3. QED
    BY <1>2, <1>5, <2>1, <2>2, OthersInOrder DEF SessionsInOrder
<1>8. QED
  BY <1>1, <1>4, <1>7 DEF Published

SourceStep(x) == Join(x) \/ SendEntity(x) \/ SendAttributes(x) \/ Depart(x) \/ Sweep(x)

Silent == UNCHANGED <<mine, busVars, clientVars, writerVars, sinkVars, excused>>

\* Only where a source is in its loop changes.
LEMMA SilentInOrder ==
  ASSUME SessionsInOrder, NEW x \in Sources, UNCHANGED <<session, cache>>,
         NEW next \in {"sweep 1", "sweep 2"}, at' = [at EXCEPT ![x] = next], at[x] # "away",
         next = "sweep 2" => cache[AttributesKey(x)].tomb
  PROVE  SessionsInOrder'
<1>1. InOrder(x)'
  BY SessionsByOne DEF InOrder, Tickets, SessionsInOrder
<1>2. QED
  BY <1>1, OthersInOrder DEF SessionsInOrder

LEMMA SourceInTurn ==
  ASSUME ViewTypes, SessionsInOrder, NEW x \in Sources, SourceStep(x)
  PROVE  (Published \/ Silent) /\ SessionsInOrder'
<1>1. InOrder(x)
  BY SessionsByOne
<1>2. at[x] # "away" => Tickets(x) \in SUBSET SubSpaces
  BY <1>1, TicketsAre DEF InOrder, SessionsInOrder
<1>3. CASE Join(x)
  BY <1>3, JoinInTurn
<1>4. CASE SendEntity(x)
  <2>1. /\ at[x] = "entity" /\ Put(EntityKey(x), FALSE, Tickets(x))
        /\ at' = [at EXCEPT ![x] = "attributes"] /\ UNCHANGED session
    BY <1>4 DEF SendEntity, Then, EntityKey
  <2>2. QED
    BY <1>2, <2>1, PutInTurn
<1>5. CASE SendAttributes(x)
  <2>1. /\ at[x] = "attributes" /\ Put(AttributesKey(x), FALSE, Tickets(x))
        /\ at' = [at EXCEPT ![x] = "entity"] /\ UNCHANGED session
    BY <1>5 DEF SendAttributes, Then, AttributesKey
  <2>2. QED
    BY <1>2, <2>1, PutInTurn
<1>6. CASE Depart(x)
  <2>1. /\ at[x] # "away" /\ at' = [at EXCEPT ![x] = "sweep 1"] /\ UNCHANGED <<session, cache>> /\ Silent
    BY <1>6 DEF Depart, Then, Silent, busVars
  <2>2. QED
    BY <2>1, SilentInOrder
<1>7. CASE SweepStep(x, "sweep 1", 1, "sweep 2")
  <2>1. /\ at[x] = "sweep 1" /\ at' = [at EXCEPT ![x] = "sweep 2"] /\ UNCHANGED session
        /\ \/ cache[AttributesKey(x)].tomb /\ Silent /\ UNCHANGED cache
           \/ Put(AttributesKey(x), TRUE, {})
    BY <1>7 DEF SweepStep, Then, SweepTopicOrder, AttributesKey, Silent, busVars
  <2>2. CASE Put(AttributesKey(x), TRUE, {})
    <3>1. AttributesKey(x) # EntityKey(x)
      BY KeysDiffer DEF Identities
    <3>2. {} \in SUBSET SubSpaces
      OBVIOUS
    <3>3. QED
      BY <2>1, <2>2, <3>1, <3>2, PutInTurn
  <2>3. QED
    BY <2>1, <2>2, SilentInOrder
<1>8. CASE SweepStep(x, "sweep 2", 2, "away")
  <2>1. /\ at[x] = "sweep 2" /\ at' = [at EXCEPT ![x] = "away"] /\ UNCHANGED session
        /\ \/ cache[EntityKey(x)].tomb
           \/ Put(EntityKey(x), TRUE, {})
    BY <1>8 DEF SweepStep, Then, SweepTopicOrder, EntityKey
  <2>2. Put(EntityKey(x), TRUE, {})
    BY <1>1, <2>1 DEF InOrder
  <2>3. AttributesKey(x) # EntityKey(x)
    BY KeysDiffer DEF Identities
  <2>4. {} \in SUBSET SubSpaces
    OBVIOUS
  <2>5. QED
    BY <2>1, <2>2, <2>3, <2>4, PutInTurn
<1>9. QED
  BY <1>3, <1>4, <1>5, <1>6, <1>7, <1>8 DEF SourceStep, Sweep

LEMMA ModerateInTurn ==
  ASSUME ViewTypes, SessionsInOrder, NEW tomb \in BOOLEAN, Moderate(tomb)
  PROVE  Published /\ SessionsInOrder'
<1>1. Put(EntityKey(Me), tomb, {}) /\ UNCHANGED <<session, at>>
  BY DEF Moderate, EntityKey, sourceVars
<1>2. Me \in Identities /\ EntityKey(Me) \in Keys /\ {} \in SUBSET SubSpaces
  BY KeysOf DEF Identities
<1>3. ASSUME NEW x \in Sources
      PROVE  /\ EntityKey(Me) # EntityKey(x) /\ EntityKey(Me) # AttributesKey(x)
             /\ EntityKey(x) \in Keys /\ AttributesKey(x) \in Keys
  <2>1. x \in Identities
    BY DEF Identities
  <2>2. QED
    BY <1>2, <2>1, KeysOf, KeysDiffer
<1>4. InTurn(EntityKey(Me), tomb, {})
  BY <1>3 DEF InTurn
<1>5. \A k \in Keys \ {EntityKey(Me)} : cache'[k] = cache[k]
  BY <1>1, <1>2, PutCached
<1>6. ASSUME NEW x \in Sources PROVE InOrder(x)'
  <2>1. cache'[EntityKey(x)] = cache[EntityKey(x)] /\ cache'[AttributesKey(x)] = cache[AttributesKey(x)]
    BY <1>3, <1>5
  <2>2. QED
    BY <1>1, <2>1, SessionsByOne DEF InOrder, Tickets
<1>7. SessionsInOrder'
  BY <1>1, <1>6 DEF SessionsInOrder, InOrder
<1>8. QED
  BY <1>1, <1>2, <1>4, <1>7 DEF Published

\* Everybody else leaves the sources and the cache alone.
ClientStep ==
  \/ Broadcast \/ Register \/ SendString \/ SetReceiveSender \/ Drain
  \/ BackfillBouncer \/ BackfillRead \/ BackfillDeliver
  \/ \E t \in Topics : Open(t)

LEMMA ClientsKeepCache ==
  ASSUME ClientStep
  PROVE  UNCHANGED <<mine, opId, cache, session, at>>
  BY DEF ClientStep, Broadcast, Register, SendString, SetReceiveSender, Drain, BackfillBouncer,
     BackfillRead, BackfillDeliver, Open, busVars, sourceVars

LEMMA NextIs ==
  ASSUME [Next]_vars
  PROVE  \/ \E x \in Sources : SourceStep(x)
         \/ \E tomb \in BOOLEAN : Moderate(tomb)
         \/ ClientStep
         \/ UNCHANGED vars
  BY DEF Next, SourceStep, ClientStep

LEMMA NextSessions ==
  ASSUME ViewTypes, SessionsInOrder, [Next]_vars
  PROVE  /\ SessionsInOrder'
         /\ Published \/ Silent \/ ClientStep
<1>1. CASE ClientStep
  BY <1>1, ClientsKeepCache DEF SessionsInOrder, Tickets
<1>2. CASE UNCHANGED vars
  BY <1>2 DEF vars, sourceVars, busVars, Silent, SessionsInOrder, Tickets
<1>3. QED
  BY <1>1, <1>2, NextIs, SourceInTurn, ModerateInTurn

LEMMA PublishedTypes ==
  ASSUME ViewTypes, StagesInOrder, Published \/ Silent
  PROVE  ViewTypes' /\ StagesInOrder'
<1>1. CASE Published
  <2>1. ViewTypes'
    BY <1>1, PutTypes DEF Published
  <2>2. UNCHANGED <<clientVars, writerVars, sinkVars>>
    BY <1>1 DEF Published, Put
  <2>3. QED
    BY <2>1, <2>2 DEF StagesInOrder, clientVars, writerVars, sinkVars
<1>2. CASE Silent
  BY <1>2 DEF Silent, ViewTypes, StagesInOrder, busVars, clientVars, writerVars, sinkVars
<1>3. QED
  BY <1>1, <1>2

LEMMA BroadcastTypes ==
  ASSUME ViewTypes, StagesInOrder, Broadcast
  PROVE  ViewTypes' /\ StagesInOrder'
<1>1. sending \in Ops
  BY DEF Broadcast, ViewTypes
<1>2. stage = "none" => stringChOut' = stringChOut
  BY DEF Broadcast
<1>3. stringChOut' \in Seq(Ops)
  <2>1. stringChOut' = stringChOut \/ stringChOut' = Append(stringChOut, sending)
    BY DEF Broadcast
  <2>2. stringChOut \in Seq(Ops)
    BY DEF ViewTypes
  <2>3. QED
    BY <1>1, <2>1, <2>2
<1>4. QED
  BY <1>2, <1>3 DEF Broadcast, ViewTypes, StagesInOrder, writerVars, sinkVars

LEMMA DrainTypes ==
  ASSUME ViewTypes, StagesInOrder, Drain
  PROVE  ViewTypes' /\ StagesInOrder'
<1>1. /\ Write(Head(draining), {}) /\ draining # <<>> /\ draining' = Tail(draining)
      /\ UNCHANGED <<mine, opId, cache, sending, stage, stringChOut, pendingStrings, toDeliver>>
  BY DEF Drain, busVars
<1>2. Head(draining) \in Ops /\ Tail(draining) \in Seq(Ops)
  BY <1>1, HeadTail DEF ViewTypes
<1>3. /\ members' \subseteq Sources
      /\ nodeSubspaces' \in [Sources -> SUBSET SubSpaces]
      /\ \A x \in Sources \ members' : nodeSubspaces'[x] = {}
      /\ opened' = opened
      /\ DOMAIN view' = Keys /\ view' = [k \in Keys |-> view'[k]]
      /\ pending' \in [Topics -> Seq(Ops)]
      /\ \A o \in Topics : \A p \in ToSet(pending'[o]) : p.key[1] = o
      /\ \A t \in opened : pending'[t] = pending[t]
  BY <1>1, <1>2, WriteTypes DEF StagesInOrder
<1>4. stage = "attached"
  BY <1>1 DEF StagesInOrder
<1>5. ViewTypes'
  BY <1>1, <1>2, <1>3 DEF ViewTypes
<1>6. StagesInOrder'
  BY <1>1, <1>3, <1>4 DEF StagesInOrder
<1>7. QED
  BY <1>5, <1>6

LEMMA SendStringTypes ==
  ASSUME ViewTypes, StagesInOrder, SendString
  PROVE  ViewTypes' /\ StagesInOrder'
<1> DEFINE op == Head(stringChOut)
           more == Append(pendingStrings, op)
<1>1. /\ stringChOut # <<>> /\ stringChOut' = Tail(stringChOut)
      /\ UNCHANGED <<mine, opId, cache, sending, stage, draining, toDeliver>>
  BY DEF SendString, busVars
<1>2. op \in Ops /\ Tail(stringChOut) \in Seq(Ops) /\ stage # "none"
  BY <1>1, HeadTail DEF ViewTypes, StagesInOrder
<1>3. CASE stage = "registered"
  <2>1. pendingStrings' = Trimmed(more) /\ UNCHANGED <<members, nodeSubspaces, opened, pending, view>>
    BY <1>3 DEF SendString, writerVars, sinkVars
  <2>2. Trimmed(more) \in Seq(Ops)
    BY <1>2, TrimmedTypes DEF ViewTypes
  <2>3. ViewTypes'
    BY <1>1, <1>2, <2>1, <2>2 DEF ViewTypes
  <2>4. StagesInOrder'
    BY <1>1, <1>3, <2>1 DEF StagesInOrder
  <2>5. QED
    BY <2>3, <2>4
<1>4. CASE stage # "registered"
  <2>1. PICK late : Write(op, late) /\ UNCHANGED pendingStrings
    BY <1>4 DEF SendString
  <2>2. /\ members' \subseteq Sources
        /\ nodeSubspaces' \in [Sources -> SUBSET SubSpaces]
        /\ \A x \in Sources \ members' : nodeSubspaces'[x] = {}
        /\ opened' = opened
        /\ DOMAIN view' = Keys /\ view' = [k \in Keys |-> view'[k]]
        /\ pending' \in [Topics -> Seq(Ops)]
        /\ \A o \in Topics : \A p \in ToSet(pending'[o]) : p.key[1] = o
        /\ \A t \in opened : pending'[t] = pending[t]
    BY <1>2, <2>1, WriteTypes DEF StagesInOrder
  <2>3. ViewTypes'
    BY <1>1, <1>2, <2>1, <2>2 DEF ViewTypes
  <2>4. StagesInOrder'
    BY <1>1, <1>2, <2>1, <2>2 DEF StagesInOrder
  <2>5. QED
    BY <2>3, <2>4
<1>5. QED
  BY <1>3, <1>4

LEMMA BackfillTypes ==
  ASSUME ViewTypes, StagesInOrder, BackfillRead \/ BackfillDeliver
  PROVE  ViewTypes' /\ StagesInOrder'
<1>1. CASE BackfillRead
  <2>1. /\ toDeliver' = {cache[k] : k \in {j \in Keys : ~cache[j].tomb}}
        /\ stage = "waiting" /\ stage' = "read"
        /\ UNCHANGED <<mine, opId, cache, sending, stringChOut, pendingStrings, draining,
                       members, nodeSubspaces, opened, pending, view>>
    BY <1>1 DEF BackfillRead, busVars, writerVars, sinkVars
  <2>2. toDeliver' \subseteq Ops /\ \A op, other \in toDeliver' : op.key = other.key => op = other
    BY <2>1 DEF ViewTypes
  <2>3. QED
    BY <2>1, <2>2 DEF ViewTypes, StagesInOrder
<1>2. CASE BackfillDeliver
  <2>1. PICK op \in Bucket :
          /\ stringChOut' = Append(stringChOut, op)
          /\ toDeliver' = toDeliver \ {op}
          /\ UNCHANGED <<mine, opId, cache, sending, stage, pendingStrings, draining,
                         members, nodeSubspaces, opened, pending, view>>
    BY <1>2 DEF BackfillDeliver, busVars, writerVars, sinkVars
  <2>2. op \in toDeliver /\ op \in Ops
    BY DEF Bucket, ViewTypes
  <2>3. stage = "read"
    BY <2>2 DEF StagesInOrder
  <2>4. ViewTypes'
    BY <2>1, <2>2 DEF ViewTypes
  <2>5. StagesInOrder'
    BY <2>1, <2>3 DEF StagesInOrder
  <2>6. QED
    BY <2>4, <2>5
<1>3. QED
  BY <1>1, <1>2

LEMMA OpenTypes ==
  ASSUME ViewTypes, StagesInOrder, NEW t \in Topics, Open(t)
  PROVE  ViewTypes' /\ StagesInOrder'
<1>1. /\ stage # "none" /\ opened' = opened \cup {t}
      /\ view' = [k \in Keys |-> Latest(k, {view[k]} \cup ToSet(pending[t]))]
      /\ pending' = [pending EXCEPT ![t] = <<>>]
      /\ UNCHANGED <<mine, opId, cache, sending, stage, stringChOut, pendingStrings, draining,
                     toDeliver, members, nodeSubspaces>>
  BY DEF Open, busVars, clientVars, writerVars
<1>2. DOMAIN view' = Keys /\ view' = [k \in Keys |-> view'[k]]
  BY <1>1
<1>3. /\ pending' \in [Topics -> Seq(Ops)] /\ \A o \in opened' : pending'[o] = <<>>
      /\ \A o \in Topics : \A p \in ToSet(pending'[o]) : p.key[1] = o
  <2>1. pending'[t] = <<>> /\ \A o \in Topics \ {t} : pending'[o] = pending[o]
    BY <1>1 DEF ViewTypes
  <2>2. pending' \in [Topics -> Seq(Ops)] /\ \A o \in opened' : pending'[o] = <<>>
    BY <1>1, <2>1 DEF ViewTypes, StagesInOrder
  <2>3. ToSet(<<>>) = {}
    BY DEF ToSet
  <2>4. \A o \in Topics : \A p \in ToSet(pending'[o]) : p.key[1] = o
    BY <2>1, <2>3 DEF ViewTypes
  <2>5. QED
    BY <2>2, <2>4
<1>4. ViewTypes'
  BY <1>1, <1>2, <1>3 DEF ViewTypes
<1>5. StagesInOrder'
  BY <1>1, <1>3 DEF StagesInOrder
<1>6. QED
  BY <1>4, <1>5

LEMMA StageTypes ==
  ASSUME ViewTypes, StagesInOrder, Register \/ SetReceiveSender \/ BackfillBouncer
  PROVE  ViewTypes' /\ StagesInOrder'
<1>1. UNCHANGED <<mine, opId, cache, sending, stringChOut, toDeliver, members, nodeSubspaces,
                 opened, pending, view>>
  BY DEF Register, SetReceiveSender, BackfillBouncer, busVars, writerVars, sinkVars
<1>2. ViewTypes'
  <2>1. \/ UNCHANGED <<pendingStrings, draining>>
        \/ draining' = pendingStrings /\ pendingStrings' = <<>>
    BY DEF Register, SetReceiveSender, BackfillBouncer
  <2>2. pendingStrings' \in Seq(Ops) /\ draining' \in Seq(Ops)
    <3>1. <<>> \in Seq(Ops) /\ pendingStrings \in Seq(Ops) /\ draining \in Seq(Ops)
      BY DEF ViewTypes
    <3>2. QED
      BY <2>1, <3>1
  <2>3. QED
    BY <1>1, <2>2 DEF ViewTypes
<1>3. StagesInOrder'
  BY <1>1 DEF StagesInOrder, Register, SetReceiveSender, BackfillBouncer
<1>4. QED
  BY <1>2, <1>3

LEMMA NextTypes ==
  ASSUME ViewTypes, StagesInOrder, SessionsInOrder, [Next]_vars
  PROVE  ViewTypes' /\ StagesInOrder' /\ SessionsInOrder'
<1>1. CASE ClientStep
  BY <1>1, BroadcastTypes, StageTypes, SendStringTypes, DrainTypes, BackfillTypes, OpenTypes,
     NextSessions DEF ClientStep
<1>2. CASE Published \/ Silent
  BY <1>2, PublishedTypes, NextSessions
<1>3. QED
  BY <1>1, <1>2, NextSessions

LEMMA InitTypes == Init => ViewTypes /\ StagesInOrder /\ SessionsInOrder
<1> SUFFICES ASSUME Init PROVE ViewTypes /\ StagesInOrder /\ SessionsInOrder
  OBVIOUS
<1>1. cache \in [Keys -> Ops] /\ \A k \in Keys : cache[k] = Absent(k)
  BY AbsentOp DEF Init
<1>2. \A k \in Keys : cache[k].key = k /\ cache[k].id = 0 /\ cache[k].tomb
  BY <1>1, AbsentOp
<1>3. ViewTypes
  <2>1. \A t \in Topics : \A op \in ToSet(pending[t]) : op.key[1] = t
    BY DEF Init, ToSet
  <2>2. sending = None /\ mine \in SUBSET SubSpaces /\ opId = 0
    BY DEF Init
  <2>3. DOMAIN view = Keys /\ view = [k \in Keys |-> view[k]] /\ pending \in [Topics -> Seq(Ops)]
    BY DEF Init
  <2>4. stringChOut \in Seq(Ops) /\ pendingStrings \in Seq(Ops) /\ draining \in Seq(Ops)
    BY DEF Init
  <2>5. toDeliver \subseteq Ops /\ members \subseteq Sources /\ opened \subseteq Topics
        /\ nodeSubspaces \in [Sources -> SUBSET SubSpaces]
    BY DEF Init
  <2>6. QED
    BY <1>1, <1>2, <2>1, <2>2, <2>3, <2>4, <2>5 DEF ViewTypes
<1>4. StagesInOrder
  BY DEF Init, StagesInOrder
<1>5. ASSUME NEW x \in Sources
      PROVE  cache[EntityKey(x)].tomb /\ cache[AttributesKey(x)].tomb /\ Len(SubSpacesOf[x]) \in Nat
  <2>1. EntityKey(x) \in Keys /\ AttributesKey(x) \in Keys /\ SubSpacesOf[x] \in Seq(SUBSET SubSpaces)
    BY KeysOf DEF Identities
  <2>2. QED
    BY <1>2, <2>1
<1>6. SessionsInOrder
  BY <1>5 DEF Init, SessionsInOrder
<1>7. QED
  BY <1>3, <1>4, <1>6

-------------------------------------------------------------------------------
(* The ops on their way lead from the client's side to the cache.          *)

\* What the writer has still to see, in its order.
Line == draining \o pendingStrings \o stringChOut

\* What comes behind: the backfill's ops, the record first, and the broadcast.
Owed(x, topic) == {op \in toDeliver : op.key = <<topic, x>>}
OnTheWay(x) == {op \in {sending} : op # None /\ About(op) = x}

\* At most one op, which must fit.
Takes(own, x, from, ops, to) ==
  \/ ops = {} /\ to = from
  \/ \E op \in ops : ops = {op} /\ Fits(x, from, op) /\ to = After(own, x, from, op)

\* What the client has been sent of an identity, or will be when it opens a channel.
SentOn(x) == {view[Carried(x)]} \cup {op \in ToSet(pending[Carried(x)[1]]) : op.key = Carried(x)}

\* None of it was out of the client's sight.
IsLatest(x, held) ==
  /\ held \in SentOn(x)
  /\ \A op \in SentOn(x) : /\ op \in Ops /\ op.key = Carried(x) /\ Newer(op, held)
                           /\ x # Me /\ ~op.tomb => Overlap(mine, op.subs)

Side(x, held) == [record |-> IF x \in members THEN {nodeSubspaces[x]} ELSE {}, held |-> held]

\* Where it all leads: nothing is there that the cache does not hold, and once
\* the backfill has been read all is there that the client may see.
UpToDate(x, side) ==
  LET marker == cache[EntityKey(x)]
      cached == cache[Carried(x)]
  IN /\ Newer(side.held, cached)
     /\ cached.tomb => side.held.tomb
     /\ x # Me => /\ marker.tomb => side.record = {}
                  /\ ~marker.tomb => side.record \subseteq {marker.subs}
                  /\ ~marker.tomb /\ stage = "read" => side.record = {marker.subs}
     /\ stage = "read" /\ ~cached.tomb /\ (x = Me \/ Overlap(mine, cached.subs)) => side.held = cached

Arriving(x, h, a, b, c, d) ==
  /\ IsLatest(x, h)
  /\ Leads(mine, x, Side(x, h), Line, a)
  /\ Takes(mine, x, a, Owed(x, "entity"), b)
  /\ Takes(mine, x, b, Owed(x, "attributes"), c)
  /\ Takes(mine, x, c, OnTheWay(x), d)
  /\ UpToDate(x, d)

Arrives(x) == \E h \in Ops, a, b, c, d \in Sides : Arriving(x, h, a, b, c, d)

LEMMA TakesSound ==
  ASSUME NEW own, NEW x \in Identities, NEW ops, ops \subseteq Ops, NEW from \in Sides, NEW to,
         Sound(own, x, from), Takes(own, x, from, ops, to)
  PROVE  to \in Sides /\ Sound(own, x, to)
  BY SideAfter DEF Takes

LEMMA LineTypes ==
  ASSUME ViewTypes, NEW x
  PROVE  /\ Line \in Seq(Ops)
         /\ OnTheWay(x) \subseteq Ops
         /\ \A topic : Owed(x, topic) \subseteq Ops
<1>1. draining \o pendingStrings \in Seq(Ops)
  BY DEF ViewTypes
<1>2. Line \in Seq(Ops)
  BY <1>1 DEF ViewTypes, Line
<1>3. QED
  BY <1>2 DEF ViewTypes, OnTheWay, Owed

\* Every state on the way is sound.
LEMMA SoundOnTheWay ==
  ASSUME ViewTypes, NEW x \in Identities, NEW h \in Ops,
         NEW a \in Sides, NEW b \in Sides, NEW c \in Sides, NEW d \in Sides, Arriving(x, h, a, b, c, d)
  PROVE  /\ Side(x, h) \in Sides /\ Sound(mine, x, Side(x, h))
         /\ Sound(mine, x, a) /\ Sound(mine, x, b) /\ Sound(mine, x, c) /\ Sound(mine, x, d)
<1>1. /\ Line \in Seq(Ops) /\ OnTheWay(x) \subseteq Ops
      /\ Owed(x, "entity") \subseteq Ops /\ Owed(x, "attributes") \subseteq Ops
  BY LineTypes
<1>2. Side(x, h) \in Sides /\ Sound(mine, x, Side(x, h)) /\ Sound(mine, x, a)
  BY <1>1, RunEnds DEF Arriving
<1>3. Sound(mine, x, b)
  BY <1>1, <1>2, TakesSound DEF Arriving
<1>4. Sound(mine, x, c)
  BY <1>1, <1>3, TakesSound DEF Arriving
<1>5. Sound(mine, x, d)
  BY <1>1, <1>4, TakesSound DEF Arriving
<1>6. QED
  BY <1>2, <1>3, <1>4, <1>5

\* What is published fits on what is there and keeps it up to date.
LEMMA PublishedFits ==
  ASSUME ViewTypes, NEW x \in Identities, NEW key \in Keys, NEW tomb \in BOOLEAN, NEW subs \in SUBSET SubSpaces,
         Put(key, tomb, subs), InTurn(key, tomb, subs), key[2] = x,
         NEW side \in Sides, Sound(mine, x, side), UpToDate(x, side),
         NEW op, op = sending', NEW after, after = After(mine, x, side, op)
  PROVE  Fits(x, side, op) /\ UpToDate(x, after)'
<1>1. /\ op \in Ops /\ op.key = key /\ op.tomb = tomb /\ op.subs = subs /\ op.id = opId + 1
      /\ cache'[key] = op /\ \A k \in Keys \ {key} : cache'[k] = cache[k]
      /\ mine' = mine /\ stage' = stage
  BY PutOp DEF clientVars
<1>2. About(op) = x /\ EntityKey(x) \in Keys /\ Carried(x) \in Keys
  BY <1>1, KeysOf DEF About
<1>3. Newer(side.held, op)
  <2>1. side.held.id <= cache[Carried(x)].id /\ cache[Carried(x)].id <= opId
    BY <1>2 DEF UpToDate, Newer, ViewTypes
  <2>2. side.held.id \in Nat /\ cache[Carried(x)].id \in Nat /\ opId \in Nat
    BY <1>2 DEF Sides, Ops, ViewTypes
  <2>3. QED
    BY <1>1, <2>1, <2>2 DEF Newer
<1>4. CASE x = Me
  <2>1. key = Carried(x) /\ after = [side EXCEPT !.held = op]
    BY <1>1, <1>2, <1>4, OpKeys DEF After
  <2>2. after.held = op
    BY <2>1 DEF Sides
  <2>3. UpToDate(x, after)'
    BY <1>1, <1>4, <2>1, <2>2 DEF UpToDate, Newer, Ops
  <2>4. QED
    BY <1>3, <1>4, <2>3 DEF Fits
<1>5. CASE x # Me /\ key = EntityKey(x)
  <2>1. x \in Sources /\ Carried(x) = AttributesKey(x) /\ AttributesKey(x) # EntityKey(x) /\ op.key[1] = "entity"
    BY <1>1, <1>5, KeysOf, KeysDiffer DEF Identities, EntityKey
  <2>2. cache'[EntityKey(x)] = op /\ cache'[Carried(x)] = cache[Carried(x)]
    BY <1>1, <1>2, <1>5, <2>1
  <2>3. after = [side EXCEPT !.record = IF op.tomb THEN {} ELSE {op.subs}]
    BY <1>2, <1>5, <2>1 DEF After
  <2>4. after.held = side.held /\ after.record = IF op.tomb THEN {} ELSE {op.subs}
    BY <2>3 DEF Sides
  <2>5. op.tomb => cache[Carried(x)].tomb
    BY <1>1, <1>5, <2>1 DEF InTurn
  <2>6. ~op.tomb => cache[EntityKey(x)].tomb \/ cache[EntityKey(x)].subs = op.subs
    BY <1>1, <1>5, <2>1 DEF InTurn
  <2>7. Fits(x, side, op)
    BY <1>3, <1>5, <2>5, <2>6 DEF Fits, UpToDate
  <2>8. UpToDate(x, after)'
    BY <1>1, <1>5, <2>2, <2>4 DEF UpToDate
  <2>9. QED
    BY <2>7, <2>8
<1>6. CASE x # Me /\ key = AttributesKey(x)
  <2>1. x \in Sources /\ Carried(x) = AttributesKey(x) /\ AttributesKey(x) # EntityKey(x) /\ op.key[1] = "attributes"
    BY <1>1, <1>6, KeysOf, KeysDiffer DEF Identities, AttributesKey
  <2>2. cache'[Carried(x)] = op /\ cache'[EntityKey(x)] = cache[EntityKey(x)]
    BY <1>1, <1>2, <1>6, <2>1
  <2>3. ~cache[EntityKey(x)].tomb /\ (~op.tomb => op.subs = cache[EntityKey(x)].subs)
    BY <1>1, <1>6, <2>1 DEF InTurn
  <2>4. Fits(x, side, op)
    BY <1>3, <1>6, <2>1, <2>3 DEF Fits, UpToDate
  <2>5. CASE Sees(mine, side)
    <3>1. after.held = op /\ after.record = side.record
      BY <1>2, <2>1, <2>5 DEF After, Sides
    <3>2. UpToDate(x, after)'
      BY <1>1, <1>6, <2>2, <2>3, <3>1 DEF UpToDate, Newer, Ops
    <3>3. QED
      BY <2>4, <3>2
  <2>6. CASE ~Sees(mine, side)
    <3>1. after = side
      BY <1>2, <1>6, <2>1, <2>6 DEF After
    <3>2. side.held.tomb
      BY <1>6, <2>6 DEF Sound, Sees
    <3>3. stage = "read" => side.record = {cache[EntityKey(x)].subs}
      BY <1>6, <2>3 DEF UpToDate
    <3>4. stage = "read" /\ ~op.tomb => ~Overlap(mine, op.subs)
      BY <2>3, <2>6, <3>3 DEF Sees
    <3>5. UpToDate(x, after)'
      BY <1>1, <1>3, <1>6, <2>2, <2>3, <3>1, <3>2, <3>4 DEF UpToDate
    <3>6. QED
      BY <2>4, <3>5
  <2>7. QED
    BY <2>5, <2>6
<1>7. QED
  <2>1. key[2] # Me => key = EntityKey(x) \/ key = AttributesKey(x)
    BY DEF Keys, Topics, EntityKey, AttributesKey
  <2>2. QED
    BY <1>4, <1>5, <1>6, <2>1

LEMMA PublishedArrives ==
  ASSUME ViewTypes, NEW x \in Identities, Arrives(x), Published
  PROVE  Arrives(x)'
<1>1. PICK key \in Keys, tomb \in BOOLEAN, subs \in SUBSET SubSpaces :
        Put(key, tomb, subs) /\ InTurn(key, tomb, subs)
  BY DEF Published
<1>2. PICK h \in Ops, a \in Sides, b \in Sides, c \in Sides, d \in Sides : Arriving(x, h, a, b, c, d)
  BY DEF Arrives
<1>3. PICK op : op = sending'
  OBVIOUS
<1>4. /\ op \in Ops /\ op # None /\ sending = None /\ op.key = key
      /\ \A k \in Keys \ {key} : cache'[k] = cache[k]
      /\ UNCHANGED <<mine, clientVars, writerVars, sinkVars>>
  BY <1>1, <1>3, PutOp
<1>5. UNCHANGED <<mine, stage, stringChOut, pendingStrings, draining, toDeliver, members, nodeSubspaces, view, pending>>
  BY <1>4 DEF clientVars, writerVars, sinkVars
<1>6. OnTheWay(x) = {} /\ d = c
  BY <1>2, <1>4 DEF OnTheWay, Arriving, Takes
<1>7. /\ IsLatest(x, h)' /\ Leads(mine, x, Side(x, h), Line, a)'
      /\ Takes(mine, x, a, Owed(x, "entity"), b)' /\ Takes(mine, x, b, Owed(x, "attributes"), c)'
  BY <1>2, <1>5 DEF Arriving, IsLatest, SentOn, Side, Line, Owed
<1>8. CASE key[2] = x
  <2>1. PICK after : after = After(mine, x, d, op)
    OBVIOUS
  <2>2. Sound(mine, x, d) /\ UpToDate(x, d)
    BY <1>2, SoundOnTheWay DEF Arriving
  <2>3. Fits(x, d, op) /\ UpToDate(x, after)'
    BY <1>1, <1>3, <1>8, <2>1, <2>2, PublishedFits
  <2>4. after \in Sides
    BY <1>4, <2>1, <2>2, <2>3, SideAfter
  <2>5. OnTheWay(x)' = {op}
    BY <1>3, <1>4, <1>8 DEF OnTheWay, About
  <2>6. Takes(mine, x, c, OnTheWay(x), after)'
    BY <1>5, <1>6, <2>1, <2>3, <2>5 DEF Takes
  <2>7. Arriving(x, h, a, b, c, after)'
    BY <1>7, <2>3, <2>6 DEF Arriving
  <2>8. QED
    BY <2>4, <2>7 DEF Arrives
<1>9. CASE key[2] # x
  <2>1. OnTheWay(x)' = {}
    BY <1>3, <1>4, <1>9 DEF OnTheWay, About
  <2>2. EntityKey(x) \in Keys \ {key} /\ Carried(x) \in Keys \ {key}
    BY <1>9, KeysOf DEF EntityKey, Carried
  <2>3. UpToDate(x, d)'
    BY <1>2, <1>4, <1>5, <2>2 DEF Arriving, UpToDate
  <2>4. Arriving(x, h, a, b, c, d)'
    BY <1>6, <1>7, <2>1, <2>3 DEF Arriving, Takes
  <2>5. QED
    BY <2>4 DEF Arrives
<1>10. QED
  BY <1>8, <1>9

LEMMA ConcatAppend ==
  ASSUME NEW s \in Seq(Ops), NEW t \in Seq(Ops), NEW op \in Ops
  PROVE  s \o Append(t, op) = Append(s \o t, op)
  OBVIOUS

LEMMA LineAppend ==
  ASSUME ViewTypes, NEW op \in Ops, stringChOut' = Append(stringChOut, op), UNCHANGED <<draining, pendingStrings>>
  PROVE  Line' = Append(Line, op)
<1>1. draining \o pendingStrings \in Seq(Ops) /\ stringChOut \in Seq(Ops)
  BY DEF ViewTypes
<1>2. QED
  BY <1>1, ConcatAppend DEF Line

\* An op about somebody else at the end of the line.
LEMMA OtherAtEnd ==
  ASSUME NEW own, NEW x \in Identities, NEW from, NEW to, NEW ops \in Seq(Ops), NEW op \in Ops,
         Leads(own, x, from, ops, to), About(op) # x
  PROVE  Leads(own, x, from, Append(ops, op), to)
<1>1. Fits(x, to, op) /\ After(own, x, to, op) = to
  BY DEF Fits, After
<1>2. QED
  BY <1>1, RunGoesOn

\* Nothing has been sent to a client that is not registered.
LEMMA NothingSent ==
  ASSUME ViewTypes, StagesInOrder, stage = "none", NEW x \in Identities, Arrives(x)
  PROVE  \E d \in Sides : Takes(mine, x, [record |-> {}, held |-> Absent(Carried(x))], OnTheWay(x), d)
                          /\ UpToDate(x, d)
<1> DEFINE k == Carried(x)
<1>1. PICK h \in Ops, a \in Sides, b \in Sides, c \in Sides, d \in Sides : Arriving(x, h, a, b, c, d)
  BY DEF Arrives
<1>2. /\ members = {} /\ view[k] = Absent(k) /\ pending[k[1]] = <<>>
      /\ draining = <<>> /\ pendingStrings = <<>> /\ stringChOut = <<>> /\ toDeliver = {}
  BY KeysOf DEF StagesInOrder
<1>3. ToSet(<<>>) = {}
  BY DEF ToSet
<1>4. h = Absent(k)
  BY <1>1, <1>2, <1>3 DEF Arriving, IsLatest, SentOn
<1>5. Line = <<>>
  BY <1>2 DEF Line
<1>6. a = [record |-> {}, held |-> h]
  BY <1>1, <1>2, <1>5, RunOfNothing DEF Arriving, Side
<1>7. b = a /\ c = b
  BY <1>1, <1>2 DEF Arriving, Takes, Owed
<1>8. QED
  BY <1>1, <1>4, <1>6, <1>7 DEF Arriving

LEMMA BroadcastArrives ==
  ASSUME ViewTypes, StagesInOrder, NEW x \in Identities, Arrives(x), Broadcast, x \notin excused'
  PROVE  Arrives(x)'
<1>1. PICK op : op = sending
  OBVIOUS
<1>2. /\ op # None /\ op \in Ops /\ sending' = None
      /\ UNCHANGED <<mine, cache, stage, pendingStrings, draining, toDeliver, members, nodeSubspaces, view, pending>>
  BY <1>1 DEF Broadcast, ViewTypes, writerVars, sinkVars
<1>3. OnTheWay(x)' = {}
  BY <1>2 DEF OnTheWay
<1>4. CASE stage = "none"
  <2>1. PICK d \in Sides : Takes(mine, x, [record |-> {}, held |-> Absent(Carried(x))], OnTheWay(x), d) /\ UpToDate(x, d)
    BY <1>4, NothingSent
  <2> DEFINE k == Carried(x)
             h == Absent(k)
             none == [record |-> {}, held |-> h]
  <2>2. k \in Keys /\ h \in Ops /\ h.key = k /\ h.tomb /\ h.id = 0 /\ none \in Sides
    BY KeysOf, AbsentOp DEF Sides
  <2>3. /\ members' = {} /\ view'[k] = h /\ pending'[k[1]] = <<>> /\ toDeliver' = {} /\ Line' = <<>>
    BY <1>2, <1>4, KeysOf DEF StagesInOrder, Line, Broadcast
  <2>4. ToSet(<<>>) = {}
    BY DEF ToSet
  <2>5. IsLatest(x, h)'
    BY <2>2, <2>3, <2>4 DEF IsLatest, SentOn, Newer
  <2>6. Side(x, h)' = none
    BY <2>3 DEF Side
  <2>7. Sound(mine, x, none)
    BY <2>2 DEF Sound
  <2>8. Leads(mine, x, Side(x, h), Line, none)'
    BY <1>2, <2>2, <2>3, <2>6, <2>7, EmptyRun
  <2>9. Owed(x, "entity")' = {} /\ Owed(x, "attributes")' = {}
    BY <2>3 DEF Owed
  <2>10. UpToDate(x, none)'
    <3>1. cache[k].id \in Nat /\ (cache[k].id = 0 => cache[k] = h)
      BY <2>2 DEF ViewTypes, Ops
    <3>2. Newer(h, cache[k])
      BY <2>2, <3>1 DEF Newer
    <3>3. QED
      BY <1>2, <1>4, <2>2, <3>2 DEF UpToDate
  <2>11. Arriving(x, h, none, none, none, none)'
    BY <1>3, <2>5, <2>8, <2>9, <2>10 DEF Arriving, Takes
  <2>12. QED
    BY <2>2, <2>11 DEF Arrives
<1>5. CASE stage # "none"
  <2>1. PICK h \in Ops, a \in Sides, b \in Sides, c \in Sides, d \in Sides : Arriving(x, h, a, b, c, d)
    BY DEF Arrives
  <2>2. stringChOut' = Append(stringChOut, op) /\ excused' = IF Mentions(toDeliver, About(op)) THEN excused \cup {About(op)} ELSE excused
    BY <1>1, <1>5 DEF Broadcast
  <2>3. Line \in Seq(Ops) /\ Line' = Append(Line, op)
    BY <1>2, <2>2, LineAppend, LineTypes
  <2>4. /\ IsLatest(x, h)' /\ Side(x, h)' = Side(x, h) /\ UpToDate(x, d)'
        /\ Owed(x, "entity")' = Owed(x, "entity") /\ Owed(x, "attributes")' = Owed(x, "attributes")
    BY <1>2, <2>1 DEF Arriving, IsLatest, SentOn, Side, Owed, UpToDate
  <2>5. CASE About(op) = x
    <3>1. ~Mentions(toDeliver, x)
      BY <2>2, <2>5
    <3>2. Owed(x, "entity") = {} /\ Owed(x, "attributes") = {}
      BY <3>1 DEF Mentions, Owed, About
    <3>3. b = a /\ c = a
      BY <2>1, <3>2 DEF Arriving, Takes
    <3>4. OnTheWay(x) = {op}
      BY <1>1, <1>2, <2>5 DEF OnTheWay
    <3>5. Fits(x, a, op) /\ d = After(mine, x, a, op)
      BY <2>1, <3>3, <3>4 DEF Arriving, Takes
    <3>6. Leads(mine, x, Side(x, h), Line', d)
      BY <1>2, <2>1, <2>3, <3>5, RunGoesOn DEF Arriving
    <3>7. Arriving(x, h, d, d, d, d)'
      BY <1>2, <1>3, <2>4, <3>2, <3>6 DEF Arriving, Takes
    <3>8. QED
      BY <3>7 DEF Arrives
  <2>6. CASE About(op) # x
    <3>1. Leads(mine, x, Side(x, h), Line', a)
      BY <1>2, <2>1, <2>3, <2>6, OtherAtEnd DEF Arriving
    <3>2. OnTheWay(x) = {}
      BY <1>1, <2>6 DEF OnTheWay
    <3>3. Arriving(x, h, a, b, c, d)'
      BY <1>2, <1>3, <2>1, <2>4, <3>1, <3>2 DEF Arriving
    <3>4. QED
      BY <3>3 DEF Arrives
  <2>7. QED
    BY <2>5, <2>6
<1>6. QED
  BY <1>4, <1>5

\* A step that moves nothing.
LEMMA StillArrives ==
  ASSUME NEW x \in Identities, Arrives(x),
         UNCHANGED <<mine, cache, sending, toDeliver, members, nodeSubspaces, view, pending>>,
         Line' = Line, stage' = stage \/ stage' # "read"
  PROVE  Arrives(x)'
<1>1. PICK h \in Ops, a \in Sides, b \in Sides, c \in Sides, d \in Sides : Arriving(x, h, a, b, c, d)
  BY DEF Arrives
<1>2. /\ IsLatest(x, h)' /\ Leads(mine, x, Side(x, h), Line, a)'
      /\ Takes(mine, x, a, Owed(x, "entity"), b)' /\ Takes(mine, x, b, Owed(x, "attributes"), c)'
      /\ Takes(mine, x, c, OnTheWay(x), d)'
  BY <1>1 DEF Arriving, IsLatest, SentOn, Side, Owed, OnTheWay
<1>3. UpToDate(x, d)'
  BY <1>1 DEF Arriving, UpToDate
<1>4. QED
  BY <1>2, <1>3 DEF Arriving, Arrives

LEMMA SilentArrives ==
  ASSUME ViewTypes, StagesInOrder, NEW x \in Identities, Arrives(x),
         Silent \/ Register \/ SetReceiveSender \/ BackfillBouncer
  PROVE  Arrives(x)'
<1>1. /\ UNCHANGED <<mine, cache, sending, toDeliver, members, nodeSubspaces, view, pending>>
      /\ stage' = stage \/ stage' # "read"
  BY DEF Silent, Register, SetReceiveSender, BackfillBouncer, busVars, clientVars, writerVars, sinkVars
<1>2. CASE SetReceiveSender
  <2>1. /\ draining = <<>> /\ draining' = pendingStrings /\ pendingStrings' = <<>>
        /\ stringChOut' = stringChOut
    BY <1>2 DEF SetReceiveSender, StagesInOrder
  <2>2. <<>> \o pendingStrings = pendingStrings /\ pendingStrings \o <<>> = pendingStrings
    BY DEF ViewTypes
  <2>3. Line' = Line
    BY <2>1, <2>2 DEF Line
  <2>4. QED
    BY <1>1, <2>3, StillArrives
<1>3. CASE Silent \/ Register \/ BackfillBouncer
  <2>1. Line' = Line
    BY <1>3 DEF Silent, Register, BackfillBouncer, clientVars, Line
  <2>2. QED
    BY <1>1, <2>1, StillArrives
<1>4. QED
  BY <1>2, <1>3

-------------------------------------------------------------------------------
(* What the writer does with an op.                                        *)

\* An op for the client is the latest it is sent.
LEMMA ForwardLatest ==
  ASSUME ViewTypes, StagesInOrder, NEW x \in Identities, NEW op \in Ops, NEW late, Forward(op, late),
         x \notin excused', mine' = mine, NEW h \in Ops, IsLatest(x, h),
         op.key = Carried(x), Newer(h, op), x # Me /\ ~op.tomb => Overlap(mine, op.subs)
  PROVE  IsLatest(x, op)'
<1> DEFINE k == Carried(x)
           t == k[1]
           more == Append(pending[t], op)
<1>1. k \in Keys /\ t \in Topics /\ op.key[1] = t /\ About(op) = x
  BY KeysOf DEF Carried, About
<1>2. /\ \A o \in SentOn(x) : /\ o \in Ops /\ o.key = k /\ Newer(o, h)
                              /\ x # Me /\ ~o.tomb => Overlap(mine, o.subs)
      /\ h \in SentOn(x)
  BY DEF IsLatest
<1>3. Newer(op, op)
  BY OpKeys DEF Newer
<1>4. ASSUME NEW o \in SentOn(x)
      PROVE  Newer(o, op)
  <2>1. o.id \in Nat /\ h.id \in Nat /\ op.id \in Nat
    BY <1>2, OpKeys
  <2>2. QED
    BY <1>2, <2>1 DEF Newer
<1>5. CASE t \in opened
  <2>1. view'[k] = (IF op.id > view[k].id THEN op ELSE view[k]) /\ pending' = pending
    <3>1. view' = [view EXCEPT ![op.key] = IF op.id > @.id THEN op ELSE @] /\ pending' = pending
      BY <1>1, <1>5 DEF Forward, Received
    <3>2. QED
      BY <1>1, <3>1 DEF ViewTypes
  <2>2. pending[t] = <<>> /\ ToSet(<<>>) = {}
    BY <1>5 DEF StagesInOrder, ToSet
  <2>3. SentOn(x) = {view[k]}
    BY <2>2 DEF SentOn
  <2>4. h = view[k]
    BY <1>2, <2>3
  <2>5. view'[k] = op
    <3>1. h.id \in Nat /\ op.id \in Nat
      BY OpKeys
    <3>2. QED
      BY <2>1, <2>4, <3>1 DEF Newer
  <2>6. SentOn(x)' = {op}
    BY <2>1, <2>2, <2>5 DEF SentOn
  <2>7. QED
    BY <1>3, <2>6 DEF IsLatest
<1>6. CASE t \notin opened
  <2>1. /\ pending' = [pending EXCEPT ![t] = Trimmed(more)] /\ view' = view
        /\ Cut(more) \subseteq excused'
    BY <1>1, <1>6 DEF Forward
  <2>2. pending'[t] = Trimmed(more) /\ pending[t] \in Seq(Ops)
    BY <1>1, <2>1 DEF ViewTypes
  <2>3. /\ ToSet(Trimmed(more)) \subseteq ToSet(pending[t]) \cup {op}
        /\ op \in ToSet(Trimmed(more))
    BY <1>1, <2>1, <2>2, TrimmedTypes
  <2>4. op \in SentOn(x)' /\ \A o \in SentOn(x)' : o = op \/ o \in SentOn(x)
    BY <2>1, <2>2, <2>3 DEF SentOn
  <2>5. QED
    BY <1>2, <1>3, <1>4, <2>4 DEF IsLatest
<1>7. QED
  BY <1>5, <1>6

\* Another's op, or one that is dropped, is nothing to it.
LEMMA LatestStays ==
  ASSUME ViewTypes, StagesInOrder, NEW x \in Identities, NEW op \in Ops, NEW late,
         Drop(late) \/ (Forward(op, late) /\ op.key # Carried(x)),
         x \notin excused', mine' = mine, NEW h \in Ops, IsLatest(x, h)
  PROVE  IsLatest(x, h)'
<1> DEFINE k == Carried(x)
           t == k[1]
           more == Append(pending[t], op)
<1>1. k \in Keys /\ t \in Topics
  BY KeysOf
<1>2. CASE Drop(late)
  BY <1>2 DEF Drop, sinkVars, IsLatest, SentOn
<1>3. CASE Forward(op, late) /\ op.key # k /\ op.key[1] \in opened
  <2>1. view' = [view EXCEPT ![op.key] = IF op.id > @.id THEN op ELSE @] /\ pending' = pending
    BY <1>3 DEF Forward, Received
  <2>2. view'[k] = view[k]
    BY <1>1, <1>3, <2>1 DEF ViewTypes
  <2>3. QED
    BY <2>1, <2>2 DEF IsLatest, SentOn
<1>4. CASE Forward(op, late) /\ op.key # k /\ op.key[1] \notin opened
  <2>1. /\ pending' = [pending EXCEPT ![op.key[1]] = Trimmed(Append(pending[op.key[1]], op))] /\ view' = view
        /\ Cut(Append(pending[op.key[1]], op)) \subseteq excused'
    BY <1>4 DEF Forward
  <2>2. CASE op.key[1] # t
    <3>1. pending'[t] = pending[t]
      BY <1>1, <2>1, <2>2 DEF ViewTypes
    <3>2. QED
      BY <2>1, <3>1 DEF IsLatest, SentOn
  <2>3. CASE op.key[1] = t
    <3>1. pending'[t] = Trimmed(more) /\ pending[t] \in Seq(Ops) /\ Cut(more) \subseteq excused'
      BY <1>1, <2>1, <2>3 DEF ViewTypes
    <3>2. /\ ToSet(Trimmed(more)) \subseteq ToSet(pending[t]) \cup {op}
          /\ \A p \in ToSet(pending[t]) : p \in ToSet(Trimmed(more)) \/ About(p) \in Cut(more)
      BY <3>1, TrimmedTypes
    <3>3. \A p : p.key = k => About(p) = x
      BY DEF Carried, About
    <3>4. SentOn(x)' = SentOn(x)
      BY <1>4, <2>1, <3>1, <3>2, <3>3 DEF SentOn
    <3>5. QED
      BY <3>4 DEF IsLatest
  <2>4. QED
    BY <2>2, <2>3
<1>5. QED
  BY <1>2, <1>3, <1>4

\* The effect of an op that fits is that of After.
LEMMA WriteSide ==
  ASSUME ViewTypes, StagesInOrder, NEW x \in Identities, NEW op \in Ops, NEW late, Write(op, late),
         x \notin excused', mine' = mine, NEW h \in Ops, IsLatest(x, h), Fits(x, Side(x, h), op),
         NEW after, after = After(mine, x, Side(x, h), op)
  PROVE  \E g \in Ops : IsLatest(x, g)' /\ Side(x, g)' = after
<1> DEFINE side == Side(x, h)
<1>1. side.held = h /\ side.record = IF x \in members THEN {nodeSubspaces[x]} ELSE {}
  BY DEF Side
<1>2. /\ \A y \in Sources : About(op) # y => (y \in members' <=> y \in members) /\ nodeSubspaces'[y] = nodeSubspaces[y]
      /\ members' \subseteq Sources /\ members \subseteq Sources /\ Me \notin Sources
      /\ nodeSubspaces \in [Sources -> SUBSET SubSpaces]
      /\ \E l : Forward(op, l) \/ Drop(l)
  BY WriteMembers DEF StagesInOrder, ViewTypes
<1>3. \A p : p.key = Carried(x) => About(p) = x
  BY DEF Carried, About
<1>4. CASE About(op) # x
  <2>1. IsLatest(x, h)'
    BY <1>2, <1>3, <1>4, LatestStays
  <2>2. Side(x, h)' = side
    BY <1>2, <1>4 DEF Side, Identities
  <2>3. QED
    BY <1>4, <2>1, <2>2 DEF After
<1>5. CASE About(op) = x /\ x = Me
  <2>1. op.key = Carried(x) /\ op.key[1] = "entity" /\ EntityKeyVisible(op.key)
    <3>1. op.key = Carried(x)
      BY <1>5, OpKeys
    <3>2. Carried(x) = <<"entity", Me>>
      BY <1>5 DEF Carried
    <3>3. QED
      BY <3>1, <3>2 DEF EntityKeyVisible
  <2>2. Forward(op, late)
    BY <2>1 DEF Write
  <2>3. Newer(h, op)
    BY <1>1, <1>5, <2>1 DEF Fits
  <2>4. IsLatest(x, op)'
    BY <1>5, <2>1, <2>2, <2>3, ForwardLatest
  <2>5. after = [side EXCEPT !.held = op]
    BY <1>5 DEF After
  <2>6. Side(x, op)' = after
    BY <1>2, <1>5, <2>5 DEF Side
  <2>7. QED
    BY <2>4, <2>6
<1>6. CASE About(op) = x /\ x # Me /\ op.key[1] = "entity"
  <2>1. x \in Sources /\ op.key[2] = x /\ op.subs \in SUBSET SubSpaces
    BY <1>6, OpKeys DEF Identities, About
  <2>2. Drop(late) /\ members' = HandledEntity(op)[1] /\ nodeSubspaces' = HandledEntity(op)[2]
    BY <1>6, <2>1 DEF Write, EntityKeyVisible
  <2>3. IsLatest(x, h)'
    BY <2>2, LatestStays
  <2>4. after = [record |-> IF op.tomb THEN {} ELSE {op.subs}, held |-> h]
    BY <1>1, <1>6 DEF After, Side
  <2>5. CASE op.tomb
    <3>1. x \notin members'
      BY <1>6, <2>2, <2>5 DEF HandledEntity
    <3>2. QED
      BY <2>3, <2>4, <2>5, <3>1 DEF Side
  <2>6. CASE ~op.tomb
    <3>1. x \in members' /\ nodeSubspaces'[x] = nodeSubspaces[x] \cup op.subs
      BY <1>2, <1>6, <2>1, <2>2, <2>6 DEF HandledEntity
    <3>2. nodeSubspaces[x] \cup op.subs = op.subs
      <4>1. CASE x \in members
        BY <1>1, <1>6, <2>6, <4>1 DEF Fits
      <4>2. CASE x \notin members
        BY <2>1, <4>2 DEF StagesInOrder
      <4>3. QED
        BY <4>1, <4>2
    <3>3. QED
      BY <2>3, <2>4, <2>6, <3>1, <3>2 DEF Side
  <2>7. QED
    BY <2>5, <2>6
<1>7. CASE About(op) = x /\ x # Me /\ op.key[1] = "attributes"
  <2>1. op.key = Carried(x) /\ op.key[1] # "entity"
    BY <1>7, OpKeys
  <2>2. CASE UuidVisible(x)
    <3>1. /\ members' = members \cup {x} /\ nodeSubspaces' = nodeSubspaces
          /\ Forward(op, late \cup ({x} \ members))
      BY <1>7, <2>1, <2>2 DEF Write
    <3>2. x \in members
      BY <3>1 DEF Forward
    <3>3. Newer(h, op) /\ (~op.tomb => nodeSubspaces[x] = op.subs)
      BY <1>1, <1>7, <2>1, <3>2 DEF Fits
    <3>4. IsLatest(x, op)'
      BY <2>1, <2>2, <3>1, <3>3, ForwardLatest DEF UuidVisible
    <3>5. Sees(mine, side)
      BY <1>1, <2>2, <3>2 DEF Sees, UuidVisible
    <3>6. after = [side EXCEPT !.held = op]
      BY <1>7, <3>5 DEF After
    <3>7. Side(x, op)' = after
      BY <3>1, <3>2, <3>6 DEF Side
    <3>8. QED
      BY <3>4, <3>7
  <2>3. CASE ~UuidVisible(x)
    <3>1. Drop(late) /\ members' = members /\ nodeSubspaces' = nodeSubspaces
      BY <1>7, <2>1, <2>3 DEF Write, writerVars
    <3>2. ~Sees(mine, side)
      BY <1>1, <2>3 DEF Sees, UuidVisible
    <3>3. after = side
      BY <1>7, <2>1, <3>2 DEF After
    <3>4. IsLatest(x, h)' /\ Side(x, h)' = after
      BY <3>1, <3>3, LatestStays DEF Side
    <3>5. QED
      BY <3>4
  <2>4. QED
    BY <2>2, <2>3
<1>8. QED
  BY <1>4, <1>5, <1>6, <1>7, OpKeys DEF Topics

-------------------------------------------------------------------------------
(* The line gets shorter.                                                  *)

LEMMA HeadOfLine ==
  ASSUME NEW s \in Seq(Ops), NEW t \in Seq(Ops), s # <<>>
  PROVE  Without(s \o t, 1, Tail(s) \o t) /\ (s \o t)[1] = Head(s) /\ Len(s \o t) \in Nat \ {0}
<1>1. /\ s \o t \in Seq(Ops) /\ Tail(s) \in Seq(Ops) /\ Len(s) \in Nat \ {0} /\ Len(Tail(s)) = Len(s) - 1
      /\ Len(s \o t) = Len(s) + Len(t) /\ Len(t) \in Nat /\ Head(s) = s[1]
      /\ \A i \in 1..(Len(s) - 1) : Tail(s)[i] = s[i + 1]
  OBVIOUS
<1>2. \A i \in 1..(Len(s) + Len(t)) : (s \o t)[i] = IF i <= Len(s) THEN s[i] ELSE t[i - Len(s)]
  BY <1>1
<1>3. /\ Tail(s) \o t \in Seq(Ops) /\ Len(Tail(s) \o t) = Len(s) - 1 + Len(t)
      /\ \A i \in 1..(Len(s) - 1 + Len(t)) :
           (Tail(s) \o t)[i] = IF i <= Len(s) - 1 THEN Tail(s)[i] ELSE t[i - (Len(s) - 1)]
  BY <1>1
<1>4. \A i \in 1..(Len(s) + Len(t) - 1) : (Tail(s) \o t)[i] = (s \o t)[i + 1]
  BY <1>1, <1>2, <1>3
<1>5. QED
  BY <1>1, <1>2, <1>3, <1>4 DEF Without

LEMMA BehindTheFlush ==
  ASSUME NEW s \in Seq(Ops), NEW t \in Seq(Ops), t # <<>>
  PROVE  /\ Without(s \o t, Len(s) + 1, s \o Tail(t))
         /\ (s \o t)[Len(s) + 1] = Head(t) /\ Len(s) + 1 \in 1..Len(s \o t)
         /\ \A i \in 1..Len(s) : (s \o t)[i] = s[i]
<1>1. /\ s \o t \in Seq(Ops) /\ Tail(t) \in Seq(Ops) /\ Len(t) \in Nat \ {0} /\ Len(Tail(t)) = Len(t) - 1
      /\ Len(s \o t) = Len(s) + Len(t) /\ Len(s) \in Nat /\ Head(t) = t[1]
      /\ \A i \in 1..(Len(t) - 1) : Tail(t)[i] = t[i + 1]
  OBVIOUS
<1>2. \A i \in 1..(Len(s) + Len(t)) : (s \o t)[i] = IF i <= Len(s) THEN s[i] ELSE t[i - Len(s)]
  BY <1>1
<1>3. /\ s \o Tail(t) \in Seq(Ops) /\ Len(s \o Tail(t)) = Len(s) + Len(t) - 1
      /\ \A i \in 1..(Len(s) + Len(t) - 1) :
           (s \o Tail(t))[i] = IF i <= Len(s) THEN s[i] ELSE Tail(t)[i - Len(s)]
  BY <1>1
<1>4. \A i \in 1..(Len(s) + Len(t) - 1) :
        (s \o Tail(t))[i] = IF i < Len(s) + 1 THEN (s \o t)[i] ELSE (s \o t)[i + 1]
  <2> TAKE i \in 1..(Len(s) + Len(t) - 1)
  <2>1. CASE i <= Len(s)
    BY <1>1, <1>2, <1>3, <2>1
  <2>2. CASE i > Len(s)
    <3>1. i - Len(s) \in 1..(Len(t) - 1) /\ (i + 1) - Len(s) = (i - Len(s)) + 1
      BY <1>1, <2>2
    <3>2. Tail(t)[i - Len(s)] = t[(i + 1) - Len(s)]
      BY <1>1, <3>1
    <3>3. QED
      BY <1>1, <1>2, <1>3, <2>2, <3>2
  <2>3. QED
    BY <1>1, <2>1, <2>2
<1>5. QED
  BY <1>1, <1>2, <1>3, <1>4 DEF Without

\* The writer takes an op with none about the same identity in front of it.
LEMMA LineWritten ==
  ASSUME ViewTypes, StagesInOrder, NEW x \in Identities, Arrives(x),
         NEW p \in 1..Len(Line), NEW op, op = Line[p], NEW rest, rest = Line', Without(Line, p, rest),
         About(op) # x \/ (\A m \in 1..(p - 1) : About(Line[m]) # x),
         NEW late, Write(op, late), x \notin excused',
         UNCHANGED <<mine, cache, sending, toDeliver, stage>>
  PROVE  Arrives(x)'
<1>1. PICK h \in Ops, a \in Sides, b \in Sides, c \in Sides, d \in Sides : Arriving(x, h, a, b, c, d)
  BY DEF Arrives
<1>2. PICK after : after = After(mine, x, Side(x, h), op)
  OBVIOUS
<1>3. Line \in Seq(Ops) /\ op \in Ops
  BY LineTypes
<1>4. Fits(x, Side(x, h), op) /\ Leads(mine, x, after, rest, a)
  BY <1>1, <1>2, <1>3, RunWithout DEF Arriving
<1>5. PICK g \in Ops : IsLatest(x, g)' /\ Side(x, g)' = after
  BY <1>1, <1>2, <1>3, <1>4, WriteSide DEF Arriving
<1>6. Leads(mine, x, Side(x, g), Line, a)'
  BY <1>4, <1>5
<1>7. /\ Takes(mine, x, a, Owed(x, "entity"), b)' /\ Takes(mine, x, b, Owed(x, "attributes"), c)'
      /\ Takes(mine, x, c, OnTheWay(x), d)' /\ UpToDate(x, d)'
  BY <1>1 DEF Arriving, Owed, OnTheWay, UpToDate
<1>8. Arriving(x, g, a, b, c, d)'
  BY <1>5, <1>6, <1>7 DEF Arriving
<1>9. QED
  BY <1>8 DEF Arrives

LEMMA DrainArrives ==
  ASSUME ViewTypes, StagesInOrder, NEW x \in Identities, Arrives(x), Drain, x \notin excused'
  PROVE  Arrives(x)'
<1>1. /\ Write(Head(draining), {}) /\ draining # <<>> /\ draining' = Tail(draining)
      /\ UNCHANGED <<mine, cache, sending, stage, stringChOut, pendingStrings, toDeliver>>
  BY DEF Drain, busVars
<1>2. pendingStrings = <<>>
  BY <1>1 DEF StagesInOrder
<1>3. /\ draining \in Seq(Ops) /\ stringChOut \in Seq(Ops) /\ Tail(draining) \in Seq(Ops)
      /\ draining \o <<>> = draining /\ Tail(draining) \o <<>> = Tail(draining)
  BY <1>1 DEF ViewTypes
<1>4. Line = draining \o stringChOut /\ Line' = Tail(draining) \o stringChOut
  BY <1>1, <1>2, <1>3 DEF Line
<1>5. /\ Without(Line, 1, Line') /\ Line[1] = Head(draining) /\ 1 \in 1..Len(Line)
      /\ \A m \in 1..(1 - 1) : About(Line[m]) # x
  BY <1>1, <1>3, <1>4, HeadOfLine
<1>6. QED
  BY <1>1, <1>5, LineWritten

\* Until a writer is attached ops move to the buffer, and its oldest may be cut.
LEMMA BufferArrives ==
  ASSUME ViewTypes, StagesInOrder, NEW x \in Identities, Arrives(x), SendString, stage = "registered",
         x \notin excused'
  PROVE  Arrives(x)'
<1>1. PICK more : more = Append(pendingStrings, Head(stringChOut))
  OBVIOUS
<1>2. /\ stringChOut # <<>> /\ stringChOut' = Tail(stringChOut)
      /\ pendingStrings' = Trimmed(more) /\ Cut(more) \subseteq excused'
      /\ UNCHANGED <<mine, cache, sending, stage, draining, toDeliver, members, nodeSubspaces, view, pending>>
      /\ draining = <<>>
  BY <1>1 DEF SendString, busVars, writerVars, sinkVars, StagesInOrder
<1>3. /\ pendingStrings \in Seq(Ops) /\ stringChOut \in Seq(Ops) /\ Tail(stringChOut) \in Seq(Ops)
      /\ Head(stringChOut) \in Ops /\ more \in Seq(Ops) /\ more # <<>>
      /\ more \o Tail(stringChOut) = pendingStrings \o stringChOut
  <2>1. pendingStrings \in Seq(Ops) /\ stringChOut \in Seq(Ops)
    BY DEF ViewTypes
  <2>2. Tail(stringChOut) \in Seq(Ops) /\ Head(stringChOut) \in Ops
    BY <1>2, <2>1
  <2>3. more \in Seq(Ops) /\ more # <<>>
    BY <1>1, <2>1, <2>2
  <2>4. more \o Tail(stringChOut) = pendingStrings \o stringChOut
    BY <1>1, <1>2, <2>1
  <2>5. QED
    BY <2>1, <2>2, <2>3, <2>4
<1>4. Trimmed(more) \in Seq(Ops)
  BY <1>1, <1>3, TrimmedTypes
<1>5. Line = more \o Tail(stringChOut) /\ Line' = Trimmed(more) \o Tail(stringChOut)
  <2>1. <<>> \o pendingStrings = pendingStrings /\ <<>> \o Trimmed(more) = Trimmed(more)
    BY <1>3, <1>4
  <2>2. QED
    BY <1>2, <1>3, <2>1 DEF Line
<1>6. CASE Trimmed(more) = more
  BY <1>2, <1>5, <1>6, StillArrives
<1>7. CASE Trimmed(more) # more
  <2>1. Trimmed(more) = Tail(more) /\ About(Head(more)) # x
    BY <1>2, <1>7 DEF Trimmed, Cut
  <2>2. PICK h \in Ops, a \in Sides, b \in Sides, c \in Sides, d \in Sides : Arriving(x, h, a, b, c, d)
    BY DEF Arrives
  <2>3. PICK rest : rest = Line'
    OBVIOUS
  <2>4. Without(Line, 1, rest) /\ Line[1] = Head(more) /\ 1 \in 1..Len(Line) /\ Line \in Seq(Ops)
    <3>1. PICK t : t = Tail(stringChOut) /\ t \in Seq(Ops)
      BY <1>3
    <3>2. /\ Without(more \o t, 1, Tail(more) \o t) /\ (more \o t)[1] = Head(more)
          /\ Len(more \o t) \in Nat \ {0}
      BY <1>3, <3>1, HeadOfLine
    <3>3. Line = more \o t /\ rest = Tail(more) \o t
      BY <1>5, <2>1, <2>3, <3>1
    <3>4. Line \in Seq(Ops)
      BY LineTypes
    <3>5. QED
      BY <3>2, <3>3, <3>4
  <2>5. Leads(mine, x, After(mine, x, Side(x, h), Line[1]), rest, a)
    BY <2>1, <2>2, <2>4, RunWithout DEF Arriving
  <2>6. After(mine, x, Side(x, h), Line[1]) = Side(x, h)
    BY <2>1, <2>4 DEF After
  <2>7. /\ IsLatest(x, h)' /\ Side(x, h)' = Side(x, h)
        /\ Takes(mine, x, a, Owed(x, "entity"), b)' /\ Takes(mine, x, b, Owed(x, "attributes"), c)'
        /\ Takes(mine, x, c, OnTheWay(x), d)' /\ UpToDate(x, d)'
    BY <1>2, <2>2 DEF Arriving, IsLatest, SentOn, Side, Owed, OnTheWay, UpToDate
  <2>8. Leads(mine, x, Side(x, h), Line, a)'
    BY <1>2, <2>3, <2>5, <2>6, <2>7
  <2>9. Arriving(x, h, a, b, c, d)'
    BY <2>7, <2>8 DEF Arriving
  <2>10. QED
    BY <2>9 DEF Arrives
<1>8. QED
  BY <1>6, <1>7

LEMMA SendStringArrives ==
  ASSUME ViewTypes, StagesInOrder, NEW x \in Identities, Arrives(x), SendString, x \notin excused'
  PROVE  Arrives(x)'
<1>1. CASE stage = "registered"
  BY <1>1, BufferArrives
<1>2. CASE stage # "registered"
  <2>1. PICK op, late, p : /\ op = Head(stringChOut) /\ p = Len(draining) + 1
                           /\ late = IF Mentions(ToSet(draining), About(op)) THEN {About(op)} ELSE {}
    OBVIOUS
  <2>2. /\ Write(op, late) /\ stringChOut # <<>> /\ stringChOut' = Tail(stringChOut)
        /\ pendingStrings = <<>>
        /\ UNCHANGED <<mine, cache, sending, stage, draining, pendingStrings, toDeliver>>
    BY <1>2, <2>1 DEF SendString, busVars, StagesInOrder
  <2>3. draining \in Seq(Ops) /\ stringChOut \in Seq(Ops) /\ draining \o <<>> = draining
    BY DEF ViewTypes
  <2>4. Line = draining \o stringChOut /\ Line' = draining \o Tail(stringChOut)
    BY <2>2, <2>3 DEF Line
  <2>5. /\ Without(Line, p, Line') /\ Line[p] = op /\ p \in 1..Len(Line)
        /\ \A i \in 1..Len(draining) : Line[i] = draining[i]
    BY <2>1, <2>2, <2>3, <2>4, BehindTheFlush
  <2>6. About(op) # x \/ \A m \in 1..(p - 1) : About(Line[m]) # x
    <3>1. CASE Mentions(ToSet(draining), About(op))
      <4>1. late \subseteq excused'
        BY <2>2 DEF Write, Forward, Drop
      <4>2. QED
        BY <2>1, <3>1, <4>1
    <3>2. CASE ~Mentions(ToSet(draining), About(op))
      <4>1. p - 1 = Len(draining) /\ \A i \in 1..Len(draining) : draining[i] \in ToSet(draining)
        BY <2>1, <2>3 DEF ToSet
      <4>2. QED
        BY <2>5, <3>2, <4>1 DEF Mentions
    <3>3. QED
      BY <3>1, <3>2
  <2>7. QED
    BY <2>2, <2>5, <2>6, LineWritten
<1>3. QED
  BY <1>1, <1>2

-------------------------------------------------------------------------------
(* The backfill.                                                           *)

LEMMA AfterHeld ==
  ASSUME NEW own, NEW x \in Identities, NEW side \in Sides, NEW op \in Ops, op.key = Carried(x)
  PROVE  After(own, x, side, op) =
           IF x = Me \/ Sees(own, side) THEN [record |-> side.record, held |-> op] ELSE side
<1>1. About(op) = x /\ (x # Me => op.key[1] = "attributes")
  BY DEF Carried, About
<1>2. After(own, x, side, op) = IF x = Me \/ Sees(own, side) THEN [side EXCEPT !.held = op] ELSE side
  BY <1>1 DEF After
<1>3. QED
  BY <1>2 DEF Sides

\* What is on the way is in the cache.
LEMMA OnTheWayIsCached ==
  ASSUME ViewTypes, NEW x \in Identities
  PROVE  \/ OnTheWay(x) = {}
         \/ OnTheWay(x) = {cache[EntityKey(x)]}
         \/ x # Me /\ OnTheWay(x) = {cache[AttributesKey(x)]}
<1>1. CASE OnTheWay(x) # {}
  <2>1. sending \in Ops /\ About(sending) = x /\ cache[sending.key] = sending /\ OnTheWay(x) = {sending}
    BY <1>1 DEF OnTheWay, ViewTypes
  <2>2. sending.key = EntityKey(x) \/ (x # Me /\ sending.key = AttributesKey(x))
    BY <2>1, OpKeys DEF Topics, Carried, EntityKey, AttributesKey
  <2>3. QED
    BY <2>1, <2>2
<1>2. QED
  BY <1>1

\* The backfill owes what is cached and no tombstone.
LEMMA OwedAfterRead ==
  ASSUME ViewTypes, NEW x \in Identities, BackfillRead, NEW topic, topic \in Topics,
         NEW k, k = <<topic, x>>
  PROVE  Owed(x, topic)' = IF k \in Keys /\ ~cache[k].tomb THEN {cache[k]} ELSE {}
<1>1. toDeliver' = {cache[j] : j \in {i \in Keys : ~cache[i].tomb}}
  BY DEF BackfillRead
<1>2. \A j \in Keys : cache[j].key = j
  BY DEF ViewTypes
<1>3. QED
  BY <1>1, <1>2 DEF Owed

\* What the client has before the backfill is no newer than the cache.
LEMMA BeforeTheBackfill ==
  ASSUME ViewTypes, NEW x \in Identities, NEW a \in Sides, NEW d \in Sides, Sound(mine, x, a),
         Takes(mine, x, a, OnTheWay(x), d), UpToDate(x, d)
  PROVE  /\ Newer(a.held, cache[Carried(x)])
         /\ x # Me /\ ~cache[EntityKey(x)].tomb => a.record \subseteq {cache[EntityKey(x)].subs}
<1> DEFINE marker == cache[EntityKey(x)]
           cached == cache[Carried(x)]
<1>1. /\ EntityKey(x) \in Keys /\ Carried(x) \in Keys
      /\ marker \in Ops /\ cached \in Ops /\ marker.key = EntityKey(x) /\ cached.key = Carried(x)
      /\ x # Me => x \in Sources /\ Carried(x) = AttributesKey(x)
      /\ x = Me => Carried(x) = EntityKey(x)
  BY KeysOf DEF ViewTypes, Identities
<1>2. CASE OnTheWay(x) = {}
  BY <1>2 DEF Takes, UpToDate
<1>3. CASE OnTheWay(x) = {cached}
  <2>1. Fits(x, a, cached) /\ d = After(mine, x, a, cached) /\ About(cached) = x
    BY <1>1, <1>3 DEF Takes, Carried, About
  <2>2. Newer(a.held, cached)
    BY <1>1, <2>1 DEF Fits
  <2>3. d.record = a.record
    BY <1>1, <2>1, AfterHeld
  <2>4. QED
    BY <2>2, <2>3 DEF UpToDate
<1>4. CASE x # Me /\ OnTheWay(x) = {marker}
  <2>1. Fits(x, a, marker) /\ d = After(mine, x, a, marker) /\ About(marker) = x
    BY <1>1, <1>4 DEF Takes, EntityKey, About
  <2>2. d.held = a.held
    <3>1. marker.key[1] = "entity"
      BY <1>1 DEF EntityKey
    <3>2. d = [a EXCEPT !.record = IF marker.tomb THEN {} ELSE {marker.subs}]
      BY <1>4, <2>1, <3>1 DEF After
    <3>3. QED
      BY <3>2 DEF Sides
  <2>3. Newer(a.held, cached)
    BY <2>2 DEF UpToDate
  <2>4. ~marker.tomb => a.record \subseteq {marker.subs}
    BY <1>4, <2>1 DEF Fits
  <2>5. QED
    BY <2>3, <2>4
<1>5. QED
  BY <1>1, <1>2, <1>3, <1>4, OnTheWayIsCached

\* The client's own policy, taken from the backfill and perhaps again from the
\* broadcast behind it.
LEMMA OwnAfterRead ==
  ASSUME ViewTypes, NEW a \in Sides, NEW d \in Sides, Sound(mine, Me, a),
         Takes(mine, Me, a, OnTheWay(Me), d), UpToDate(Me, d),
         NEW cached, cached = cache[EntityKey(Me)]
  PROVE  \E b \in Sides, e \in Sides :
           /\ Takes(mine, Me, a, IF cached.tomb THEN {} ELSE {cached}, b)
           /\ Takes(mine, Me, b, OnTheWay(Me), e)
           /\ Newer(e.held, cached) /\ (cached.tomb => e.held.tomb) /\ (~cached.tomb => e.held = cached)
<1>1. /\ Me \in Identities /\ Carried(Me) = EntityKey(Me)
      /\ cached \in Ops /\ cached.key = Carried(Me) /\ About(cached) = Me
  BY KeysOf DEF ViewTypes, Identities, EntityKey, About
<1>2. Newer(a.held, cached) /\ Newer(cached, cached)
  BY <1>1, BeforeTheBackfill, OpKeys DEF Newer
<1>3. OnTheWay(Me) = {} \/ OnTheWay(Me) = {cached}
  BY <1>1, OnTheWayIsCached
<1>4. CASE cached.tomb
  <2>1. Takes(mine, Me, a, {}, a)
    BY DEF Takes
  <2>2. Newer(d.held, cached) /\ d.held.tomb
    BY <1>1, <1>4 DEF UpToDate
  <2>3. QED
    BY <1>4, <2>1, <2>2
<1>5. CASE ~cached.tomb
  <2>1. PICK b : b = After(mine, Me, a, cached)
    OBVIOUS
  <2>2. b = [record |-> a.record, held |-> cached]
    BY <1>1, <2>1, AfterHeld
  <2>3. b \in Sides /\ b.held = cached
    BY <1>1, <2>2 DEF Sides
  <2>4. Fits(Me, a, cached) /\ Fits(Me, b, cached)
    BY <1>1, <1>2, <2>3 DEF Fits
  <2>5. After(mine, Me, b, cached) = b
    <3>1. After(mine, Me, b, cached) = [record |-> b.record, held |-> cached]
      BY <1>1, <2>3, AfterHeld
    <3>2. QED
      BY <2>2, <3>1
  <2>6. Takes(mine, Me, a, {cached}, b)
    BY <2>1, <2>4 DEF Takes
  <2>7. Takes(mine, Me, b, OnTheWay(Me), b)
    BY <1>3, <2>4, <2>5 DEF Takes
  <2>8. QED
    BY <1>2, <1>5, <2>3, <2>6, <2>7
<1>6. QED
  BY <1>4, <1>5

\* A record from the backfill, and behind it the attributes, and perhaps one of
\* the two again from the broadcast.
Reread(x, marker, cached, a, b, c, e) ==
  /\ Takes(mine, x, a, {marker}, b)
  /\ Takes(mine, x, b, IF cached.tomb THEN {} ELSE {cached}, c)
  /\ Takes(mine, x, c, OnTheWay(x), e)
  /\ Newer(e.held, cached) /\ (cached.tomb => e.held.tomb) /\ e.record = {marker.subs}
  /\ ~cached.tomb /\ Overlap(mine, cached.subs) => e.held = cached

LEMMA SourceAfterRead ==
  ASSUME ViewTypes, SessionsInOrder, NEW x \in Sources, NEW a \in Sides, NEW d \in Sides, Sound(mine, x, a),
         Takes(mine, x, a, OnTheWay(x), d), UpToDate(x, d),
         NEW marker, marker = cache[EntityKey(x)], ~marker.tomb,
         NEW cached, cached = cache[AttributesKey(x)]
  PROVE  \E b \in Sides, c \in Sides, e \in Sides : Reread(x, marker, cached, a, b, c, e)
<1>1. /\ x \in Identities /\ x # Me /\ Carried(x) = AttributesKey(x) /\ AttributesKey(x) # EntityKey(x)
      /\ EntityKey(x) \in Keys /\ AttributesKey(x) \in Keys
  BY KeysOf, KeysDiffer DEF Identities
<1>2. /\ marker \in Ops /\ marker.key = EntityKey(x) /\ About(marker) = x /\ marker.key[1] = "entity"
      /\ cached \in Ops /\ cached.key = Carried(x) /\ About(cached) = x /\ cached.key[1] = "attributes"
  <2>1. marker \in Ops /\ marker.key = EntityKey(x) /\ cached \in Ops /\ cached.key = AttributesKey(x)
    BY <1>1 DEF ViewTypes
  <2>2. About(marker) = x /\ marker.key[1] = "entity"
    BY <2>1 DEF EntityKey, About
  <2>3. About(cached) = x /\ cached.key[1] = "attributes"
    BY <2>1 DEF AttributesKey, About
  <2>4. QED
    BY <1>1, <2>1, <2>2, <2>3
<1>3. ~cached.tomb => cached.subs = marker.subs
  BY DEF SessionsInOrder
<1>4. Newer(a.held, cached) /\ Newer(cached, cached) /\ a.record \subseteq {marker.subs}
  BY <1>1, <1>2, BeforeTheBackfill, OpKeys DEF Newer
<1>5. PICK b : b = After(mine, x, a, marker)
  OBVIOUS
<1>6. b = [a EXCEPT !.record = {marker.subs}]
  BY <1>1, <1>2, <1>5 DEF After
<1>7. b.record = {marker.subs} /\ b.held = a.held
  BY <1>6 DEF Sides
<1>8. Fits(x, a, marker)
  BY <1>1, <1>2, <1>4 DEF Fits
<1>9. b \in Sides /\ Sound(mine, x, b) /\ Takes(mine, x, a, {marker}, b)
  BY <1>1, <1>2, <1>5, <1>8, SideAfter DEF Takes
<1>10. ASSUME NEW side \in Sides, Sound(mine, x, side), side.record = {marker.subs},
              Newer(side.held, cached)
       PROVE  /\ Fits(x, side, marker) /\ After(mine, x, side, marker) = side
              /\ Fits(x, side, cached)
              /\ After(mine, x, side, cached) \in Sides /\ Sound(mine, x, After(mine, x, side, cached))
              /\ After(mine, x, side, cached).record = {marker.subs}
              /\ Newer(After(mine, x, side, cached).held, cached)
              /\ IF Overlap(mine, marker.subs) THEN After(mine, x, side, cached).held = cached
                 ELSE After(mine, x, side, cached) = side /\ side.held.tomb
  <2>1. Fits(x, side, marker) /\ Fits(x, side, cached)
    BY <1>1, <1>2, <1>3, <1>10 DEF Fits
  <2>2. After(mine, x, side, marker) = side
    <3>1. After(mine, x, side, marker) = [side EXCEPT !.record = {marker.subs}]
      BY <1>1, <1>2 DEF After
    <3>2. QED
      BY <1>10, <3>1 DEF Sides
  <2>3. After(mine, x, side, cached) \in Sides /\ Sound(mine, x, After(mine, x, side, cached))
    BY <1>1, <1>2, <1>10, <2>1, SideAfter
  <2>4. Sees(mine, side) <=> Overlap(mine, marker.subs)
    BY <1>10 DEF Sees
  <2>5. After(mine, x, side, cached) = IF Sees(mine, side) THEN [record |-> side.record, held |-> cached] ELSE side
    BY <1>1, <1>2, AfterHeld
  <2>6. CASE Overlap(mine, marker.subs)
    <3>1. After(mine, x, side, cached) = [record |-> side.record, held |-> cached]
      BY <2>4, <2>5, <2>6
    <3>2. After(mine, x, side, cached).record = side.record /\ After(mine, x, side, cached).held = cached
      BY <3>1
    <3>3. QED
      BY <1>4, <1>10, <2>1, <2>2, <2>3, <2>6, <3>2
  <2>7. CASE ~Overlap(mine, marker.subs)
    <3>1. After(mine, x, side, cached) = side
      BY <2>4, <2>5, <2>7
    <3>2. side.held.tomb
      <4>1. ~side.held.tomb => side.record = {side.held.subs} /\ Overlap(mine, side.held.subs)
        BY <1>1, <1>10 DEF Sound
      <4>2. QED
        BY <1>10, <2>7, <4>1
    <3>3. QED
      BY <1>10, <2>1, <2>2, <2>3, <2>7, <3>1, <3>2
  <2>8. QED
    BY <2>6, <2>7
<1>11. PICK c : c = IF cached.tomb THEN b ELSE After(mine, x, b, cached)
  OBVIOUS
<1>12. Newer(b.held, cached)
  BY <1>4, <1>7
<1>13. /\ c \in Sides /\ Sound(mine, x, c) /\ c.record = {marker.subs} /\ Newer(c.held, cached)
       /\ Takes(mine, x, b, IF cached.tomb THEN {} ELSE {cached}, c)
       /\ ~cached.tomb /\ Overlap(mine, cached.subs) => c.held = cached
  <2>1. CASE cached.tomb
    BY <1>7, <1>9, <1>11, <1>12, <2>1 DEF Takes
  <2>2. CASE ~cached.tomb
    <3>1. /\ Fits(x, b, cached) /\ c = After(mine, x, b, cached) /\ c \in Sides /\ Sound(mine, x, c)
          /\ c.record = {marker.subs} /\ Newer(c.held, cached)
          /\ Overlap(mine, marker.subs) => c.held = cached
      BY <1>7, <1>9, <1>10, <1>11, <1>12, <2>2
    <3>2. QED
      BY <1>3, <2>2, <3>1 DEF Takes
  <2>3. QED
    BY <2>1, <2>2
<1>14. CASE OnTheWay(x) = {} \/ OnTheWay(x) = {marker}
  <2>1. Takes(mine, x, c, OnTheWay(x), c)
    BY <1>10, <1>13, <1>14 DEF Takes
  <2>2. cached.tomb => c.held.tomb
    <3>1. d.held = a.held
      <4>1. CASE OnTheWay(x) = {}
        BY <4>1 DEF Takes
      <4>2. CASE OnTheWay(x) = {marker}
        <5>1. d = After(mine, x, a, marker)
          BY <4>2 DEF Takes
        <5>2. QED
          BY <1>5, <1>7, <5>1
      <4>3. QED
        BY <1>14, <4>1, <4>2
    <3>2. cached.tomb => d.held.tomb
      BY <1>1 DEF UpToDate
    <3>3. QED
      BY <1>7, <1>11, <3>1, <3>2
  <2>3. QED
    BY <1>9, <1>13, <2>1, <2>2 DEF Reread
<1>15. CASE OnTheWay(x) = {cached}
  <2>1. PICK e : e = After(mine, x, c, cached)
    OBVIOUS
  <2>2. /\ Fits(x, c, cached) /\ e \in Sides /\ e.record = {marker.subs} /\ Newer(e.held, cached)
        /\ IF Overlap(mine, marker.subs) THEN e.held = cached ELSE e = c /\ c.held.tomb
    BY <1>10, <1>13, <2>1
  <2>3. Takes(mine, x, c, OnTheWay(x), e)
    BY <1>15, <2>1, <2>2 DEF Takes
  <2>4. (cached.tomb => e.held.tomb) /\ (~cached.tomb /\ Overlap(mine, cached.subs) => e.held = cached)
    BY <1>3, <2>2
  <2>5. QED
    BY <1>9, <1>13, <2>2, <2>3, <2>4 DEF Reread
<1>16. QED
  BY <1>1, <1>14, <1>15, OnTheWayIsCached

LEMMA ReadArrives ==
  ASSUME ViewTypes, StagesInOrder, SessionsInOrder, NEW x \in Identities, Arrives(x), BackfillRead
  PROVE  Arrives(x)'
<1>1. PICK h \in Ops, a \in Sides, b \in Sides, c \in Sides, d \in Sides : Arriving(x, h, a, b, c, d)
  BY DEF Arrives
<1>2. /\ stage = "waiting" /\ stage' = "read" /\ toDeliver = {}
      /\ UNCHANGED <<mine, cache, sending, stringChOut, pendingStrings, draining,
                     members, nodeSubspaces, view, pending>>
  BY DEF BackfillRead, busVars, writerVars, sinkVars, StagesInOrder
<1>3. /\ IsLatest(x, h)' /\ Leads(mine, x, Side(x, h), Line, a)' /\ OnTheWay(x)' = OnTheWay(x)
  BY <1>1, <1>2 DEF Arriving, IsLatest, SentOn, Side, Line, OnTheWay
<1>4. Sound(mine, x, a) /\ Takes(mine, x, a, OnTheWay(x), d) /\ UpToDate(x, d)
  <2>1. b = a /\ c = a
    BY <1>1, <1>2 DEF Arriving, Takes, Owed
  <2>2. QED
    BY <1>1, <2>1, SoundOnTheWay DEF Arriving
<1>5. PICK marker, cached : marker = cache[EntityKey(x)] /\ cached = cache[AttributesKey(x)]
  OBVIOUS
<1>6. /\ Owed(x, "entity")' = IF ~marker.tomb THEN {marker} ELSE {}
      /\ Owed(x, "attributes")' = IF x # Me /\ ~cached.tomb THEN {cached} ELSE {}
  <2>1. EntityKey(x) \in Keys /\ (AttributesKey(x) \in Keys <=> x # Me)
    BY KeysOf DEF Identities, Keys, Topics, EntityKey, AttributesKey
  <2>2. "entity" \in Topics /\ "attributes" \in Topics
    BY DEF Topics
  <2>3. Owed(x, "entity")' = IF EntityKey(x) \in Keys /\ ~cache[EntityKey(x)].tomb THEN {cache[EntityKey(x)]} ELSE {}
    BY <2>2, OwedAfterRead DEF EntityKey
  <2>4. Owed(x, "attributes")' =
          IF AttributesKey(x) \in Keys /\ ~cache[AttributesKey(x)].tomb THEN {cache[AttributesKey(x)]} ELSE {}
    BY <2>2, OwedAfterRead DEF AttributesKey
  <2>5. QED
    BY <1>5, <2>1, <2>3, <2>4
<1>7. CASE x = Me
  <2>1. PICK f \in Sides, e \in Sides :
          /\ Takes(mine, Me, a, IF marker.tomb THEN {} ELSE {marker}, f)
          /\ Takes(mine, Me, f, OnTheWay(Me), e)
          /\ Newer(e.held, marker) /\ (marker.tomb => e.held.tomb) /\ (~marker.tomb => e.held = marker)
    BY <1>4, <1>5, <1>7, OwnAfterRead
  <2>2. Takes(mine, x, a, Owed(x, "entity"), f)'
    BY <1>2, <1>6, <1>7, <2>1
  <2>3. Takes(mine, x, f, Owed(x, "attributes"), f)'
    BY <1>6, <1>7 DEF Takes
  <2>4. Takes(mine, x, f, OnTheWay(x), e)'
    BY <1>2, <1>3, <1>7, <2>1
  <2>5. UpToDate(x, e)'
    <3>1. Carried(x) = EntityKey(x)
      BY <1>7, KeysOf
    <3>2. cache' = cache
      BY <1>2
    <3>3. QED
      BY <1>5, <1>7, <2>1, <3>1, <3>2 DEF UpToDate
  <2>6. Arriving(x, h, a, f, f, e)'
    BY <1>3, <2>2, <2>3, <2>4, <2>5 DEF Arriving
  <2>7. QED
    BY <2>6 DEF Arrives
<1>8. CASE x # Me /\ marker.tomb
  <2>1. x \in Sources /\ Carried(x) = AttributesKey(x)
    BY <1>8, KeysOf DEF Identities
  <2>2. cached.tomb
    BY <1>5, <1>8, <2>1 DEF SessionsInOrder
  <2>3. Takes(mine, x, a, Owed(x, "entity"), a)' /\ Takes(mine, x, a, Owed(x, "attributes"), a)'
    BY <1>6, <1>8, <2>2 DEF Takes
  <2>4. Takes(mine, x, a, OnTheWay(x), d)'
    BY <1>2, <1>3, <1>4
  <2>5. UpToDate(x, d)'
    BY <1>2, <1>4, <1>5, <1>8, <2>1, <2>2 DEF UpToDate
  <2>6. Arriving(x, h, a, a, a, d)'
    BY <1>3, <2>3, <2>4, <2>5 DEF Arriving
  <2>7. QED
    BY <2>6 DEF Arrives
<1>9. CASE x # Me /\ ~marker.tomb
  <2>1. x \in Sources /\ Carried(x) = AttributesKey(x)
    BY <1>9, KeysOf DEF Identities
  <2>2. PICK f \in Sides, g \in Sides, e \in Sides : Reread(x, marker, cached, a, f, g, e)
    <3>1. /\ x \in Sources /\ Sound(mine, x, a) /\ Takes(mine, x, a, OnTheWay(x), d) /\ UpToDate(x, d)
          /\ marker = cache[EntityKey(x)] /\ ~marker.tomb /\ cached = cache[AttributesKey(x)]
      BY <1>4, <1>5, <1>9, <2>1
    <3>2. QED
      BY <3>1, SourceAfterRead
  <2>3. Takes(mine, x, a, Owed(x, "entity"), f)'
    BY <1>2, <1>6, <1>9, <2>2 DEF Reread
  <2>4. Takes(mine, x, f, Owed(x, "attributes"), g)'
    BY <1>2, <1>6, <1>9, <2>2 DEF Reread
  <2>5. Takes(mine, x, g, OnTheWay(x), e)'
    BY <1>2, <1>3, <2>2 DEF Reread
  <2>6. UpToDate(x, e)'
    BY <1>2, <1>5, <1>9, <2>1, <2>2 DEF UpToDate, Reread
  <2>7. Arriving(x, h, a, f, g, e)'
    BY <1>3, <2>3, <2>4, <2>5, <2>6 DEF Arriving
  <2>8. QED
    BY <2>7 DEF Arrives
<1>10. QED
  BY <1>7, <1>8, <1>9

\* A backfill op joins the line: the record before the attributes.
LEMMA DeliverArrives ==
  ASSUME ViewTypes, StagesInOrder, NEW x \in Identities, Arrives(x), BackfillDeliver
  PROVE  Arrives(x)'
<1>1. PICK h \in Ops, a \in Sides, b \in Sides, c \in Sides, d \in Sides : Arriving(x, h, a, b, c, d)
  BY DEF Arrives
<1>2. PICK op \in Bucket :
        /\ stringChOut' = Append(stringChOut, op)
        /\ toDeliver' = toDeliver \ {op}
        /\ UNCHANGED <<mine, cache, sending, stage, pendingStrings, draining,
                       members, nodeSubspaces, view, pending>>
  BY DEF BackfillDeliver, busVars, writerVars, sinkVars
<1>3. op \in toDeliver /\ op \in Ops /\ \A o \in toDeliver : o.key = op.key => o = op
  BY DEF Bucket, ViewTypes, StagesInOrder
<1>4. Line \in Seq(Ops) /\ Line' = Append(Line, op)
  BY <1>2, <1>3, LineAppend, LineTypes
<1>5. /\ IsLatest(x, h)' /\ Side(x, h)' = Side(x, h) /\ UpToDate(x, d)'
      /\ Takes(mine, x, c, OnTheWay(x), d)'
  BY <1>1, <1>2 DEF Arriving, IsLatest, SentOn, Side, OnTheWay, UpToDate
<1>6. CASE op.key = <<"entity", x>>
  <2>1. Owed(x, "entity") = {op} /\ Owed(x, "entity")' = {} /\ Owed(x, "attributes")' = Owed(x, "attributes")
    BY <1>2, <1>3, <1>6 DEF Owed
  <2>2. Fits(x, a, op) /\ b = After(mine, x, a, op)
    BY <1>1, <2>1 DEF Arriving, Takes
  <2>3. Leads(mine, x, Side(x, h), Line, b)'
    BY <1>1, <1>2, <1>3, <1>4, <1>5, <2>2, RunGoesOn DEF Arriving
  <2>4. Takes(mine, x, b, Owed(x, "entity"), b)' /\ Takes(mine, x, b, Owed(x, "attributes"), c)'
    BY <1>1, <1>2, <2>1 DEF Arriving, Takes
  <2>5. Arriving(x, h, b, b, c, d)'
    BY <1>5, <2>3, <2>4 DEF Arriving
  <2>6. QED
    BY <2>5 DEF Arrives
<1>7. CASE op.key = <<"attributes", x>>
  <2>1. Owed(x, "entity") = {}
    BY <1>3, <1>7 DEF Bucket, Owed
  <2>2. Owed(x, "attributes") = {op} /\ Owed(x, "attributes")' = {} /\ Owed(x, "entity")' = {}
    BY <1>2, <1>3, <1>7, <2>1 DEF Owed
  <2>3. b = a /\ Fits(x, a, op) /\ c = After(mine, x, a, op)
    BY <1>1, <2>1, <2>2 DEF Arriving, Takes
  <2>4. Leads(mine, x, Side(x, h), Line, c)'
    BY <1>1, <1>2, <1>3, <1>4, <1>5, <2>3, RunGoesOn DEF Arriving
  <2>5. Takes(mine, x, c, Owed(x, "entity"), c)' /\ Takes(mine, x, c, Owed(x, "attributes"), c)'
    BY <2>2 DEF Takes
  <2>6. Arriving(x, h, c, c, c, d)'
    BY <1>5, <2>4, <2>5 DEF Arriving
  <2>7. QED
    BY <2>6 DEF Arrives
<1>8. CASE About(op) # x
  <2>1. /\ Owed(x, "entity")' = Owed(x, "entity") /\ Owed(x, "attributes")' = Owed(x, "attributes")
    BY <1>2, <1>8 DEF Owed, About
  <2>2. Leads(mine, x, Side(x, h), Line, a)'
    BY <1>1, <1>2, <1>3, <1>4, <1>5, <1>8, OtherAtEnd DEF Arriving
  <2>3. Takes(mine, x, a, Owed(x, "entity"), b)' /\ Takes(mine, x, b, Owed(x, "attributes"), c)'
    BY <1>1, <1>2, <2>1 DEF Arriving
  <2>4. Arriving(x, h, a, b, c, d)'
    BY <1>5, <2>2, <2>3 DEF Arriving
  <2>5. QED
    BY <2>4 DEF Arrives
<1>9. QED
  BY <1>3, <1>6, <1>7, <1>8, OpKeys DEF Topics, Carried

\* The client takes from a buffer the latest of each key.
LEMMA OpenArrives ==
  ASSUME ViewTypes, StagesInOrder, NEW x \in Identities, Arrives(x), NEW t \in Topics, Open(t)
  PROVE  Arrives(x)'
<1>1. PICK h \in Ops, a \in Sides, b \in Sides, c \in Sides, d \in Sides : Arriving(x, h, a, b, c, d)
  BY DEF Arrives
<1>2. /\ view' = [k \in Keys |-> Latest(k, {view[k]} \cup ToSet(pending[t]))]
      /\ pending' = [pending EXCEPT ![t] = <<>>]
      /\ UNCHANGED <<mine, cache, sending, stage, stringChOut, pendingStrings, draining,
                     toDeliver, members, nodeSubspaces>>
  BY DEF Open, busVars, clientVars, writerVars
<1> DEFINE k == Carried(x)
           own == {op \in {view[k]} \cup ToSet(pending[t]) : op.key = k}
<1>3. k \in Keys /\ k[1] \in Topics
  BY KeysOf
<1>4. /\ view'[k] = Latest(k, {view[k]} \cup ToSet(pending[t])) /\ view[k].key = k
      /\ \A op \in ToSet(pending[t]) : op.key[1] = t
  BY <1>1, <1>2, <1>3 DEF ViewTypes, Arriving, IsLatest, SentOn
<1>5. view'[k] = CHOOSE op \in own : \A o \in own : o.id <= op.id
  BY <1>4 DEF Latest
<1>6. /\ h \in SentOn(x)
      /\ \A op \in SentOn(x) : /\ op \in Ops /\ op.key = k /\ Newer(op, h)
                               /\ x # Me /\ ~op.tomb => Overlap(mine, op.subs)
  BY <1>1 DEF Arriving, IsLatest
<1>7. CASE t = k[1]
  <2>1. own = SentOn(x)
    BY <1>4, <1>7 DEF SentOn
  <2>2. \E op \in own : \A o \in own : o.id <= op.id
    BY <1>6, <2>1 DEF Newer
  <2>3. view'[k] \in own /\ h.id <= view'[k].id
    BY <1>5, <1>6, <2>1, <2>2
  <2>4. view'[k] = h
    <3>1. view'[k].id \in Nat /\ h.id \in Nat /\ Newer(view'[k], h)
      BY <1>6, <2>1, <2>3 DEF Ops
    <3>2. QED
      BY <2>3, <3>1 DEF Newer
  <2>5. pending'[k[1]] = <<>> /\ ToSet(<<>>) = {}
    BY <1>2, <1>3, <1>7 DEF ViewTypes, ToSet
  <2>6. SentOn(x)' = {h}
    BY <2>4, <2>5 DEF SentOn
  <2>7. QED
    <3>1. IsLatest(x, h)'
      BY <1>2, <1>6, <2>6 DEF IsLatest
    <3>2. Arriving(x, h, a, b, c, d)'
      BY <1>1, <1>2, <3>1 DEF Arriving, Side, Line, Owed, OnTheWay, UpToDate
    <3>3. QED
      BY <3>2 DEF Arrives
<1>8. CASE t # k[1]
  <2>1. own = {view[k]}
    BY <1>4, <1>8
  <2>2. view[k].id \in Nat
    BY <1>6 DEF SentOn, Ops
  <2>3. view'[k] = view[k]
    BY <1>5, <2>1, <2>2
  <2>4. pending'[k[1]] = pending[k[1]]
    BY <1>2, <1>3, <1>8 DEF ViewTypes
  <2>5. IsLatest(x, h)'
    BY <1>2, <1>6, <2>3, <2>4 DEF IsLatest, SentOn
  <2>6. Arriving(x, h, a, b, c, d)'
    BY <1>1, <1>2, <2>5 DEF Arriving, Side, Line, Owed, OnTheWay, UpToDate
  <2>7. QED
    BY <2>6 DEF Arrives
<1>9. QED
  BY <1>7, <1>8

-------------------------------------------------------------------------------
(* The inductive invariant, and what it says when all has arrived.         *)

ViewInvariant ==
  /\ ViewTypes /\ StagesInOrder /\ SessionsInOrder
  /\ \A x \in Identities \ excused : Arrives(x)

\* Excuses are never withdrawn.
LEMMA ExcusesStay ==
  ASSUME ViewTypes, StagesInOrder, SessionsInOrder, [Next]_vars
  PROVE  excused \subseteq excused'
<1>1. CASE Published \/ Silent
  BY <1>1 DEF Published, Silent, Put
<1>2. CASE SendString
  <2>1. CASE stage = "registered"
    BY <1>2, <2>1 DEF SendString
  <2>2. CASE stage # "registered"
    <3>1. PICK op, late : op = Head(stringChOut) /\ Write(op, late) /\ stringChOut # <<>>
      BY <1>2, <2>2 DEF SendString
    <3>2. op \in Ops
      BY <3>1, HeadTail DEF ViewTypes
    <3>3. QED
      BY <3>1, <3>2, WriteTypes DEF StagesInOrder
  <2>3. QED
    BY <2>1, <2>2
<1>3. CASE Drain
  <2>1. Head(draining) \in Ops /\ Write(Head(draining), {})
    BY <1>3, HeadTail DEF Drain, ViewTypes
  <2>2. QED
    BY <2>1, WriteTypes DEF StagesInOrder
<1>4. CASE \/ Broadcast \/ Register \/ SetReceiveSender \/ BackfillBouncer \/ BackfillRead
           \/ BackfillDeliver \/ \E t \in Topics : Open(t)
  BY <1>4 DEF Broadcast, Register, SetReceiveSender, BackfillBouncer, BackfillRead, BackfillDeliver, Open
<1>5. QED
  BY <1>1, <1>2, <1>3, <1>4, NextSessions DEF ClientStep

LEMMA InitArrives ==
  ASSUME Init, ViewTypes, NEW x \in Identities
  PROVE  Arrives(x)
<1> DEFINE k == Carried(x)
           h == Absent(k)
           none == [record |-> {}, held |-> h]
<1>1. k \in Keys /\ EntityKey(x) \in Keys /\ k[1] \in Topics /\ h \in Ops /\ h.key = k /\ h.tomb /\ h.id = 0
  BY KeysOf, AbsentOp
<1>2. none \in Sides /\ Sound(mine, x, none)
  BY <1>1 DEF Sides, Sound
<1>3. /\ members = {} /\ view[k] = h /\ cache[k] = h /\ cache[EntityKey(x)].tomb /\ pending[k[1]] = <<>>
      /\ toDeliver = {} /\ sending = None /\ stage = "none"
      /\ draining = <<>> /\ pendingStrings = <<>> /\ stringChOut = <<>>
  BY <1>1, AbsentOp DEF Init
<1>4. Line = <<>> /\ OnTheWay(x) = {} /\ Owed(x, "entity") = {} /\ Owed(x, "attributes") = {}
  BY <1>3 DEF Line, OnTheWay, Owed
<1>5. IsLatest(x, h)
  <2>1. SentOn(x) = {h}
    BY <1>3 DEF SentOn, ToSet
  <2>2. QED
    BY <1>1, <2>1 DEF IsLatest, Newer
<1>6. Side(x, h) = none
  BY <1>3 DEF Side
<1>7. Leads(mine, x, Side(x, h), Line, none)
  BY <1>2, <1>4, <1>6, EmptyRun
<1>8. UpToDate(x, none)
  BY <1>1, <1>3 DEF UpToDate, Newer
<1>9. Arriving(x, h, none, none, none, none)
  BY <1>4, <1>5, <1>7, <1>8 DEF Arriving, Takes
<1>10. QED
  BY <1>1, <1>2, <1>9 DEF Arrives

LEMMA NextArrives ==
  ASSUME ViewTypes, StagesInOrder, SessionsInOrder, [Next]_vars,
         NEW x \in Identities, Arrives(x), x \notin excused'
  PROVE  Arrives(x)'
<1>1. CASE Published
  BY <1>1, PublishedArrives
<1>2. CASE Silent \/ Register \/ SetReceiveSender \/ BackfillBouncer
  BY <1>2, SilentArrives
<1>3. CASE Broadcast
  BY <1>3, BroadcastArrives
<1>4. CASE SendString
  BY <1>4, SendStringArrives
<1>5. CASE Drain
  BY <1>5, DrainArrives
<1>6. CASE BackfillRead
  BY <1>6, ReadArrives
<1>7. CASE BackfillDeliver
  BY <1>7, DeliverArrives
<1>8. ASSUME NEW t \in Topics, Open(t) PROVE Arrives(x)'
  BY <1>8, OpenArrives
<1>9. QED
  BY <1>1, <1>2, <1>3, <1>4, <1>5, <1>6, <1>7, <1>8, NextSessions DEF ClientStep

\* Of whoever is not excused the ops on their way lead to what is cached, at
\* every moment of every interleaving of the sources, the dispatcher, the
\* bouncer, the flush, the backfill and the opening of the channels.
THEOREM Arrival == Spec => []ViewInvariant
<1>1. Init => ViewInvariant
  BY InitTypes, InitArrives DEF ViewInvariant
<1>2. ViewInvariant /\ [Next]_vars => ViewInvariant'
  <2> SUFFICES ASSUME ViewInvariant, [Next]_vars PROVE ViewInvariant'
    OBVIOUS
  <2>1. ViewTypes /\ StagesInOrder /\ SessionsInOrder /\ \A x \in Identities \ excused : Arrives(x)
    BY DEF ViewInvariant
  <2>2. ViewTypes' /\ StagesInOrder' /\ SessionsInOrder'
    BY <2>1, NextTypes
  <2>3. ASSUME NEW x \in Identities, x \notin excused' PROVE Arrives(x)'
    BY <2>1, <2>3, ExcusesStay, NextArrives
  <2>4. QED
    BY <2>2, <2>3 DEF ViewInvariant, Identities
<1>3. QED
  BY <1>1, <1>2, PTL DEF Spec

\* When all is quiet the client's side is the end of the way.
LEMMA QuietSide ==
  ASSUME ViewInvariant, Quiet, NEW x \in Identities \ excused
  PROVE  /\ UpToDate(x, Side(x, view[Carried(x)]))
         /\ stage = "read"
<1>1. ViewTypes /\ StagesInOrder /\ Arrives(x)
  BY DEF ViewInvariant
<1>2. PICK h \in Ops, a \in Sides, b \in Sides, c \in Sides, d \in Sides : Arriving(x, h, a, b, c, d)
  BY <1>1 DEF Arrives
<1>3. Line = <<>>
  BY <1>1 DEF Quiet, StagesInOrder, Line
<1>4. a = Side(x, h) /\ d = a
  <2>1. Leads(mine, x, Side(x, h), <<>>, a)
    BY <1>2, <1>3 DEF Arriving
  <2>2. a = Side(x, h)
    BY <2>1, RunOfNothing
  <2>3. OnTheWay(x) = {} /\ Owed(x, "entity") = {} /\ Owed(x, "attributes") = {}
    BY DEF Quiet, OnTheWay, Owed
  <2>4. b = a /\ c = b /\ d = c
    BY <1>2, <2>3 DEF Arriving, Takes
  <2>5. QED
    BY <2>2, <2>4
<1>5. h = view[Carried(x)]
  <2>1. Carried(x)[1] \in Topics
    BY KeysOf
  <2>2. pending[Carried(x)[1]] = <<>>
    BY <1>1, <2>1 DEF Quiet, StagesInOrder
  <2>3. SentOn(x) = {view[Carried(x)]}
    BY <2>2 DEF SentOn, ToSet
  <2>4. QED
    BY <1>2, <2>3 DEF Arriving, IsLatest
<1>6. QED
  BY <1>2, <1>4, <1>5 DEF Arriving, Quiet

LEMMA QuietSource ==
  ASSUME ViewInvariant, Quiet, NEW x \in Sources \ excused,
         NEW marker, marker = cache[EntityKey(x)], NEW cached, cached = cache[AttributesKey(x)],
         NEW held, held = view[AttributesKey(x)]
  PROVE  /\ cached.tomb => held.tomb
         /\ ~cached.tomb /\ Overlap(mine, cached.subs) => held = cached
         /\ marker.tomb => x \notin members
         /\ ~marker.tomb => x \in members /\ nodeSubspaces[x] = marker.subs
<1>1. x \in Identities \ excused /\ x # Me /\ Carried(x) = AttributesKey(x)
  BY KeysOf DEF Identities
<1>2. UpToDate(x, Side(x, held)) /\ stage = "read"
  BY <1>1, QuietSide
<1>3. Side(x, held).held = held /\ Side(x, held).record = IF x \in members THEN {nodeSubspaces[x]} ELSE {}
  BY DEF Side
<1>4. (cached.tomb => held.tomb) /\ (~cached.tomb /\ Overlap(mine, cached.subs) => held = cached)
  BY <1>1, <1>2, <1>3 DEF UpToDate
<1>5. /\ marker.tomb => Side(x, held).record = {}
      /\ ~marker.tomb => Side(x, held).record = {marker.subs}
  BY <1>1, <1>2 DEF UpToDate
<1>6. QED
  BY <1>3, <1>4, <1>5

\* The writer's visibility map is a copy of the cache once all has arrived, for
\* every source of which no op overtook another and none was cut.
THEOREM WriterHasTheRecords == Spec => []WriterAgrees
<1>1. ViewInvariant => WriterAgrees
  <2> SUFFICES ASSUME ViewInvariant, Quiet, NEW x \in Sources \ excused,
                      NEW marker, marker = cache[<<"entity", x>>]
               PROVE  /\ x \in members <=> ~marker.tomb
                      /\ nodeSubspaces[x] = IF marker.tomb THEN {} ELSE marker.subs
    BY DEF WriterAgrees
  <2>1. /\ marker.tomb => x \notin members
        /\ ~marker.tomb => x \in members /\ nodeSubspaces[x] = marker.subs
    BY QuietSource DEF EntityKey
  <2>2. x \notin members => nodeSubspaces[x] = {}
    BY DEF ViewInvariant, StagesInOrder
  <2>3. QED
    BY <2>1, <2>2
<1>2. QED
  BY <1>1, Arrival, PTL

\* The client holds the very attributes the cache holds of a source it may see,
\* if no op of that source overtook another and none was cut.
THEOREM NothingIsMissed == Spec => []AttributesComplete
<1>1. ViewInvariant => AttributesComplete
  BY QuietSource DEF AttributesComplete, AttributesKey
<1>2. QED
  BY <1>1, Arrival, PTL

\* A source that has left is gone at the client, if none of its ops overtook
\* another and none was cut.
THEOREM GoneIsGone == Spec => []NoGhosts
<1>1. ViewInvariant => NoGhosts
  <2> SUFFICES ASSUME ViewInvariant, Quiet, NEW x \in Sources \ excused, at[x] = "away"
               PROVE  view[AttributesKey(x)].tomb
    BY DEF NoGhosts, AttributesKey
  <2>1. cache[AttributesKey(x)].tomb
    BY DEF ViewInvariant, SessionsInOrder
  <2>2. QED
    BY <2>1, QuietSource
<1>2. QED
  BY <1>1, Arrival, PTL

\* At no moment does a client of a sub-space hold attributes of a session that
\* shares none with it, of a source of which nothing came out of order or was
\* cut; this does not wait for quiet.
THEOREM SubSpacesAreClosed == Spec => []SubSpaceClosed
<1>1. ViewInvariant => SubSpaceClosed
  <2> SUFFICES ASSUME ViewInvariant, NEW x \in Sources \ excused, ~view[AttributesKey(x)].tomb
               PROVE  Overlap(mine, view[AttributesKey(x)].subs)
    BY DEF SubSpaceClosed, AttributesKey
  <2>1. x \in Identities \ excused /\ x # Me /\ Carried(x) = AttributesKey(x)
    BY KeysOf DEF Identities
  <2>2. PICK h \in Ops : IsLatest(x, h)
    BY <2>1 DEF ViewInvariant, Arrives, Arriving
  <2>3. view[AttributesKey(x)] \in SentOn(x)
    BY <2>1 DEF SentOn
  <2>4. QED
    BY <2>1, <2>2, <2>3 DEF IsLatest
<1>2. QED
  BY <1>1, Arrival, PTL

-------------------------------------------------------------------------------
(* What is decided about the client itself.  Here no order is needed, and  *)
(* nobody is excused: the client takes the highest id, so it is enough     *)
(* that the last decision is somewhere on its way, and that nothing newer  *)
(* is.  A tombstone has nothing to undo where no earlier decision is left. *)

OwnKey == EntityKey(Me)
Decided == cache[OwnKey]

Own(ops) == {op \in ops : op.key = OwnKey}

\* What is before the writer, and what is past it.
Queued == Own(({sending} \ {None}) \cup ToSet(stringChOut) \cup ToSet(pendingStrings)
              \cup ToSet(draining) \cup toDeliver)
Sent == {view[OwnKey]} \cup Own(ToSet(pending["entity"]))

\* Nothing older comes behind the decision.
LastFrom(s) == \A i, j \in DOMAIN s : i < j /\ s[i] = Decided /\ s[j].key = OwnKey => s[j] = Decided

InLine ==
  /\ LastFrom(stringChOut) /\ LastFrom(pendingStrings)
  /\ Decided \in ToSet(pendingStrings) => Own(ToSet(stringChOut)) \subseteq {Decided}

\* The decision is on its way or was cut, the backfill owes it, or it is a
\* tombstone and there is nothing it would kill.
Reaches ==
  \/ Decided \in Queued \cup Sent
  \/ Decided \in cut
  \/ ~Decided.tomb /\ stage # "read"
  \/ Decided.tomb /\ \A op \in Queued \cup Sent : op.tomb

OwnPolicy ==
  /\ \A op \in Queued \cup Sent : op \in Ops /\ op.key = OwnKey /\ Newer(op, Decided)
  /\ stage \in {"none", "registered"} => view[OwnKey].tomb /\ pending["entity"] = <<>>
  /\ stage = "registered" => InLine
  /\ Reaches

LEMMA OwnKeyIs ==
  /\ OwnKey \in Keys /\ OwnKey[1] = "entity" /\ OwnKey[2] = Me /\ Me \in Identities
  /\ "entity" \in Topics /\ Carried(Me) = OwnKey
  BY KeysOf DEF OwnKey, EntityKey, Identities, Topics

LEMMA NoOps == ToSet(<<>>) = {}
  BY DEF ToSet

\* Among ops whose ids are bounded there is a latest one.
LEMMA LatestExists ==
  ASSUME NEW ops, ops # {}, NEW n \in Nat, \A op \in ops : op.id \in Nat /\ op.id <= n
  PROVE  \E op \in ops : \A o \in ops : o.id <= op.id
<1> DEFINE less == {pair \in Nat \X Nat : pair[1] < pair[2]}
           gaps == {n - op.id : op \in ops}
<1>1. gaps \subseteq Nat /\ gaps # {}
  OBVIOUS
<1>2. \A a, b \in Nat : <<a, b>> \in less <=> a < b
  OBVIOUS
<1>3. IsWellFoundedOn(less, Nat)
  BY NatLessThanWellFounded, Zenon DEF OpToRel
<1> HIDE DEF less, gaps
<1>4. PICK gap \in gaps : \A other \in gaps : <<other, gap>> \notin less
  BY <1>1, <1>3, WFMin
<1>5. PICK op \in ops : gap = n - op.id
  BY DEF gaps
<1>6. ASSUME NEW o \in ops
      PROVE  o.id <= op.id
  <2>1. n - o.id \in gaps /\ n - o.id \in Nat /\ gap \in Nat
    BY <1>1 DEF gaps
  <2>2. ~(n - o.id < gap)
    BY <1>2, <1>4, <2>1
  <2>3. QED
    BY <1>5, <2>2
<1>7. QED
  BY <1>6

\* A step that writes nothing about the client and adds nothing about it.
LEMMA StillReaches ==
  ASSUME OwnPolicy, Decided' = Decided, (Queued \cup Sent)' \subseteq Queued \cup Sent,
         Decided \in Queued \cup Sent => Decided \in (Queued \cup Sent)' \/ Decided \in cut',
         cut \subseteq cut', stage' = "read" => stage = "read"
  PROVE  /\ (\A op \in Queued \cup Sent : op \in Ops /\ op.key = OwnKey /\ Newer(op, Decided))'
         /\ Reaches'
<1>1. /\ \A op \in Queued \cup Sent : op \in Ops /\ op.key = OwnKey /\ Newer(op, Decided)
      /\ Reaches
  BY DEF OwnPolicy
<1>2. OwnKey' = OwnKey
  BY DEF OwnKey, EntityKey
<1>3. \A op \in (Queued \cup Sent)' : op \in Ops /\ op.key = OwnKey /\ Newer(op, Decided)
  BY <1>1
<1>4. Reaches'
  BY <1>1 DEF Reaches
<1>5. QED
  BY <1>2, <1>3, <1>4

\* A new decision is the newest op there is; any other op is another's.
LEMMA PublishedPolicy ==
  ASSUME ViewTypes, StagesInOrder, OwnPolicy, Published
  PROVE  OwnPolicy'
<1>1. PICK key \in Keys, tomb \in BOOLEAN, subs \in SUBSET SubSpaces : Put(key, tomb, subs)
  BY DEF Published
<1>2. /\ sending' \in Ops /\ sending' # None /\ sending = None /\ sending'.key = key
      /\ sending'.id = opId' /\ opId' = opId + 1 /\ opId \in Nat
      /\ cache'[key] = sending' /\ \A k \in Keys \ {key} : cache'[k] = cache[k]
      /\ UNCHANGED <<stage, stringChOut, pendingStrings, draining, toDeliver, pending, view, cut>>
  BY <1>1, PutOp DEF clientVars, sinkVars, ViewTypes
<1>3. /\ Sent' = Sent /\ Queued' = Queued \cup Own({sending'})
      /\ \A op \in Queued \cup Sent : op \in Ops /\ op.key = OwnKey /\ Newer(op, Decided)
  BY <1>2 DEF Sent, Queued, Own, OwnKey, EntityKey, OwnPolicy
<1>4. CASE key = OwnKey
  <2>1. Decided' = sending' /\ Decided' \in Queued' /\ Own({sending'}) = {sending'}
    BY <1>2, <1>3, <1>4 DEF Decided, Own, OwnKey, EntityKey
  <2>2. ASSUME NEW op \in Queued \cup Sent
        PROVE  op # Decided' /\ Newer(op, Decided')
    <3>1. op.id \in Nat /\ Decided.id \in Nat /\ Decided.id <= opId /\ op.id <= Decided.id
      BY <1>3, OwnKeyIs DEF ViewTypes, Decided, Ops, Newer
    <3>2. op.id < Decided'.id
      BY <1>2, <2>1, <3>1
    <3>3. QED
      BY <3>1, <3>2, <1>2, <2>1 DEF Newer
  <2>3. Newer(Decided', Decided')
    BY <1>2, <2>1 DEF Newer, Ops
  <2>4. ASSUME NEW s \in {stringChOut, pendingStrings}, NEW i \in DOMAIN s
        PROVE  s[i] # Decided'
    <3>1. s[i] \in ToSet(s)
      BY DEF ToSet
    <3>2. s[i] \in Queued \/ s[i].key # OwnKey
      BY <3>1 DEF Queued, Own
    <3>3. QED
      BY <1>2, <1>4, <2>1, <2>2, <3>2
  <2>5. InLine'
    <3>1. LastFrom(stringChOut)' /\ LastFrom(pendingStrings)'
      BY <1>2, <2>4 DEF LastFrom
    <3>2. Decided' \notin ToSet(pendingStrings')
      BY <1>2, <2>4 DEF ToSet
    <3>3. QED
      BY <3>1, <3>2 DEF InLine
  <2>6. \A op \in (Queued \cup Sent)' : op \in Ops /\ op.key = OwnKey' /\ Newer(op, Decided')
    BY <1>2, <1>3, <1>4, <2>1, <2>2, <2>3 DEF OwnKey, EntityKey
  <2>7. QED
    BY <1>2, <2>1, <2>5, <2>6 DEF OwnPolicy, Reaches, OwnKey, EntityKey
<1>5. CASE key # OwnKey
  <2>1. Decided' = Decided /\ Queued' = Queued
    BY <1>2, <1>3, <1>5, OwnKeyIs DEF Decided, Own, OwnKey, EntityKey
  <2>2. InLine <=> InLine'
    BY <1>2, <2>1 DEF InLine, LastFrom, Own, OwnKey, EntityKey
  <2>3. Reaches'
    BY <1>2, <1>3, <2>1 DEF OwnPolicy, Reaches
  <2>4. QED
    BY <1>2, <1>3, <2>1, <2>2, <2>3 DEF OwnPolicy, OwnKey, EntityKey
<1>6. QED
  BY <1>4, <1>5

\* Nothing that it speaks of changes.
LEMMA SilentPolicy ==
  ASSUME OwnPolicy, Silent
  PROVE  OwnPolicy'
<1>1. UNCHANGED <<cache, sending, stage, stringChOut, pendingStrings, draining, toDeliver,
                 pending, view, cut>>
  BY DEF Silent, busVars, clientVars, sinkVars
<1>2. QED
  BY <1>1 DEF OwnPolicy, Reaches, InLine, LastFrom, Queued, Sent, Own, Decided, OwnKey, EntityKey

\* Before the registration a decision passes by; then there is nothing either
\* of what it would undo, or the backfill will bring it.
LEMMA BroadcastPolicy ==
  ASSUME ViewTypes, StagesInOrder, OwnPolicy, Broadcast
  PROVE  OwnPolicy'
<1>1. /\ sending \in Ops /\ sending # None /\ sending' = None
      /\ sending.key = OwnKey => sending = Decided
      /\ UNCHANGED <<cache, stage, pendingStrings, draining, toDeliver, pending, view, cut>>
  BY DEF Broadcast, ViewTypes, Decided, sinkVars
<1>2. Decided' = Decided /\ Sent' = Sent /\ OwnKey' = OwnKey
  BY <1>1 DEF Decided, Sent, Own, OwnKey, EntityKey
<1>3. CASE stage = "none"
  <2>1. /\ stringChOut' = <<>> /\ stringChOut = <<>> /\ pendingStrings = <<>> /\ draining = <<>>
        /\ toDeliver = {} /\ pending["entity"] = <<>> /\ view[OwnKey].tomb
    BY <1>3, OwnKeyIs DEF Broadcast, StagesInOrder, OwnPolicy
  <2>2. Queued' = {} /\ Sent = {view[OwnKey]}
    BY <1>1, <2>1, NoOps DEF Queued, Sent, Own
  <2>3. Reaches'
    <3>1. CASE Decided.tomb
      BY <1>2, <2>1, <2>2, <3>1 DEF Reaches
    <3>2. CASE ~Decided.tomb
      BY <1>1, <1>2, <1>3, <3>2 DEF Reaches
    <3>3. QED
      BY <3>1, <3>2
  <2>4. QED
    BY <1>1, <1>2, <1>3, <2>2, <2>3 DEF OwnPolicy
<1>4. CASE stage # "none"
  <2>1. stringChOut' = Append(stringChOut, sending) /\ stringChOut \in Seq(Ops)
    BY <1>4 DEF Broadcast, ViewTypes
  <2>2. ToSet(stringChOut') = ToSet(stringChOut) \cup {sending}
    BY <1>1, <2>1, AppendSet
  <2>3. Queued' = Queued
    BY <1>1, <1>2, <2>2 DEF Queued, Own
  <2>4. stage = "registered" => InLine'
    <3>1. SUFFICES ASSUME InLine PROVE InLine'
      BY DEF OwnPolicy
    <3>2. LastFrom(stringChOut')
      BY <1>1, <2>1, <3>1 DEF LastFrom, InLine
    <3>3. QED
      BY <1>1, <1>2, <2>2, <3>1, <3>2 DEF InLine, LastFrom, Own
  <2>5. Reaches'
    BY <1>1, <1>2, <2>3 DEF OwnPolicy, Reaches
  <2>6. QED
    BY <1>1, <1>2, <2>3, <2>4, <2>5 DEF OwnPolicy
<1>5. QED
  BY <1>3, <1>4

\* The buffer before the writer is in order: where the decision is cut, all
\* that was before it is cut too.
LEMMA BufferPolicy ==
  ASSUME ViewTypes, StagesInOrder, OwnPolicy, SendString, stage = "registered"
  PROVE  OwnPolicy'
<1> DEFINE op == Head(stringChOut)
           more == Append(pendingStrings, op)
<1>1. /\ stringChOut # <<>> /\ stringChOut' = Tail(stringChOut) /\ pendingStrings' = Trimmed(more)
      /\ UNCHANGED <<cache, sending, stage, draining, toDeliver, pending, view, cut>>
  BY DEF SendString, busVars, sinkVars
<1>2. /\ op \in Ops /\ Tail(stringChOut) \in Seq(Ops) /\ more \in Seq(Ops) /\ more # <<>>
      /\ ToSet(stringChOut) = {op} \cup ToSet(stringChOut')
      /\ ToSet(more) = ToSet(pendingStrings) \cup {op}
  <2>1. stringChOut \in Seq(Ops) /\ pendingStrings \in Seq(Ops)
    BY DEF ViewTypes
  <2>2. op \in Ops /\ Tail(stringChOut) \in Seq(Ops) /\ ToSet(stringChOut) = {op} \cup ToSet(Tail(stringChOut))
    BY <1>1, <2>1, TailSet, HeadTail
  <2>3. ToSet(more) = ToSet(pendingStrings) \cup {op}
    BY <2>1, <2>2, AppendSet
  <2>4. more \in Seq(Ops) /\ more # <<>>
    BY <2>1, <2>2
  <2>5. QED
    BY <1>1, <2>2, <2>3, <2>4
<1>3. ToSet(pendingStrings') \subseteq ToSet(more)
  BY <1>1, <1>2, TailSet DEF Trimmed
<1>4. /\ Decided' = Decided /\ Sent' = Sent /\ OwnKey' = OwnKey /\ Queued' \subseteq Queued
  BY <1>1, <1>2, <1>3 DEF Decided, Sent, Queued, Own, OwnKey, EntityKey
<1>5. InLine /\ view[OwnKey].tomb /\ pending["entity"] = <<>> /\ toDeliver = {} /\ draining = <<>>
  BY DEF OwnPolicy, StagesInOrder
<1>6. op = Decided => Own(ToSet(stringChOut')) \subseteq {Decided}
  <2>1. ASSUME op = Decided, NEW o \in ToSet(stringChOut'), o.key = OwnKey
        PROVE  o = Decided
    <3>1. PICK i \in DOMAIN Tail(stringChOut) : o = Tail(stringChOut)[i]
      BY <1>1, <2>1 DEF ToSet
    <3>2. 1 \in DOMAIN stringChOut /\ i + 1 \in DOMAIN stringChOut /\ 1 < i + 1
          /\ o = stringChOut[i + 1] /\ stringChOut[1] = Decided
      BY <1>1, <2>1, <3>1 DEF ViewTypes
    <3>3. QED
      BY <1>5, <2>1, <3>2 DEF InLine, LastFrom
  <2>2. QED
    BY <2>1 DEF Own
<1>7. LastFrom(more)
  <2>1. SUFFICES ASSUME NEW i \in DOMAIN more, NEW j \in DOMAIN more, i < j, more[i] = Decided,
                        more[j].key = OwnKey
                 PROVE  more[j] = Decided
    BY DEF LastFrom
  <2>2. pendingStrings \in Seq(Ops) /\ i \in DOMAIN pendingStrings /\ more[i] = pendingStrings[i]
    BY <1>2, <2>1 DEF ViewTypes
  <2>3. CASE j \in DOMAIN pendingStrings
    BY <1>2, <1>5, <2>1, <2>2, <2>3 DEF InLine, LastFrom
  <2>4. CASE j \notin DOMAIN pendingStrings
    <3>1. more[j] = op
      BY <1>2, <2>1, <2>2, <2>4
    <3>2. Decided \in ToSet(pendingStrings) /\ op \in ToSet(stringChOut)
      BY <1>2, <2>1, <2>2 DEF ToSet
    <3>3. QED
      BY <1>5, <2>1, <3>1, <3>2 DEF InLine, Own
  <2>5. QED
    BY <2>3, <2>4
<1>8. LastFrom(pendingStrings')
  <2>1. CASE pendingStrings' = more
    BY <1>7, <2>1
  <2>2. CASE pendingStrings' = Tail(more)
    <3>1. \A i \in DOMAIN Tail(more) : i + 1 \in DOMAIN more /\ Tail(more)[i] = more[i + 1]
      BY <1>2
    <3>2. \A i, j \in DOMAIN Tail(more) : i < j => i + 1 < j + 1
      BY <1>2
    <3>3. QED
      BY <1>7, <2>2, <3>1, <3>2 DEF LastFrom
  <2>3. QED
    BY <1>1, <2>1, <2>2 DEF Trimmed
<1>9. Decided \in ToSet(more) => Own(ToSet(stringChOut')) \subseteq {Decided}
  BY <1>2, <1>5, <1>6 DEF InLine, Own
<1>10. InLine'
  <2>1. LastFrom(stringChOut')
    <3>1. \A i \in DOMAIN Tail(stringChOut) : i + 1 \in DOMAIN stringChOut /\ Tail(stringChOut)[i] = stringChOut[i + 1]
      BY <1>1 DEF ViewTypes
    <3>2. \A i, j \in DOMAIN Tail(stringChOut) : i < j => i + 1 < j + 1
      BY <1>1 DEF ViewTypes
    <3>3. QED
      BY <1>1, <1>5, <3>1, <3>2 DEF LastFrom, InLine
  <2>2. QED
    BY <1>3, <1>4, <1>8, <1>9, <2>1 DEF InLine, LastFrom, Own
<1>11. Reaches'
  <2>1. CASE Decided \in Queued \cup Sent => Decided \in (Queued \cup Sent)' \/ Decided \in cut'
    BY <1>1, <1>4, <2>1, StillReaches
  <2>2. CASE Decided \in Queued \cup Sent /\ Decided \notin (Queued \cup Sent)'
    <3>1. CASE ~Decided.tomb
      BY <1>1, <1>4, <3>1 DEF Reaches
    <3>2. CASE Decided.tomb
      <4>1. Decided \in ToSet(more) /\ Decided \notin ToSet(pendingStrings')
        BY <1>1, <1>2, <1>4, <1>5, <2>2, NoOps DEF Queued, Own
      <4>2. pendingStrings' = Tail(more) /\ ToSet(more) = {Head(more)} \cup ToSet(Tail(more))
        BY <1>1, <1>2, <4>1, TailSet DEF Trimmed
      <4>3. Head(more) = Decided
        BY <4>1, <4>2
      <4>4. Own(ToSet(Tail(more))) \subseteq {Decided}
        <5>1. ASSUME NEW o \in ToSet(Tail(more)), o.key = OwnKey
              PROVE  o = Decided
          <6>1. PICK i \in DOMAIN Tail(more) : o = Tail(more)[i]
            BY <5>1 DEF ToSet
          <6>2. 1 \in DOMAIN more /\ i + 1 \in DOMAIN more /\ 1 < i + 1
                /\ o = more[i + 1] /\ more[1] = Decided
            BY <1>2, <4>3, <6>1
          <6>3. QED
            BY <1>7, <5>1, <6>2 DEF LastFrom
        <5>2. QED
          BY <5>1 DEF Own
      <4>5. Own(ToSet(stringChOut')) \subseteq {Decided}
        BY <1>9, <4>1
      <4>6. Own({sending} \ {None}) \subseteq {Decided}
        BY DEF Own, ViewTypes, Decided
      <4>7. Queued' \subseteq {Decided}
        BY <1>1, <1>4, <1>5, <4>2, <4>4, <4>5, <4>6, NoOps DEF Queued, Own
      <4>8. Sent' = {view[OwnKey]}
        BY <1>4, <1>5, NoOps DEF Sent, Own
      <4>9. QED
        BY <1>4, <1>5, <3>2, <4>7, <4>8 DEF Reaches
    <3>3. QED
      BY <3>1, <3>2
  <2>3. QED
    BY <2>1, <2>2
<1>12. QED
  BY <1>1, <1>4, <1>5, <1>10, <1>11 DEF OwnPolicy

\* A write keeps the newest of what is held and what it brings.  A full channel
\* buffer drops its oldest entry: if that is the decision, either the entry that
\* comes in is the decision again, or it is an older one, and this is recorded.
LEMMA WritePolicy ==
  ASSUME ViewTypes, StagesInOrder, OwnPolicy, NEW op \in Ops, NEW late, Write(op, late),
         op.key = OwnKey => op \in Queued
  PROVE  /\ Sent' \subseteq Sent \cup Own({op})
         /\ Decided \in Sent \cup Own({op}) => Decided \in Sent' \/ Decided \in cut'
         /\ cut \subseteq cut'
<1> DEFINE k == OwnKey
           q == pending["entity"]
           more == Append(q, op)
<1>1. /\ \A o \in Queued \cup Sent : o \in Ops /\ o.key = k /\ Newer(o, Decided)
      /\ view[k] \in Ops /\ view[k].key = k /\ Newer(view[k], Decided)
      /\ q \in Seq(Ops)
  BY OwnKeyIs DEF OwnPolicy, Sent, ViewTypes
<1>2. CASE op.key # k
  <2>1. PICK l : Forward(op, l) \/ Drop(l)
    BY WriteMembers DEF StagesInOrder
  <2>2. view'[k] = view[k] /\ cut \subseteq cut'
    BY <1>2, <2>1, OwnKeyIs DEF Forward, Drop, Received, ViewTypes, sinkVars
  <2>3. pending'["entity"] = q
    <3>1. CASE op.key[1] = "entity"
      <4>1. ~EntityKeyVisible(op.key)
        BY <1>2, <3>1, OpKeys, OwnKeyIs DEF EntityKeyVisible, Carried, About
      <4>2. Drop(late)
        BY <3>1, <4>1 DEF Write
      <4>3. QED
        BY <4>2 DEF Drop, sinkVars
    <3>2. CASE op.key[1] # "entity"
      <4>1. pending' = pending \/ \E v : pending' = [pending EXCEPT ![op.key[1]] = v]
        BY <2>1 DEF Forward, Drop, sinkVars
      <4>2. QED
        BY <3>2, <4>1, OwnKeyIs DEF ViewTypes
    <3>3. QED
      BY <3>1, <3>2
  <2>4. Own({op}) = {} /\ Sent' = Sent
    BY <1>2, <2>2, <2>3 DEF Own, Sent, OwnKey, EntityKey
  <2>5. QED
    BY <2>2, <2>4
<1>3. CASE op.key = k /\ "entity" \in opened
  <2>1. Forward(op, late)
    BY <1>3, OwnKeyIs DEF Write, EntityKeyVisible
  <2>2. view' = [view EXCEPT ![op.key] = IF op.id > @.id THEN op ELSE @] /\ UNCHANGED <<pending, cut>>
    BY <1>3, <2>1, OwnKeyIs DEF Forward, Received
  <2>3. view'[k] = IF op.id > view[k].id THEN op ELSE view[k]
    BY <1>3, <2>2, OwnKeyIs DEF ViewTypes
  <2>4. q = <<>> /\ Sent = {view[k]} /\ Sent' = {view'[k]} /\ Own({op}) = {op}
    BY <1>3, <2>2, NoOps DEF StagesInOrder, Sent, Own, OwnKey, EntityKey
  <2>5. op.id \in Nat /\ view[k].id \in Nat /\ Newer(op, Decided)
    BY <1>1, <1>3 DEF Ops
  <2>6. view[k] = Decided \/ op = Decided => view'[k] = Decided
    BY <1>1, <2>3, <2>5 DEF Newer
  <2>7. QED
    BY <2>2, <2>3, <2>4, <2>6
<1>4. CASE op.key = k /\ "entity" \notin opened
  <2>1. Forward(op, late)
    BY <1>4, OwnKeyIs DEF Write, EntityKeyVisible
  <2>2. /\ pending' = [pending EXCEPT !["entity"] = Trimmed(more)] /\ view' = view
        /\ cut' = cut \cup CutEarly(more)
    BY <1>4, <2>1, OwnKeyIs DEF Forward
  <2>3. pending'["entity"] = Trimmed(more)
    BY <2>2, OwnKeyIs DEF ViewTypes
  <2>4. more \in Seq(Ops) /\ more # <<>> /\ ToSet(more) = ToSet(q) \cup {op}
    BY <1>1, AppendSet
  <2>5. ToSet(more) = {Head(more)} \cup ToSet(Tail(more))
    BY <2>4, TailSet
  <2>6. Own({op}) = {op} /\ Sent' = {view[k]} \cup Own(ToSet(Trimmed(more)))
    BY <1>4, <2>2, <2>3 DEF Own, Sent, OwnKey, EntityKey
  <2>7. ToSet(Trimmed(more)) \subseteq ToSet(more)
    BY <2>5 DEF Trimmed
  <2>8. Sent' \subseteq Sent \cup Own({op})
    BY <2>4, <2>6, <2>7 DEF Sent, Own
  <2>9. ASSUME Decided \in Sent \cup Own({op}), Decided \notin Sent'
        PROVE  Decided \in cut'
    <3>1. Decided \in ToSet(more) /\ Decided.key = k /\ Decided \notin ToSet(Trimmed(more))
      BY <1>1, <1>4, <2>4, <2>6, <2>9 DEF Sent, Own
    <3>2. Len(more) > PendingMax /\ Trimmed(more) = Tail(more) /\ Head(more) = Decided
      BY <2>5, <3>1 DEF Trimmed
    <3>3. op \in ToSet(Tail(more))
      <4>1. /\ Len(more) = Len(q) + 1 /\ Len(q) \in Nat /\ Len(q) \in DOMAIN Tail(more)
            /\ Tail(more)[Len(q)] = op
        BY <1>1, <3>2
      <4>2. QED
        BY <4>1 DEF ToSet
    <3>4. op # Decided /\ op.id < Decided.id
      <4>1. op.id \in Nat /\ Decided.id \in Nat /\ Newer(op, Decided)
        BY <1>1, <1>4, OwnKeyIs DEF Ops, ViewTypes, Decided
      <4>2. QED
        BY <3>1, <3>2, <3>3, <4>1 DEF Newer
    <3>5. op \in ToSet(more) /\ op.key = Head(more).key
      BY <1>4, <2>4, <3>1, <3>2
    <3>6. CutEarly(more) = {Decided}
      BY <3>2, <3>4, <3>5 DEF CutEarly
    <3>7. QED
      BY <2>2, <3>6
  <2>10. QED
    BY <2>2, <2>8, <2>9
<1>5. QED
  BY <1>2, <1>3, <1>4

\* An op taken from a queue and written.
LEMMA WrittenPolicy ==
  ASSUME ViewTypes, StagesInOrder, OwnPolicy, NEW op \in Ops, NEW late, Write(op, late),
         stage \notin {"none", "registered"}, UNCHANGED <<cache, stage>>,
         Queued = Queued' \cup Own({op})
  PROVE  OwnPolicy'
<1>1. op.key = OwnKey => op \in Queued
  BY DEF Own
<1>2. /\ Sent' \subseteq Sent \cup Own({op})
      /\ Decided \in Sent \cup Own({op}) => Decided \in Sent' \/ Decided \in cut'
      /\ cut \subseteq cut'
  BY <1>1, WritePolicy
<1>3. Decided' = Decided
  BY DEF Decided, OwnKey, EntityKey
<1>4. (Queued \cup Sent)' \subseteq Queued \cup Sent
  BY <1>2
<1>5. Decided \in Queued \cup Sent => Decided \in (Queued \cup Sent)' \/ Decided \in cut'
  BY <1>2
<1>6. QED
  BY <1>2, <1>3, <1>4, <1>5, StillReaches DEF OwnPolicy

LEMMA DrainPolicy ==
  ASSUME ViewTypes, StagesInOrder, OwnPolicy, Drain
  PROVE  OwnPolicy'
<1>1. /\ Write(Head(draining), {}) /\ draining # <<>> /\ draining' = Tail(draining)
      /\ UNCHANGED <<cache, sending, stage, stringChOut, pendingStrings, toDeliver>>
  BY DEF Drain, busVars
<1>2. Head(draining) \in Ops /\ ToSet(draining) = {Head(draining)} \cup ToSet(Tail(draining))
  BY <1>1, TailSet, HeadTail DEF ViewTypes
<1>3. stage \notin {"none", "registered"}
  BY <1>1 DEF StagesInOrder
<1>4. Queued = Queued' \cup Own({Head(draining)})
  BY <1>1, <1>2 DEF Queued, Own, OwnKey, EntityKey
<1>5. QED
  BY <1>1, <1>2, <1>3, <1>4, WrittenPolicy

LEMMA SendStringPolicy ==
  ASSUME ViewTypes, StagesInOrder, OwnPolicy, SendString
  PROVE  OwnPolicy'
<1>1. CASE stage = "registered"
  BY <1>1, BufferPolicy
<1>2. CASE stage # "registered"
  <2>1. /\ stringChOut # <<>> /\ stringChOut' = Tail(stringChOut)
        /\ UNCHANGED <<cache, sending, stage, pendingStrings, draining, toDeliver>>
    BY <1>2 DEF SendString, busVars
  <2>2. PICK late : Write(Head(stringChOut), late)
    BY <1>2 DEF SendString
  <2>3. /\ Head(stringChOut) \in Ops
        /\ ToSet(stringChOut) = {Head(stringChOut)} \cup ToSet(Tail(stringChOut))
    BY <2>1, TailSet, HeadTail DEF ViewTypes
  <2>4. stage # "none"
    BY <2>1 DEF StagesInOrder
  <2>5. Queued = Queued' \cup Own({Head(stringChOut)})
    BY <2>1, <2>3 DEF Queued, Own, OwnKey, EntityKey
  <2>6. QED
    BY <1>2, <2>1, <2>2, <2>3, <2>4, <2>5, WrittenPolicy
<1>3. QED
  BY <1>1, <1>2

LEMMA StagePolicy ==
  ASSUME ViewTypes, StagesInOrder, OwnPolicy, Register \/ SetReceiveSender \/ BackfillBouncer
  PROVE  OwnPolicy'
<1>1. UNCHANGED <<cache, sending, stringChOut, toDeliver, pending, view, cut>> /\ stage' # "read"
  BY DEF Register, SetReceiveSender, BackfillBouncer, busVars, sinkVars
<1>2. \/ UNCHANGED <<pendingStrings, draining>>
      \/ draining = <<>> /\ draining' = pendingStrings /\ pendingStrings' = <<>>
  BY DEF Register, SetReceiveSender, BackfillBouncer, StagesInOrder
<1>3. Decided' = Decided /\ Sent' = Sent /\ Queued' = Queued /\ OwnKey' = OwnKey
  BY <1>1, <1>2, NoOps DEF Decided, Sent, Queued, Own, OwnKey, EntityKey
<1>4. stage' \in {"none", "registered"} => stage = "none" /\ stringChOut' = <<>> /\ pendingStrings' = <<>>
  BY DEF Register, SetReceiveSender, BackfillBouncer, StagesInOrder
<1>5. stage' = "registered" => InLine'
  BY <1>4, NoOps DEF InLine, LastFrom, Own
<1>6. Reaches'
  BY <1>1, <1>3, StillReaches
<1>7. QED
  BY <1>1, <1>3, <1>4, <1>5, <1>6 DEF OwnPolicy

\* The backfill pays what it owes.
LEMMA BackfillPolicy ==
  ASSUME ViewTypes, StagesInOrder, OwnPolicy, BackfillRead \/ BackfillDeliver
  PROVE  OwnPolicy'
<1>1. /\ UNCHANGED <<cache, sending, pendingStrings, draining, pending, view, cut>>
      /\ stage \notin {"none", "registered"} /\ stage' \notin {"none", "registered"}
  <2>1. CASE BackfillRead
    BY <2>1 DEF BackfillRead, busVars, sinkVars
  <2>2. CASE BackfillDeliver
    BY <2>2 DEF BackfillDeliver, Bucket, StagesInOrder, busVars, sinkVars
  <2>3. QED
    BY <2>1, <2>2
<1>2. Decided' = Decided /\ Sent' = Sent /\ OwnKey' = OwnKey
  BY <1>1 DEF Decided, Sent, Own, OwnKey, EntityKey
<1>3. CASE BackfillRead
  <2>1. /\ toDeliver = {} /\ toDeliver' = {cache[k] : k \in {j \in Keys : ~cache[j].tomb}}
        /\ stringChOut' = stringChOut
    BY <1>3 DEF BackfillRead, StagesInOrder
  <2>2. Own(toDeliver') = IF Decided.tomb THEN {} ELSE {Decided}
    BY <2>1, OwnKeyIs DEF Own, Decided, ViewTypes
  <2>3. Queued' = Queued \cup Own(toDeliver')
    BY <1>1, <1>2, <2>1 DEF Queued, Own
  <2>4. Decided \in Ops /\ Decided.key = OwnKey /\ Newer(Decided, Decided)
    BY OwnKeyIs DEF Decided, ViewTypes, Newer, Ops
  <2>5. \A op \in (Queued \cup Sent)' : op \in Ops /\ op.key = OwnKey /\ Newer(op, Decided)
    BY <1>2, <2>2, <2>3, <2>4 DEF OwnPolicy
  <2>6. Reaches'
    <3>1. CASE Decided.tomb
      BY <1>1, <1>2, <2>2, <2>3, <3>1 DEF OwnPolicy, Reaches
    <3>2. CASE ~Decided.tomb
      BY <1>2, <2>2, <2>3, <3>2 DEF Reaches
    <3>3. QED
      BY <3>1, <3>2
  <2>7. QED
    BY <1>1, <1>2, <2>5, <2>6 DEF OwnPolicy
<1>4. CASE BackfillDeliver
  <2>1. PICK op \in Bucket :
          stringChOut' = Append(stringChOut, op) /\ toDeliver' = toDeliver \ {op} /\ stage' = stage
    BY <1>4 DEF BackfillDeliver
  <2>2. op \in toDeliver /\ op \in Ops /\ stringChOut \in Seq(Ops)
    BY DEF Bucket, ViewTypes
  <2>3. ToSet(stringChOut') = ToSet(stringChOut) \cup {op}
    BY <2>1, <2>2, AppendSet
  <2>4. Queued' = Queued
    BY <1>1, <1>2, <2>1, <2>2, <2>3 DEF Queued, Own
  <2>5. Reaches'
    BY <1>1, <1>2, <2>1, <2>4 DEF OwnPolicy, Reaches
  <2>6. QED
    BY <1>1, <1>2, <2>4, <2>5 DEF OwnPolicy
<1>5. QED
  BY <1>3, <1>4

\* The client keeps the newest of what it had and what was buffered.
LEMMA OpenPolicy ==
  ASSUME ViewTypes, StagesInOrder, OwnPolicy, NEW t \in Topics, Open(t)
  PROVE  OwnPolicy'
<1> DEFINE k == OwnKey
           own == {op \in {view[k]} \cup ToSet(pending[t]) : op.key = k}
<1>1. /\ view' = [j \in Keys |-> Latest(j, {view[j]} \cup ToSet(pending[t]))]
      /\ pending' = [pending EXCEPT ![t] = <<>>]
      /\ UNCHANGED <<cache, sending, stage, stringChOut, pendingStrings, draining, toDeliver, cut>>
  BY DEF Open, busVars, clientVars
<1>2. Decided' = Decided /\ Queued' = Queued /\ OwnKey' = OwnKey
  BY <1>1 DEF Decided, Queued, Own, OwnKey, EntityKey
<1>3. /\ \A op \in Sent : op \in Ops /\ op.key = k /\ Newer(op, Decided)
      /\ view[k] \in Sent /\ Decided.id \in Nat
  BY OwnKeyIs DEF OwnPolicy, Sent, Decided, ViewTypes, Ops
<1>4. view'[k] = CHOOSE op \in own : \A o \in own : o.id <= op.id
  BY <1>1, <1>3, OwnKeyIs DEF Latest
<1>5. Sent' \subseteq Sent /\ (Decided \in Sent => Decided \in Sent') /\ view'[k] \in Sent'
  <2>1. CASE t = "entity"
    <3>1. own = Sent
      BY <1>3, <2>1 DEF Sent, Own
    <3>2. Sent' = {view'[k]}
      BY <1>1, <1>2, <2>1, NoOps DEF Sent, Own, ViewTypes
    <3>3. \E op \in own : \A o \in own : o.id <= op.id
      <4>1. own # {} /\ \A op \in own : op.id \in Nat /\ op.id <= Decided.id
        BY <1>3, <3>1 DEF Ops, Newer
      <4>2. QED
        BY <1>3, <4>1, LatestExists
    <3>4. view'[k] \in own /\ \A o \in own : o.id <= view'[k].id
      BY <1>4, <3>3
    <3>5. Decided \in Sent => view'[k] = Decided
      <4>1. view'[k].id \in Nat /\ Newer(view'[k], Decided)
        BY <1>3, <3>1, <3>4 DEF Ops
      <4>2. QED
        BY <1>3, <3>1, <3>4, <4>1 DEF Newer
    <3>6. QED
      BY <3>1, <3>2, <3>4, <3>5
  <2>2. CASE t # "entity"
    <3>1. own = {view[k]}
      BY <1>3, <2>2, OwnKeyIs DEF ViewTypes
    <3>2. view[k].id \in Nat
      BY <1>3 DEF Ops
    <3>3. view'[k] = view[k]
      BY <1>4, <3>1, <3>2
    <3>4. pending'["entity"] = pending["entity"]
      BY <1>1, <2>2 DEF ViewTypes
    <3>5. QED
      BY <1>2, <3>3, <3>4 DEF Sent, Own
  <2>3. QED
    BY <2>1, <2>2
<1>6. stage \in {"none", "registered"} => view'[k].tomb /\ pending'["entity"] = <<>>
  <2>1. SUFFICES ASSUME stage \in {"none", "registered"}
                 PROVE  view'[k].tomb /\ pending'["entity"] = <<>>
    OBVIOUS
  <2>2. view[k].tomb /\ pending["entity"] = <<>> /\ Sent = {view[k]}
    BY <2>1, NoOps DEF OwnPolicy, Sent, Own
  <2>3. view'[k] = view[k]
    BY <1>5, <2>2
  <2>4. pending'["entity"] = <<>>
    BY <1>1, <2>2, OwnKeyIs DEF ViewTypes
  <2>5. QED
    BY <2>2, <2>3, <2>4
<1>7. InLine => InLine'
  BY <1>1, <1>2 DEF InLine, LastFrom, Own
<1>8. /\ (\A op \in Queued \cup Sent : op \in Ops /\ op.key = OwnKey /\ Newer(op, Decided))'
      /\ Reaches'
  <2>1. (Queued \cup Sent)' \subseteq Queued \cup Sent
    BY <1>2, <1>5
  <2>2. Decided \in Queued \cup Sent => Decided \in (Queued \cup Sent)'
    BY <1>2, <1>5
  <2>3. QED
    BY <1>1, <1>2, <2>1, <2>2, StillReaches
<1>9. QED
  BY <1>1, <1>2, <1>6, <1>7, <1>8 DEF OwnPolicy

PolicyInvariant == ViewTypes /\ StagesInOrder /\ SessionsInOrder /\ OwnPolicy

LEMMA InitOwnPolicy == Init => OwnPolicy
<1> SUFFICES ASSUME Init PROVE OwnPolicy
  OBVIOUS
<1>1. /\ cache[OwnKey] = Absent(OwnKey) /\ view[OwnKey] = Absent(OwnKey) /\ stage = "none"
      /\ pending["entity"] = <<>> /\ stringChOut = <<>> /\ pendingStrings = <<>>
      /\ draining = <<>> /\ toDeliver = {} /\ sending = None
  BY OwnKeyIs DEF Init
<1>2. Queued = {} /\ Sent = {Decided}
  BY <1>1, NoOps DEF Queued, Sent, Own, Decided
<1>3. Decided \in Ops /\ Decided.key = OwnKey /\ Decided.tomb /\ Newer(Decided, Decided)
  BY <1>1, AbsentOp, OwnKeyIs DEF Decided, Newer, Ops
<1>4. QED
  BY <1>1, <1>2, <1>3 DEF OwnPolicy, Reaches, Decided

LEMMA NextOwnPolicy ==
  ASSUME ViewTypes, StagesInOrder, SessionsInOrder, OwnPolicy, [Next]_vars
  PROVE  OwnPolicy'
<1>1. CASE Published \/ Silent
  BY <1>1, PublishedPolicy, SilentPolicy
<1>2. CASE ClientStep
  BY <1>2, BroadcastPolicy, StagePolicy, SendStringPolicy, DrainPolicy, BackfillPolicy,
     OpenPolicy DEF ClientStep
<1>3. QED
  BY <1>1, <1>2, NextSessions

\* Of what is decided about the client the last word reaches it, whatever
\* overtakes what and whatever is cut from the buffers, at the gateway's side of
\* the attach or at the channel's, for any number of ops and any size of buffer;
\* the one exception is a decision that is the oldest entry of a full channel
\* buffer, while an earlier one has come in behind it.
THEOREM PolicyArrives == Spec => []OwnPolicyKnown
<1>1. Init => PolicyInvariant
  BY InitTypes, InitOwnPolicy DEF PolicyInvariant
<1>2. PolicyInvariant /\ [Next]_vars => PolicyInvariant'
  BY NextTypes, NextOwnPolicy DEF PolicyInvariant
<1>3. PolicyInvariant => OwnPolicyKnown
  <2> SUFFICES ASSUME PolicyInvariant, Quiet, Decided \notin cut
               PROVE  view[OwnKey].tomb = Decided.tomb
    BY DEF OwnPolicyKnown, Decided, OwnKey, EntityKey
  <2>1. /\ stage = "read" /\ sending = None /\ toDeliver = {} /\ stringChOut = <<>>
        /\ pendingStrings = <<>> /\ draining = <<>> /\ pending["entity"] = <<>>
    BY OwnKeyIs DEF Quiet, PolicyInvariant, StagesInOrder
  <2>2. Queued = {} /\ Sent = {view[OwnKey]}
    BY <2>1, NoOps DEF Queued, Sent, Own
  <2>3. Decided = view[OwnKey] \/ (Decided.tomb /\ view[OwnKey].tomb)
    BY <2>1, <2>2 DEF PolicyInvariant, OwnPolicy, Reaches
  <2>4. Decided.tomb \in BOOLEAN /\ view[OwnKey].tomb \in BOOLEAN
    BY <2>2, OwnKeyIs DEF PolicyInvariant, OwnPolicy, ViewTypes, Decided, Ops
  <2>5. QED
    BY <2>3, <2>4
<1>4. QED
  BY <1>1, <1>2, <1>3, PTL DEF Spec
================================================================================
