--------------------------- MODULE ReduceWalProofs ---------------------------
(***************************************************************************)
(* Proofs about ReduceWal, for every number of messages, every assignment  *)
(* of keys and event times, and all bounds.                                *)
(***************************************************************************)
EXTENDS ReduceWal, SequenceTheorems, WellFoundedInduction, TLAPS

Increasing(s) == \A i, j \in DOMAIN s : i < j => s[i] < s[j]

\* m is an entry of a segment after the first n.
InAfter(segs, n, m) == \E i \in DOMAIN segs : i > n /\ m \in Range(segs[i].es)
Holds(segs, m) == InAfter(segs, 0, m)

(***************************************************************************)
(* The parts of the inductive invariant.                                   *)
(***************************************************************************)

SegTypes ==
    /\ data \in Seq(Segment(Msgs)) /\ gc \in Seq(Segment(Event)) /\ cmp \in Seq(Segment(Msgs))
    /\ clock \in 0..MaxClock
    /\ OneActive(data) /\ OneActive(gc) /\ OneActive(cmp)
    /\ \A i \in DOMAIN gc : gc[i].ts >= 1

QueueTypes ==
    /\ dq \in Seq(Msgs) /\ gq \in Seq([key : Keys, end : 1..MaxTime]) /\ cq \in Seq(Msgs \cup {Rotate})

CptTypes ==
    /\ cpt \in {"snap", "gc", "cmp", "data", "delete", "wait", "off"}
    /\ newest \in -1..MaxClock
    /\ oldest \in [Keys -> 0..MaxTime]
    /\ scanned \subseteq 1..MaxClock
    /\ files \in Nat /\ pos \in Nat

RestTypes ==
    /\ pbq \in {"boot", "read", "drain", "down"}
    /\ acked \subseteq Msgs /\ todo \subseteq Msgs /\ done \subseteq Msgs /\ retired \subseteq Msgs
    /\ closed \in [Keys -> 0..MaxTime]
    /\ out \in Seq(Msgs)
    /\ cancel \in BOOLEAN /\ faulty \in BOOLEAN /\ lagged \in BOOLEAN
    /\ stops \in 0..MaxStops

Types == SegTypes /\ QueueTypes /\ CptTypes /\ RestTypes

\* The states of the segments, by where PBQ is.
Shape ==
    /\ \A i \in DOMAIN data : data[i].st = "left" => data[i].es = <<>>
    /\ pbq # "down" =>
          /\ Active(cmp) /\ \A i \in 1..(Len(cmp) - 1) : cmp[i].st = "frozen"
          /\ Active(gc) \/ (pbq = "drain" /\ gq = <<>>)
    /\ pbq = "down" =>
          /\ \A i \in DOMAIN cmp : cmp[i].st = "frozen"
          /\ ~Active(gc) /\ cq = <<>> /\ gq = <<>> /\ cpt = "off" /\ out = <<>>
    /\ pbq \in {"boot", "down"} => dq = <<>> /\ ~Active(data)
    /\ pbq = "read" => Active(data)
    /\ pbq = "drain" => dq = <<>> /\ (Active(data) => Last(data).es = <<>>)
    /\ cpt = "snap" => pbq = "boot"

\* Where a pass is; the one at boot leaves no data segment behind.
Pass ==
    /\ cpt = "cmp" => /\ files \in 0..(Len(cmp) - 1)
                      /\ files > 0 => pos <= Len(cmp[1].es)
    /\ cpt = "data" => /\ files \in 0..Len(data)
                       /\ \A i \in 1..files : data[i].st # "active"
                       /\ Listed(data) # {} => pos <= Len(data[First(data)].es)
                       /\ pbq = "boot" => \A i \in Frozen(data) : i <= files
    /\ pbq = "boot" /\ cpt \in {"delete", "wait"} => Frozen(data) = {}
    /\ pbq = "boot" /\ cpt = "off" => faulty

Struct == Types /\ Shape /\ Pass

(***************************************************************************)
(* Sequences, and the least and the largest of a set.                      *)
(***************************************************************************)

\* A set of naturals has a least member.
LEMMA LeastNatural ==
    ASSUME NEW T, T \subseteq Nat, T # {}
    PROVE  \E i \in T : \A j \in T : i <= j
<1>1. PICK x \in T : \A y \in T : ~(<<y, x>> \in OpToRel(<, Nat))
  BY WFMin, NatLessThanWellFounded, Zenon
<1>2. \A y \in T : ~(y < x)
  BY <1>1 DEF OpToRel
<1>3. QED
  BY <1>2

\* The range of a sequence.
LEMMA SeqRange ==
    ASSUME NEW S, NEW s \in Seq(S)
    PROVE  /\ Range(s) = {s[i] : i \in 1..Len(s)} /\ Range(s) \subseteq S
           /\ DOMAIN s = 1..Len(s) /\ Len(s) \in Nat
           /\ \A x : x \in Range(s) <=> \E i \in 1..Len(s) : x = s[i]
<1>1. DOMAIN s = 1..Len(s) /\ Len(s) \in Nat /\ \A i \in 1..Len(s) : s[i] \in S
  OBVIOUS
<1>2. QED
  BY <1>1 DEF Range

\* What the range of a sequence gains at its end, and loses at its head.
LEMMA RangeAppend ==
    ASSUME NEW S, NEW s \in Seq(S), NEW x \in S
    PROVE  Range(Append(s, x)) = Range(s) \cup {x}
<1> DEFINE t == Append(s, x)
<1>1. t \in Seq(S) /\ Len(t) = Len(s) + 1 /\ Len(s) \in Nat
  OBVIOUS
<1>2. /\ \A i \in 1..Len(s) : t[i] = s[i]
      /\ t[Len(s) + 1] = x
  OBVIOUS
<1> HIDE DEF t
<1>3. /\ \A y : y \in Range(t) <=> \E i \in 1..Len(t) : y = t[i]
      /\ \A y : y \in Range(s) <=> \E i \in 1..Len(s) : y = s[i]
  BY <1>1, SeqRange
<1>4. \A i \in 1..Len(t) : i \in 1..Len(s) \/ i = Len(s) + 1
  BY <1>1
<1>5. 1..Len(s) \subseteq 1..Len(t) /\ Len(s) + 1 \in 1..Len(t)
  BY <1>1
<1>6. Range(t) \subseteq Range(s) \cup {x}
  BY <1>2, <1>3, <1>4
<1>7. Range(s) \cup {x} \subseteq Range(t)
  BY <1>2, <1>3, <1>5
<1>8. QED
  BY <1>6, <1>7 DEF t

\* The head and the tail of a sequence.
LEMMA SeqTail ==
    ASSUME NEW S, NEW s \in Seq(S), s # <<>>
    PROVE  /\ Head(s) \in S /\ Tail(s) \in Seq(S)
           /\ Len(s) \in Nat /\ Len(s) >= 1 /\ Len(Tail(s)) = Len(s) - 1
           /\ DOMAIN s = 1..Len(s) /\ DOMAIN Tail(s) = 1..(Len(s) - 1)
           /\ Head(s) = s[1] /\ \A i \in 1..(Len(s) - 1) : Tail(s)[i] = s[i + 1]
           /\ Range(s) = {Head(s)} \cup Range(Tail(s))
<1>1. PICK n \in Nat : n = Len(s) /\ n >= 1
  OBVIOUS
<1>2. DOMAIN s = 1..n /\ \A i \in 1..n : s[i] \in S
  BY <1>1
<1>3. Head(s) = s[1] /\ 1 \in 1..n
  BY <1>1
<1>4. PICK t : t = Tail(s)
  OBVIOUS
<1>5. t \in Seq(S) /\ Len(t) = n - 1 /\ DOMAIN t = 1..(n - 1)
  BY <1>1, <1>4
<1>6. \A i \in 1..(n - 1) : t[i] = s[i + 1]
  BY <1>1, <1>4
<1>7. \A i \in 1..n : i = 1 \/ (i - 1 \in 1..(n - 1) /\ i = (i - 1) + 1)
  BY <1>1
<1>8. \A i \in 1..(n - 1) : i + 1 \in 1..n
  BY <1>1
<1>9. Range(s) \subseteq {s[1]} \cup Range(t)
  <2>1. \A i \in 1..n : s[i] = s[1] \/ \E j \in 1..(n - 1) : s[i] = t[j]
    BY <1>6, <1>7
  <2>2. QED
    BY <1>2, <1>5, <2>1 DEF Range
<1>10. {s[1]} \cup Range(t) \subseteq Range(s)
  BY <1>2, <1>3, <1>5, <1>6, <1>8 DEF Range
<1>11. QED
  BY <1>1, <1>2, <1>3, <1>4, <1>5, <1>6, <1>9, <1>10

\* Min of a set of naturals, and Max of a bounded one.
LEMMA MinIs ==
    ASSUME NEW S, S \subseteq Nat, S # {}
    PROVE  Min(S) \in S /\ \A y \in S : Min(S) <= y
<1>1. \E x \in S : \A y \in S : x <= y
  BY LeastNatural
<1>2. QED
  BY <1>1 DEF Min

LEMMA MaxIs ==
    ASSUME NEW n \in Nat, NEW S, S \subseteq 0..n, S # {}
    PROVE  Max(S) \in S /\ \A y \in S : y <= Max(S)
<1> DEFINE T == {n - x : x \in S}
<1>1. T \subseteq Nat /\ T # {}
  <2>1. \A x \in S : n - x \in Nat
    OBVIOUS
  <2>2. PICK x \in S : TRUE
    OBVIOUS
  <2>3. n - x \in T
    BY <2>2
  <2>4. QED
    BY <2>1, <2>3
<1>2. PICK t \in T : \A u \in T : t <= u
  <2> HIDE DEF T
  <2>1. QED
    BY <1>1, LeastNatural
<1>3. PICK x \in S : t = n - x
  OBVIOUS
<1>4. \A y \in S : x >= y
  <2> TAKE y \in S
  <2>1. n - y \in T
    OBVIOUS
  <2>2. n - x <= n - y /\ x \in Nat /\ y \in Nat
    BY <1>2, <1>3, <2>1
  <2>3. QED
    BY <2>2
<1>5. QED
  BY <1>4 DEF Max

(***************************************************************************)
(* What the operations do to a sequence of segments.                       *)
(***************************************************************************)

LEMMA SegIs ==
    ASSUME NEW E, NEW segs \in Seq(Segment(E))
    PROVE  /\ Len(segs) \in Nat /\ DOMAIN segs = 1..Len(segs)
           /\ segs # <<>> <=> Len(segs) > 0
           /\ \A i \in 1..Len(segs) : /\ segs[i] \in Segment(E)
                                      /\ segs[i].es \in Seq(E) /\ segs[i].st \in States
                                      /\ segs[i].ts \in 0..MaxClock
                                      /\ Len(segs[i].es) \in Nat
                                      /\ DOMAIN segs[i].es = 1..Len(segs[i].es)
           /\ Active(segs) <=> Len(segs) > 0 /\ segs[Len(segs)].st = "active"
           /\ NonEmpty(segs) <=> /\ Len(segs) > 0 /\ segs[Len(segs)].st = "active"
                                 /\ segs[Len(segs)].es # <<>>
<1>1. /\ Len(segs) \in Nat /\ DOMAIN segs = 1..Len(segs)
      /\ segs # <<>> <=> Len(segs) > 0
  OBVIOUS
<1>2. \A i \in 1..Len(segs) : segs[i] \in Segment(E)
  BY <1>1
<1>3. \A f \in Segment(E) : /\ f.es \in Seq(E) /\ f.st \in States /\ f.ts \in 0..MaxClock
                             /\ Len(f.es) \in Nat /\ DOMAIN f.es = 1..Len(f.es)
  BY DEF Segment
<1>4. QED
  BY <1>1, <1>2, <1>3 DEF Active, NonEmpty, Last

\* A sequence with another value at n.
LEMMA ReplaceIs ==
    ASSUME NEW S, NEW s \in Seq(S), NEW n \in 1..Len(s), NEW f \in S
    PROVE  /\ [s EXCEPT ![n] = f] \in Seq(S) /\ Len([s EXCEPT ![n] = f]) = Len(s)
           /\ [s EXCEPT ![n] = f][n] = f
           /\ \A i \in 1..Len(s) : i # n => [s EXCEPT ![n] = f][i] = s[i]
  OBVIOUS

\* Put, Freeze, Leave change the last segment only.
LEMMA PutIs ==
    ASSUME NEW E, NEW segs \in Seq(Segment(E)), segs # <<>>, NEW e \in E
    PROVE  /\ Put(segs, e) \in Seq(Segment(E))
           /\ Len(Put(segs, e)) = Len(segs)
           /\ \A i \in 1..Len(segs) : i # Len(segs) => Put(segs, e)[i] = segs[i]
           /\ Put(segs, e)[Len(segs)].es = Append(segs[Len(segs)].es, e)
           /\ Put(segs, e)[Len(segs)].st = segs[Len(segs)].st
           /\ Put(segs, e)[Len(segs)].ts = segs[Len(segs)].ts
<1> DEFINE n == Len(segs)
<1>1. n \in Nat /\ n \in 1..n /\ DOMAIN segs = 1..n /\ segs[n] \in Segment(E) /\ segs[n].es \in Seq(E)
  BY SegIs
<1>2. PICK g \in Segment(E) : g = segs[n] /\ g.es \in Seq(E)
  BY <1>1
<1>3. PICK x \in Seq(E) : x = Append(g.es, e)
  <2>1. \A y \in Seq(E) : Append(y, e) \in Seq(E)
    OBVIOUS
  <2>2. QED
    BY <1>2, <2>1, Zenon
<1> DEFINE f == [g EXCEPT !.es = x]
           t == [segs EXCEPT ![n] = f]
<1>4. f \in Segment(E) /\ f.es = x /\ f.st = g.st /\ f.ts = g.ts
  BY <1>2, <1>3 DEF Segment, States
<1>5. Put(segs, e) = t
  BY <1>1, <1>2, <1>3 DEF Put
<1>6. t \in Seq(Segment(E)) /\ Len(t) = n /\ t[n] = f /\ \A i \in 1..n : i # n => t[i] = segs[i]
  <2> HIDE DEF f
  <2>1. f \in Segment(E) /\ n \in 1..Len(segs)
    BY <1>1, <1>4 DEF n
  <2>2. QED
    BY <2>1, ReplaceIs DEF n
<1>7. QED
  BY <1>2, <1>3, <1>4, <1>5, <1>6

LEMMA FreezeIs ==
    ASSUME NEW E, NEW segs \in Seq(Segment(E)), NonEmpty(segs)
    PROVE  /\ Freeze(segs) \in Seq(Segment(E))
           /\ Len(Freeze(segs)) = Len(segs)
           /\ \A i \in 1..Len(segs) : /\ i # Len(segs) => Freeze(segs)[i] = segs[i]
                                      /\ Freeze(segs)[i].es = segs[i].es
                                      /\ Freeze(segs)[i].ts = segs[i].ts
           /\ Freeze(segs)[Len(segs)].st = "frozen"
<1> DEFINE n == Len(segs)
<1>1. n \in Nat /\ n \in 1..n /\ DOMAIN segs = 1..n /\ segs[n] \in Segment(E) /\ segs[n].es \in Seq(E)
  BY SegIs
<1>2. PICK g \in Segment(E) : g = segs[n] /\ g.es \in Seq(E)
  BY <1>1
<1>3. PICK x \in States : x = "frozen"
  BY DEF States
<1> DEFINE f == [g EXCEPT !.st = x]
           t == [segs EXCEPT ![n] = f]
<1>4. f \in Segment(E) /\ f.es = g.es /\ f.st = x /\ f.ts = g.ts
  BY <1>2, <1>3 DEF Segment, States
<1>5. Freeze(segs) = t
  BY <1>1, <1>2, <1>3 DEF Freeze
<1>6. t \in Seq(Segment(E)) /\ Len(t) = n /\ t[n] = f /\ \A i \in 1..n : i # n => t[i] = segs[i]
  <2> HIDE DEF f
  <2>1. f \in Segment(E) /\ n \in 1..Len(segs)
    BY <1>1, <1>4 DEF n
  <2>2. QED
    BY <2>1, ReplaceIs DEF n
<1>7. QED
  BY <1>2, <1>3, <1>4, <1>5, <1>6

LEMMA OpenIs ==
    ASSUME NEW E, NEW segs \in Seq(Segment(E)), NEW t \in 0..MaxClock
    PROVE  /\ Open(segs, t) \in Seq(Segment(E))
           /\ Len(Open(segs, t)) = Len(segs) + 1
           /\ \A i \in 1..Len(segs) : Open(segs, t)[i] = segs[i]
           /\ Open(segs, t)[Len(segs) + 1].es = <<>>
           /\ Open(segs, t)[Len(segs) + 1].ts = t
           /\ Open(segs, t)[Len(segs) + 1].st = "active"
<1> DEFINE f == [ts |-> t, es |-> <<>>, st |-> "active"]
<1>1. f \in Segment(E) /\ f.es = <<>> /\ f.ts = t /\ f.st = "active"
  BY DEF Segment, States
<1>2. Open(segs, t) = Append(segs, f)
  BY DEF Open
<1>3. QED
  <2> HIDE DEF f
  <2>1. QED
    BY <1>1, <1>2

LEMMA LeaveIs ==
    ASSUME NEW E, NEW segs \in Seq(Segment(E)), Active(segs)
    PROVE  /\ Leave(segs) \in Seq(Segment(E))
           /\ Len(Leave(segs)) = Len(segs)
           /\ \A i \in 1..Len(segs) : /\ i # Len(segs) => Leave(segs)[i] = segs[i]
                                      /\ Leave(segs)[i].ts = segs[i].ts
           /\ Leave(segs)[Len(segs)].st = "left" /\ Leave(segs)[Len(segs)].es = <<>>
<1> DEFINE n == Len(segs)
<1>1. n \in Nat /\ n \in 1..n /\ DOMAIN segs = 1..n /\ segs[n] \in Segment(E) /\ segs[n].es \in Seq(E)
  BY SegIs
<1>2. PICK g \in Segment(E) : g = segs[n] /\ g.es \in Seq(E)
  BY <1>1
<1>3. PICK x \in Seq(E) : x = <<>>
  <2>1. <<>> \in Seq(E)
    OBVIOUS
  <2>2. QED
    BY <2>1, Zenon
<1> DEFINE f == [g EXCEPT !.st = "left", !.es = x]
           t == [segs EXCEPT ![n] = f]
<1>4. f \in Segment(E) /\ f.es = x /\ f.st = "left" /\ f.ts = g.ts
  BY <1>2, <1>3 DEF Segment, States
<1>5. Leave(segs) = t
  BY <1>1, <1>2, <1>3 DEF Leave
<1>6. t \in Seq(Segment(E)) /\ Len(t) = n /\ t[n] = f /\ \A i \in 1..n : i # n => t[i] = segs[i]
  <2> HIDE DEF f
  <2>1. f \in Segment(E) /\ n \in 1..Len(segs)
    BY <1>1, <1>4 DEF n
  <2>2. QED
    BY <2>1, ReplaceIs DEF n
<1>7. QED
  BY <1>2, <1>3, <1>4, <1>5, <1>6

LEMMA ForgetIs ==
    ASSUME NEW E, NEW segs \in Seq(Segment(E)), Active(segs)
    PROVE  /\ Forget(segs) \in Seq(Segment(E))
           /\ Len(Forget(segs)) = Len(segs) - 1
           /\ \A i \in 1..(Len(segs) - 1) : Forget(segs)[i] = segs[i]
<1>1. Len(segs) \in Nat /\ Len(segs) > 0
  BY SegIs
<1>2. Forget(segs) = SubSeq(segs, 1, Len(segs) - 1)
  BY DEF Forget, Front
<1>3. PICK n \in Nat : n = Len(segs) - 1
  BY <1>1
<1>4. SubSeq(segs, 1, n) \in Seq(Segment(E)) /\ Len(SubSeq(segs, 1, n)) = n
  <2>1. \A i \in 1..n : segs[i] \in Segment(E)
    BY <1>1, <1>3, SegIs
  <2>2. QED
    BY <1>1, <1>3, <2>1
<1>5. \A i \in 1..n : SubSeq(segs, 1, n)[i] = segs[i]
  BY <1>1, <1>3
<1>6. QED
  BY <1>2, <1>3, <1>4, <1>5

LEMMA RemoveIs ==
    ASSUME NEW E, NEW segs \in Seq(E), NEW r \in 1..Len(segs)
    PROVE  /\ RemoveAt(segs, r) \in Seq(E)
           /\ Len(RemoveAt(segs, r)) = Len(segs) - 1
           /\ \A i \in 1..(Len(segs) - 1) : /\ i < r => RemoveAt(segs, r)[i] = segs[i]
                                            /\ i >= r => RemoveAt(segs, r)[i] = segs[i + 1]
<1> DEFINE n == Len(segs)
           a == SubSeq(segs, 1, r - 1)
           b == SubSeq(segs, r + 1, n)
<1>1. n \in Nat /\ r \in Nat /\ r >= 1 /\ r <= n
  OBVIOUS
<1>2. a \in Seq(E) /\ Len(a) = r - 1 /\ \A i \in 1..(r - 1) : a[i] = segs[i]
  BY <1>1
<1>3. b \in Seq(E) /\ Len(b) = n - r /\ \A i \in 1..(n - r) : b[i] = segs[i + r]
  BY <1>1
<1>4. RemoveAt(segs, r) = a \o b
  BY DEF RemoveAt
<1> HIDE DEF n, a, b
<1>5. a \o b \in Seq(E) /\ Len(a \o b) = n - 1
  <2>1. a \o b \in Seq(E)
    BY <1>2, <1>3, ConcatProperties
  <2>2. Len(a \o b) = Len(a) + Len(b)
    BY <1>2, <1>3, ConcatProperties
  <2>3. QED
    BY <1>1, <1>2, <1>3, <2>1, <2>2
<1>6. \A i \in 1..(n - 1) : i < r => (a \o b)[i] = segs[i]
  BY <1>1, <1>2, <1>3
<1>7. \A i \in 1..(n - 1) : i >= r => (a \o b)[i] = segs[i + 1]
  <2> SUFFICES ASSUME NEW i \in 1..(n - 1), i >= r PROVE (a \o b)[i] = segs[i + 1]
    OBVIOUS
  <2>1. (a \o b)[i] = b[i - (r - 1)]
    BY <1>1, <1>2, <1>3
  <2>2. i - (r - 1) \in 1..(n - r) /\ (i - (r - 1)) + r = i + 1
    BY <1>1
  <2>3. QED
    BY <1>3, <2>1, <2>2
<1>8. QED
  BY <1>4, <1>5, <1>6, <1>7 DEF n

(***************************************************************************)
(* The same in the form the invariants use: s before, t after, n = Len(s). *)
(***************************************************************************)

\* s is a sequence of n segments.
Segs(E, s, n) ==
    /\ n \in Nat /\ s \in Seq(Segment(E)) /\ Len(s) = n /\ DOMAIN s = 1..n
    /\ \A i \in 1..n : s[i] \in Segment(E)

LEMMA SegsIs ==
    ASSUME NEW E, NEW s \in Seq(Segment(E))
    PROVE  \E n \in Nat : Segs(E, s, n)
<1>1. PICK n \in Nat : n = Len(s)
  BY SegIs
<1>2. QED
  BY <1>1, SegIs DEF Segs

\* What the members of a sequence of segments are.
LEMMA SegsHas ==
    ASSUME NEW E, NEW s, NEW n, Segs(E, s, n)
    PROVE  /\ n \in Nat
           /\ \A i \in 1..n : /\ s[i].es \in Seq(E) /\ s[i].st \in States /\ s[i].ts \in 0..MaxClock
                              /\ Len(s[i].es) \in Nat /\ DOMAIN s[i].es = 1..Len(s[i].es)
           /\ s = <<>> <=> n = 0
           /\ Active(s) <=> n > 0 /\ s[n].st = "active"
           /\ NonEmpty(s) <=> n > 0 /\ s[n].st = "active" /\ s[n].es # <<>>
<1>1. n \in Nat /\ s \in Seq(Segment(E)) /\ Len(s) = n
  BY DEF Segs
<1>2. QED
  BY <1>1, SegIs

\* What each operation does.
Puts(E, s, t, n, e) ==
    /\ n \in Nat /\ n > 0 /\ Segs(E, t, n)
    /\ \A i \in 1..(n - 1) : t[i] = s[i]
    /\ s[n].st = "active" /\ t[n].st = "active" /\ t[n].ts = s[n].ts
    /\ \E x \in Seq(E) : s[n].es = x /\ t[n].es = Append(x, e)
Freezes(E, s, t, n) ==
    /\ n \in Nat /\ n > 0 /\ Segs(E, t, n)
    /\ \A i \in 1..(n - 1) : t[i] = s[i]
    /\ s[n].st = "active" /\ t[n].st = "frozen"
    /\ \A i \in 1..n : t[i].es = s[i].es /\ t[i].ts = s[i].ts
Opens(E, s, t, n, c) ==
    /\ n \in Nat /\ Segs(E, t, n + 1)
    /\ \A i \in 1..n : t[i] = s[i]
    /\ t[n + 1].st = "active" /\ t[n + 1].es = <<>> /\ t[n + 1].ts = c
Rotates(E, s, t, n, c) ==
    /\ n \in Nat /\ n > 0 /\ Segs(E, t, n + 1)
    /\ \A i \in 1..(n - 1) : t[i] = s[i]
    /\ s[n].st = "active" /\ t[n].st = "frozen"
    /\ \A i \in 1..n : t[i].es = s[i].es /\ t[i].ts = s[i].ts
    /\ t[n + 1].st = "active" /\ t[n + 1].es = <<>> /\ t[n + 1].ts = c
Leaves(E, s, t, n) ==
    /\ n \in Nat /\ n > 0 /\ Segs(E, t, n)
    /\ \A i \in 1..(n - 1) : t[i] = s[i]
    /\ s[n].st = "active" /\ t[n].st = "left" /\ t[n].es = <<>>
    /\ \A i \in 1..n : t[i].ts = s[i].ts
Forgets(E, s, t, n) ==
    /\ n \in Nat /\ n > 0 /\ Segs(E, t, n - 1)
    /\ \A i \in 1..(n - 1) : t[i] = s[i]
Removes(E, s, t, n, r) ==
    /\ n \in Nat /\ r \in 1..n /\ Segs(E, t, n - 1)
    /\ \A i \in 1..(n - 1) : /\ i < r => t[i] = s[i]
                             /\ i >= r => t[i] = s[i + 1]

LEMMA PutMoves ==
    ASSUME NEW E, NEW s, NEW n, Segs(E, s, n), Active(s), NEW e \in E
    PROVE  Puts(E, s, Put(s, e), n, e)
<1>1. n \in Nat /\ n > 0 /\ s[n].st = "active" /\ s[n].es \in Seq(E) /\ s # <<>>
  BY SegsHas
<1>2. s \in Seq(Segment(E)) /\ Len(s) = n
  BY DEF Segs
<1>3. PICK t : t = Put(s, e)
  OBVIOUS
<1>4. t \in Seq(Segment(E)) /\ Len(t) = n /\ (\A i \in 1..n : i # n => t[i] = s[i])
  BY <1>1, <1>2, <1>3, PutIs
<1>5. t[n].es = Append(s[n].es, e) /\ t[n].st = "active" /\ t[n].ts = s[n].ts
  BY <1>1, <1>2, <1>3, PutIs
<1>6. Segs(E, t, n)
  BY <1>1, <1>4 DEF Segs
<1>7. QED
  BY <1>1, <1>3, <1>4, <1>5, <1>6 DEF Puts

LEMMA FreezeMoves ==
    ASSUME NEW E, NEW s, NEW n, Segs(E, s, n), NonEmpty(s)
    PROVE  Freezes(E, s, Freeze(s), n)
<1>1. n \in Nat /\ n > 0 /\ s[n].st = "active" /\ s # <<>>
  BY SegsHas
<1>2. s \in Seq(Segment(E)) /\ Len(s) = n
  BY DEF Segs
<1>3. PICK t : t = Freeze(s)
  OBVIOUS
<1>4. t \in Seq(Segment(E)) /\ Len(t) = n /\ (\A i \in 1..n : i # n => t[i] = s[i])
  BY <1>1, <1>2, <1>3, FreezeIs
<1>5. t[n].st = "frozen" /\ \A i \in 1..n : t[i].es = s[i].es /\ t[i].ts = s[i].ts
  BY <1>1, <1>2, <1>3, FreezeIs
<1>6. Segs(E, t, n)
  BY <1>1, <1>4 DEF Segs
<1>7. QED
  BY <1>1, <1>3, <1>4, <1>5, <1>6 DEF Freezes

LEMMA OpenMoves ==
    ASSUME NEW E, NEW s, NEW n, Segs(E, s, n), NEW c \in 0..MaxClock
    PROVE  Opens(E, s, Open(s, c), n, c)
<1>2. s \in Seq(Segment(E)) /\ Len(s) = n /\ n \in Nat
  BY DEF Segs
<1>3. PICK t : t = Open(s, c)
  OBVIOUS
<1>4. t \in Seq(Segment(E)) /\ Len(t) = n + 1 /\ (\A i \in 1..n : t[i] = s[i])
  BY <1>2, <1>3, OpenIs
<1>5. t[n + 1].st = "active" /\ t[n + 1].es = <<>> /\ t[n + 1].ts = c
  BY <1>2, <1>3, OpenIs
<1>6. Segs(E, t, n + 1)
  BY <1>2, <1>4 DEF Segs
<1>7. QED
  BY <1>2, <1>3, <1>4, <1>5, <1>6 DEF Opens

LEMMA RotateMoves ==
    ASSUME NEW E, NEW s, NEW n, Segs(E, s, n), NonEmpty(s), NEW c \in 0..MaxClock
    PROVE  Rotates(E, s, Open(Freeze(s), c), n, c)
<1>1. PICK f : f = Freeze(s)
  OBVIOUS
<1>2. Freezes(E, s, f, n)
  BY <1>1, FreezeMoves
<1>3. PICK t : t = Open(f, c)
  OBVIOUS
<1>4. Segs(E, f, n)
  BY <1>2 DEF Freezes
<1>5. Opens(E, f, t, n, c)
  BY <1>3, <1>4, OpenMoves
<1>6. n \in Nat /\ n > 0 /\ (\A i \in 1..(n - 1) : i \in 1..n) /\ n \in 1..n
  BY <1>2 DEF Freezes
<1>7. QED
  BY <1>1, <1>2, <1>3, <1>5, <1>6 DEF Freezes, Opens, Rotates

LEMMA LeaveMoves ==
    ASSUME NEW E, NEW s, NEW n, Segs(E, s, n), Active(s)
    PROVE  Leaves(E, s, Leave(s), n)
<1>1. n \in Nat /\ n > 0 /\ s[n].st = "active" /\ s # <<>>
  BY SegsHas
<1>2. s \in Seq(Segment(E)) /\ Len(s) = n
  BY DEF Segs
<1>3. PICK t : t = Leave(s)
  OBVIOUS
<1>4. t \in Seq(Segment(E)) /\ Len(t) = n /\ (\A i \in 1..n : i # n => t[i] = s[i])
  BY <1>1, <1>2, <1>3, LeaveIs
<1>5. t[n].st = "left" /\ t[n].es = <<>> /\ \A i \in 1..n : t[i].ts = s[i].ts
  BY <1>1, <1>2, <1>3, LeaveIs
<1>6. Segs(E, t, n)
  BY <1>1, <1>4 DEF Segs
<1>7. QED
  BY <1>1, <1>3, <1>4, <1>5, <1>6 DEF Leaves

LEMMA ForgetMoves ==
    ASSUME NEW E, NEW s, NEW n, Segs(E, s, n), Active(s)
    PROVE  Forgets(E, s, Forget(s), n)
<1>1. n \in Nat /\ n > 0 /\ n - 1 \in Nat
  BY SegsHas
<1>2. s \in Seq(Segment(E)) /\ Len(s) = n
  BY DEF Segs
<1>3. PICK t : t = Forget(s)
  OBVIOUS
<1>4. t \in Seq(Segment(E)) /\ Len(t) = n - 1 /\ (\A i \in 1..(n - 1) : t[i] = s[i])
  BY <1>1, <1>2, <1>3, ForgetIs
<1>6. Segs(E, t, n - 1)
  BY <1>1, <1>4 DEF Segs
<1>7. QED
  BY <1>1, <1>3, <1>4, <1>6 DEF Forgets

LEMMA RemoveMoves ==
    ASSUME NEW E, NEW s, NEW n, Segs(E, s, n), NEW r \in 1..n
    PROVE  Removes(E, s, RemoveAt(s, r), n, r)
<1>2. s \in Seq(Segment(E)) /\ Len(s) = n /\ n \in Nat /\ n - 1 \in Nat
  BY DEF Segs
<1>3. PICK t : t = RemoveAt(s, r)
  OBVIOUS
<1>4. t \in Seq(Segment(E)) /\ Len(t) = n - 1
  BY <1>2, <1>3, RemoveIs
<1>5. \A i \in 1..(n - 1) : (i < r => t[i] = s[i]) /\ (i >= r => t[i] = s[i + 1])
  BY <1>2, <1>3, RemoveIs
<1>6. Segs(E, t, n - 1)
  BY <1>2, <1>4 DEF Segs
<1>7. QED
  BY <1>2, <1>3, <1>5, <1>6 DEF Removes

\* The moves keep the last segment the only active one.
LEMMA PutKeeps ==
    ASSUME NEW E, NEW s, NEW t, NEW n, NEW e, Segs(E, s, n), OneActive(s), Puts(E, s, t, n, e)
    PROVE  t \in Seq(Segment(E)) /\ OneActive(t)
<1>1. Segs(E, t, n) /\ n \in Nat /\ n > 0
  BY DEF Puts
<1>2. \A i \in 1..n : t[i].st = "active" => i = n
  <2>1. \A i \in 1..n : i = n \/ i \in 1..(n - 1)
    BY <1>1
  <2>2. \A i \in 1..n : s[i].st = "active" => i = n
    BY DEF Segs, OneActive
  <2>3. QED
    BY <2>1, <2>2 DEF Puts
<1>3. QED
  BY <1>1, <1>2 DEF Segs, OneActive

LEMMA FreezeKeeps ==
    ASSUME NEW E, NEW s, NEW t, NEW n, Segs(E, s, n), OneActive(s), Freezes(E, s, t, n)
    PROVE  t \in Seq(Segment(E)) /\ OneActive(t) /\ \A i \in 1..n : t[i].st # "active"
<1>1. Segs(E, t, n) /\ n \in Nat /\ n > 0
  BY DEF Freezes
<1>2. \A i \in 1..n : t[i].st # "active"
  <2>1. \A i \in 1..n : i = n \/ (i \in 1..(n - 1) /\ i # n)
    BY <1>1
  <2>2. \A i \in 1..n : s[i].st = "active" => i = n
    BY DEF Segs, OneActive
  <2>3. QED
    BY <2>1, <2>2 DEF Freezes
<1>3. QED
  BY <1>1, <1>2 DEF Segs, OneActive

LEMMA OpenKeeps ==
    ASSUME NEW E, NEW s, NEW t, NEW n, NEW c, Segs(E, s, n), OneActive(s), ~Active(s), Opens(E, s, t, n, c)
    PROVE  /\ t \in Seq(Segment(E)) /\ OneActive(t) /\ Active(t)
           /\ \A i \in 1..n : s[i].st # "active"
<1>1. Segs(E, t, n + 1) /\ n \in Nat
  BY DEF Opens
<1>2. \A i \in 1..n : s[i].st # "active"
  <2>1. n > 0 => s[n].st # "active"
    BY <1>1, SegsHas
  <2>2. \A i \in 1..n : s[i].st = "active" => i = n
    BY DEF Segs, OneActive
  <2>3. QED
    BY <1>1, <2>1, <2>2
<1>3. \A i \in 1..(n + 1) : t[i].st = "active" => i = n + 1
  <2>1. \A i \in 1..(n + 1) : i = n + 1 \/ i \in 1..n
    BY <1>1
  <2>2. QED
    BY <1>2, <2>1 DEF Opens
<1>4. n + 1 > 0 /\ t[n + 1].st = "active"
  BY <1>1 DEF Opens
<1>5. Active(t)
  BY <1>1, <1>4, SegsHas
<1>6. QED
  BY <1>1, <1>2, <1>3, <1>5 DEF Segs, OneActive

LEMMA RotateKeeps ==
    ASSUME NEW E, NEW s, NEW t, NEW n, NEW c, Segs(E, s, n), OneActive(s), Rotates(E, s, t, n, c)
    PROVE  t \in Seq(Segment(E)) /\ OneActive(t) /\ Active(t)
<1>1. Segs(E, t, n + 1) /\ n \in Nat
  BY DEF Rotates
<1>2. \A i \in 1..(n + 1) : t[i].st = "active" => i = n + 1
  <2>1. \A i \in 1..(n + 1) : i = n + 1 \/ i = n \/ (i \in 1..(n - 1) /\ i # n /\ i \in 1..n)
    BY <1>1
  <2>2. \A i \in 1..n : s[i].st = "active" => i = n
    BY DEF Segs, OneActive
  <2>3. QED
    BY <2>1, <2>2 DEF Rotates
<1>3. n + 1 > 0 /\ t[n + 1].st = "active"
  BY <1>1 DEF Rotates
<1>4. Active(t)
  BY <1>1, <1>3, SegsHas
<1>5. QED
  BY <1>1, <1>2, <1>4 DEF Segs, OneActive

LEMMA LeaveKeeps ==
    ASSUME NEW E, NEW s, NEW t, NEW n, Segs(E, s, n), OneActive(s), Leaves(E, s, t, n)
    PROVE  t \in Seq(Segment(E)) /\ OneActive(t) /\ ~Active(t)
<1>1. Segs(E, t, n) /\ n \in Nat /\ n > 0
  BY DEF Leaves
<1>2. \A i \in 1..n : t[i].st # "active"
  <2>1. \A i \in 1..n : i = n \/ (i \in 1..(n - 1) /\ i # n)
    BY <1>1
  <2>2. \A i \in 1..n : s[i].st = "active" => i = n
    BY DEF Segs, OneActive
  <2>3. QED
    BY <2>1, <2>2 DEF Leaves
<1>3. n \in 1..n
  BY <1>1
<1>4. ~Active(t)
  BY <1>1, <1>2, <1>3, SegsHas
<1>5. QED
  BY <1>1, <1>2, <1>4 DEF Segs, OneActive

LEMMA RemoveKeeps ==
    ASSUME NEW E, NEW s, NEW t, NEW n, NEW r, Segs(E, s, n), OneActive(s), Removes(E, s, t, n, r)
    PROVE  /\ t \in Seq(Segment(E)) /\ OneActive(t)
           /\ s[r].st # "active" => (Active(t) <=> Active(s))
<1>1. Segs(E, t, n - 1) /\ n \in Nat /\ r \in 1..n /\ n > 0 /\ n - 1 \in Nat
  BY DEF Removes
<1>2. \A i \in 1..n : s[i].st = "active" => i = n
  BY DEF Segs, OneActive
<1>3. \A i \in 1..(n - 1) : t[i].st = "active" => i = n - 1
  <2> TAKE i \in 1..(n - 1)
  <2>1. i \in 1..n /\ i + 1 \in 1..n /\ i # n
    BY <1>1
  <2>2. t[i] = s[i] \/ t[i] = s[i + 1]
    BY <1>1, <2>1 DEF Removes
  <2>3. QED
    BY <1>1, <1>2, <2>1, <2>2
<1>4. ASSUME s[r].st # "active" PROVE Active(t) <=> Active(s)
  <2>1. CASE r = n
    <3>1. ~Active(s)
      BY <1>1, <1>4, <2>1, SegsHas
    <3>2. \A i \in 1..(n - 1) : t[i] = s[i] /\ i \in 1..n /\ i # n
      BY <1>1, <2>1 DEF Removes
    <3>3. n - 1 > 0 => n - 1 \in 1..(n - 1)
      BY <1>1
    <3>4. n - 1 > 0 => t[n - 1].st # "active"
      BY <1>2, <3>2, <3>3
    <3>5. ~Active(t)
      BY <1>1, <3>4, SegsHas
    <3>6. QED
      BY <3>1, <3>5
  <2>2. CASE r < n
    <3>1. n - 1 > 0 /\ n - 1 \in 1..(n - 1) /\ n - 1 >= r /\ (n - 1) + 1 = n
      BY <1>1, <2>2
    <3>2. t[n - 1] = s[n]
      BY <3>1 DEF Removes
    <3>3. (Active(t) <=> t[n - 1].st = "active") /\ (Active(s) <=> s[n].st = "active")
      BY <1>1, <3>1, SegsHas
    <3>4. QED
      BY <3>2, <3>3
  <2>3. QED
    BY <1>1, <2>1, <2>2
<1>5. QED
  BY <1>1, <1>3, <1>4 DEF Segs, OneActive

\* The segment a pass is at.
LEMMA FirstIs ==
    ASSUME NEW E, NEW s, NEW n, Segs(E, s, n), Listed(s) # {}
    PROVE  /\ First(s) \in 1..n /\ s[First(s)].st = "frozen" /\ First(s) <= files
           /\ \A i \in Listed(s) : First(s) <= i
<1>1. Listed(s) \subseteq 1..n /\ 1..n \subseteq Nat
  BY DEF Listed, Frozen, Segs
<1>2. Listed(s) \subseteq Nat
  BY <1>1
<1>3. First(s) \in Listed(s) /\ \A i \in Listed(s) : First(s) <= i
  BY <1>2, MinIs DEF First
<1>4. QED
  BY <1>1, <1>3 DEF Listed, Frozen

\* What a pass lists.
LEMMA LastFrozenIs ==
    ASSUME NEW E, NEW s, NEW n, Segs(E, s, n)
    PROVE  /\ LastFrozen(s) \in 0..n /\ \A i \in Frozen(s) : i <= LastFrozen(s)
           /\ LastFrozen(s) > 0 => s[LastFrozen(s)].st = "frozen"
<1>1. Frozen(s) \subseteq 1..n /\ n \in Nat /\ 1..n \subseteq 0..n
  BY DEF Frozen, Segs
<1>2. CASE Frozen(s) = {}
  BY <1>1, <1>2 DEF LastFrozen
<1>3. CASE Frozen(s) # {}
  <2>1. Max(Frozen(s)) \in Frozen(s) /\ \A y \in Frozen(s) : y <= Max(Frozen(s))
    BY <1>1, <1>3, MaxIs
  <2>2. LastFrozen(s) = Max(Frozen(s))
    BY <1>3 DEF LastFrozen
  <2>3. s[Max(Frozen(s))].st = "frozen"
    BY <2>1 DEF Frozen
  <2>4. QED
    BY <1>1, <2>1, <2>2, <2>3
<1>4. QED
  BY <1>2, <1>3

(***************************************************************************)
(* Types.                                                                  *)
(***************************************************************************)

LEMMA SegTypesHas ==
    ASSUME SegTypes
    PROVE  /\ \E n \in Nat : Segs(Msgs, data, n)
           /\ \E n \in Nat : Segs(Event, gc, n)
           /\ \E n \in Nat : Segs(Msgs, cmp, n)
  BY SegsIs DEF SegTypes

\* A step that leaves segments and times alone.
LEMMA SegTypesKept ==
    ASSUME SegTypes, UNCHANGED segVars
    PROVE  SegTypes'
  BY DEF SegTypes, segVars

\* GC segments have times from one on.
LEMMA GcTimes ==
    ASSUME NEW n, Segs(Event, gc, n), NEW m, Segs(Event, gc', m),
           \A i \in DOMAIN gc : gc[i].ts >= 1,
           \A j \in 1..m : (\E i \in 1..n : gc'[j].ts = gc[i].ts) \/ gc'[j].ts >= 1
    PROVE  \A j \in DOMAIN gc' : gc'[j].ts >= 1
<1>1. DOMAIN gc = 1..n /\ DOMAIN gc' = 1..m
  BY DEF Segs
<1>2. QED
  BY <1>1

LEMMA WriteDataTypes == ASSUME Types, WriteData PROVE Types'
<1> USE DEF Types
<1>1. PICK n \in Nat : Segs(Msgs, data, n)
  BY SegTypesHas
<1>2. dq \in Seq(Msgs) /\ dq # <<>>
  BY DEF QueueTypes, WriteData
<1>3. PICK x \in Msgs : x = Head(dq)
  BY <1>2
<1>4. Tail(dq) \in Seq(Msgs)
  BY <1>2
<1>5. Puts(Msgs, data, data', n, x)
  BY <1>1, <1>3, PutMoves DEF WriteData
<1>6. data' \in Seq(Segment(Msgs)) /\ OneActive(data')
  BY <1>1, <1>5, PutKeeps DEF SegTypes
<1>7. SegTypes'
  BY <1>6 DEF SegTypes, WriteData
<1>8. QueueTypes'
  BY <1>4 DEF QueueTypes, WriteData
<1>9. CptTypes'
  BY DEF CptTypes, WriteData, cptVars
<1>10. RestTypes'
  BY <1>3 DEF RestTypes, WriteData, redVars, histVars
<1>11. QED
  BY <1>7, <1>8, <1>9, <1>10

LEMMA RotateDataTypes == ASSUME Types, RotateData PROVE Types'
<1> USE DEF Types
<1>1. PICK n \in Nat : Segs(Msgs, data, n)
  BY SegTypesHas
<1>2. clock' \in 0..MaxClock
  BY WalAssumption DEF SegTypes, RotateData
<1>3. Rotates(Msgs, data, data', n, clock')
  BY <1>1, <1>2, RotateMoves DEF RotateData
<1>4. data' \in Seq(Segment(Msgs)) /\ OneActive(data')
  BY <1>1, <1>3, RotateKeeps DEF SegTypes
<1>5. SegTypes'
  BY <1>2, <1>4 DEF SegTypes, RotateData
<1>6. QueueTypes' /\ CptTypes' /\ RestTypes'
  BY DEF QueueTypes, CptTypes, RestTypes, RotateData, cptVars, redVars, histVars
<1>7. QED
  BY <1>5, <1>6

LEMMA WriteGcTypes == ASSUME Types, WriteGc PROVE Types'
<1> USE DEF Types
<1>1. PICK n \in Nat : Segs(Event, gc, n)
  BY SegTypesHas
<1> DEFINE R == [key : Keys, end : 1..MaxTime]
           C(e) == {m \in acked \cap done : Key[m] = e.key /\ Et[m] < e.end}
<1>2. gq \in Seq(R) /\ gq # <<>>
  BY DEF QueueTypes, WriteGc
<1> DEFINE e == Head(gq)
<1>3. e \in R /\ Tail(gq) \in Seq(R)
  <2> HIDE DEF R
  <2>1. QED
    BY <1>2, SeqTail
<1>5. PICK x \in Event : x = [key |-> e.key, end |-> e.end, covers |-> C(e)]
  <2>1. C(e) \subseteq Msgs
    BY DEF RestTypes
  <2> HIDE DEF C, e
  <2>2. e.key \in Keys /\ e.end \in 1..MaxTime
    BY <1>3
  <2>3. [key |-> e.key, end |-> e.end, covers |-> C(e)] \in Event
    BY <2>1, <2>2 DEF Event
  <2>4. QED
    BY <2>3, Zenon
<1>6. gc' = Put(gc, x)
  <2>1. gc' = Put(gc, [key |-> e.key, end |-> e.end, covers |-> C(e)])
    BY DEF WriteGc
  <2> HIDE DEF C, e
  <2>2. QED
    BY <1>5, <2>1
<1>7. Puts(Event, gc, gc', n, x)
  BY <1>1, <1>6, PutMoves DEF WriteGc
<1>8. gc' \in Seq(Segment(Event)) /\ OneActive(gc')
  BY <1>1, <1>7, PutKeeps DEF SegTypes
<1>9. \A j \in DOMAIN gc' : gc'[j].ts >= 1
  <2>1. \A i \in 1..n : i = n \/ i \in 1..(n - 1)
    OBVIOUS
  <2>2. \A i \in 1..n : gc'[i].ts = gc[i].ts
    BY <1>7, <2>1 DEF Puts
  <2>3. Segs(Event, gc', n)
    BY <1>7 DEF Puts
  <2>4. QED
    BY <1>1, <2>2, <2>3, GcTimes DEF SegTypes
<1>10. SegTypes'
  BY <1>8, <1>9 DEF SegTypes, WriteGc
<1>11. QueueTypes'
  BY <1>3 DEF QueueTypes, WriteGc
<1>12. CptTypes' /\ RestTypes'
  BY DEF CptTypes, RestTypes, WriteGc, cptVars, redVars, histVars
<1>13. QED
  BY <1>10, <1>11, <1>12

\* Frozen GC events cover messages.
LEMMA JustRetiredIs ==
    ASSUME SegTypes, gc # <<>>
    PROVE  JustRetired \subseteq Msgs
<1>1. PICK n \in Nat : Segs(Event, gc, n)
  BY SegTypesHas
<1>2. n \in 1..n /\ Len(gc) = n
  BY <1>1, SegsHas DEF Segs
<1>3. gc[n].es \in Seq(Event)
  BY <1>1, <1>2, SegsHas
<1>4. \A i \in DOMAIN gc[n].es : gc[n].es[i] \in Event
  BY <1>3
<1>5. \A i \in DOMAIN gc[n].es : gc[n].es[i].covers \subseteq Msgs
  BY <1>4 DEF Event
<1>6. QED
  BY <1>2, <1>5 DEF JustRetired, Last

LEMMA RotateGcTypes == ASSUME Types, RotateGc PROVE Types'
<1> USE DEF Types
<1>1. PICK n \in Nat : Segs(Event, gc, n)
  BY SegTypesHas
<1>2. clock' \in 0..MaxClock /\ clock' >= 1
  BY WalAssumption DEF SegTypes, RotateGc
<1>3. Rotates(Event, gc, gc', n, clock')
  BY <1>1, <1>2, RotateMoves DEF RotateGc
<1>4. gc' \in Seq(Segment(Event)) /\ OneActive(gc')
  BY <1>1, <1>3, RotateKeeps DEF SegTypes
<1>5. \A j \in DOMAIN gc' : gc'[j].ts >= 1
  <2>1. \A i \in 1..(n + 1) : i = n + 1 \/ i \in 1..n
    OBVIOUS
  <2>2. \A i \in 1..n : gc'[i].ts = gc[i].ts
    BY <1>3 DEF Rotates
  <2>3. gc'[n + 1].ts >= 1
    BY <1>2, <1>3 DEF Rotates
  <2>4. Segs(Event, gc', n + 1)
    BY <1>3 DEF Rotates
  <2>5. \A j \in 1..(n + 1) : (\E i \in 1..n : gc'[j].ts = gc[i].ts) \/ gc'[j].ts >= 1
    BY <2>1, <2>2, <2>3
  <2>6. QED
    BY <1>1, <2>4, <2>5, GcTimes DEF SegTypes
<1>6. SegTypes'
  BY <1>2, <1>4, <1>5 DEF SegTypes, RotateGc
<1>7. JustRetired \subseteq Msgs
  BY JustRetiredIs DEF RotateGc, NonEmpty, Active
<1>8. QueueTypes' /\ CptTypes'
  BY DEF QueueTypes, CptTypes, RotateGc, cptVars
<1>9. RestTypes'
  BY <1>7 DEF RestTypes, RotateGc, redVars
<1>10. QED
  BY <1>6, <1>8, <1>9

LEMMA WriteCmpTypes == ASSUME Types, WriteCmp PROVE Types'
<1> USE DEF Types
<1>1. PICK n \in Nat : Segs(Msgs, cmp, n)
  BY SegTypesHas
<1>2. cq \in Seq(Msgs \cup {Rotate}) /\ cq # <<>>
  BY DEF QueueTypes, WriteCmp
<1>3. PICK x \in Msgs \cup {Rotate} : x = Head(cq)
  BY <1>2
<1>4. Tail(cq) \in Seq(Msgs \cup {Rotate})
  BY <1>2
<1>5. cmp' \in Seq(Segment(Msgs)) /\ OneActive(cmp')
  <2>1. CASE x # Rotate
    <3>1. Puts(Msgs, cmp, cmp', n, x)
      BY <1>1, <1>3, <2>1, PutMoves DEF WriteCmp
    <3>2. QED
      BY <1>1, <3>1, PutKeeps DEF SegTypes
  <2>2. CASE x = Rotate /\ NonEmpty(cmp)
    <3>1. 0 \in 0..MaxClock
      BY WalAssumption
    <3>2. Rotates(Msgs, cmp, cmp', n, 0)
      BY <1>1, <1>3, <2>2, <3>1, RotateMoves DEF WriteCmp
    <3>3. QED
      BY <1>1, <3>2, RotateKeeps DEF SegTypes
  <2>3. CASE x = Rotate /\ ~NonEmpty(cmp)
    BY <1>3, <2>3 DEF SegTypes, WriteCmp
  <2>4. QED
    BY <2>1, <2>2, <2>3
<1>6. SegTypes'
  BY <1>5 DEF SegTypes, WriteCmp
<1>7. QueueTypes'
  BY <1>4 DEF QueueTypes, WriteCmp
<1>8. CptTypes' /\ RestTypes'
  BY DEF CptTypes, RestTypes, WriteCmp, cptVars, redVars, histVars
<1>9. QED
  BY <1>6, <1>7, <1>8

LEMMA RotateCmpTypes == ASSUME Types, RotateCmp PROVE Types'
<1> USE DEF Types
<1>1. PICK n \in Nat : Segs(Msgs, cmp, n)
  BY SegTypesHas
<1>2. 0 \in 0..MaxClock
  BY WalAssumption
<1>3. Rotates(Msgs, cmp, cmp', n, 0)
  BY <1>1, <1>2, RotateMoves DEF RotateCmp
<1>4. cmp' \in Seq(Segment(Msgs)) /\ OneActive(cmp')
  BY <1>1, <1>3, RotateKeeps DEF SegTypes
<1>5. SegTypes'
  BY <1>4 DEF SegTypes, RotateCmp
<1>6. QueueTypes' /\ CptTypes' /\ RestTypes'
  BY DEF QueueTypes, CptTypes, RestTypes, RotateCmp, cptVars, redVars, histVars
<1>7. QED
  BY <1>5, <1>6

\* The largest end of the events of a key.
GcEnds(k) == {e.end : e \in {x \in Entries(gc) : x.key = k}}

LEMMA EventsAre ==
    ASSUME SegTypes
    PROVE  Entries(gc) \subseteq Event
<1>1. PICK n \in Nat : Segs(Event, gc, n)
  BY SegTypesHas
<1>2. \A i \in Frozen(gc) : i \in 1..n
  BY <1>1 DEF Frozen, Segs
<1>3. \A i \in 1..n : Range(gc[i].es) \subseteq Event
  BY <1>1, SegsHas, SeqRange
<1>4. QED
  BY <1>2, <1>3 DEF Entries

LEMMA OldestIs ==
    ASSUME SegTypes, NEW k \in Keys
    PROVE  /\ GcEnds(k) \subseteq 1..MaxTime
           /\ GcEnds(k) # {} => /\ Max(GcEnds(k)) \in GcEnds(k)
                                /\ \A y \in GcEnds(k) : y <= Max(GcEnds(k))
<1>1. \A e \in Event : e.end \in 1..MaxTime
  BY DEF Event
<1>2. GcEnds(k) \subseteq 1..MaxTime
  BY <1>1, EventsAre DEF GcEnds
<1>3. GcEnds(k) \subseteq 0..MaxTime /\ MaxTime \in Nat
  BY <1>2, WalAssumption
<1>4. QED
  BY <1>2, <1>3, MaxIs

LEMMA SnapshotTypes == ASSUME Types, Snapshot PROVE Types'
<1> USE DEF Types
<1>1. SegTypes'
  BY SegTypesKept DEF Snapshot
<1>2. PICK n \in Nat : Segs(Msgs, data, n)
  BY SegTypesHas
<1>3. newest' \in -1..MaxClock
  <2>1. CASE data = <<>>
    BY <2>1, WalAssumption DEF Snapshot
  <2>2. CASE data # <<>>
    <3>1. n \in 1..n /\ Len(data) = n
      BY <1>2, <2>2, SegsHas DEF Segs
    <3>2. data[n].ts \in 0..MaxClock
      BY <1>2, <3>1, SegsHas
    <3>3. QED
      BY <2>2, <3>1, <3>2, WalAssumption DEF Snapshot, Last
  <2>3. QED
    BY <2>1, <2>2
<1>4. CptTypes'
  BY <1>3 DEF CptTypes, Snapshot
<1>5. QueueTypes' /\ RestTypes'
  BY DEF QueueTypes, RestTypes, Snapshot, redVars
<1>6. QED
  BY <1>1, <1>4, <1>5

LEMMA ReadGcTypes == ASSUME Types, ReadGc PROVE Types'
<1> USE DEF Types
<1>1. SegTypes'
  BY SegTypesKept DEF ReadGc
<1>2. PICK n \in Nat : Segs(Msgs, cmp, n)
  BY SegTypesHas
<1>3. PICK g \in Nat : Segs(Event, gc, g)
  BY SegTypesHas
<1>4. scanned' \subseteq 1..MaxClock
  <2>1. \A i \in Frozen(gc) : i \in 1..g /\ gc[i].ts >= 1
    BY <1>3 DEF Frozen, Segs, SegTypes
  <2>2. \A i \in Frozen(gc) : gc[i].ts \in 0..MaxClock
    BY <1>3, <2>1, SegsHas
  <2>3. \A i \in Frozen(gc) : gc[i].ts \in 1..MaxClock
    BY <2>1, <2>2
  <2>4. QED
    BY <2>3 DEF ReadGc
<1>5. oldest' \in [Keys -> 0..MaxTime]
  <2>1. oldest' = [k \in Keys |-> IF GcEnds(k) = {} THEN 0 ELSE Max(GcEnds(k))]
    BY DEF ReadGc, GcEnds
  <2>2. \A k \in Keys : (IF GcEnds(k) = {} THEN 0 ELSE Max(GcEnds(k))) \in 0..MaxTime
    <3> TAKE k \in Keys
    <3>1. CASE GcEnds(k) = {}
      BY <3>1, WalAssumption
    <3>2. CASE GcEnds(k) # {}
      <4>1. Max(GcEnds(k)) \in 1..MaxTime
        BY <3>2, OldestIs
      <4>2. QED
        BY <3>2, <4>1
    <3>3. QED
      BY <3>1, <3>2
  <2>3. QED
    BY <2>1, <2>2
<1>6. files' \in Nat /\ pos' \in Nat
  BY <1>2, LastFrozenIs DEF ReadGc
<1>7. CptTypes'
  BY <1>4, <1>5, <1>6 DEF CptTypes, ReadGc
<1>8. QueueTypes' /\ RestTypes'
  BY DEF QueueTypes, RestTypes, ReadGc, redVars, histVars
<1>9. QED
  BY <1>1, <1>7, <1>8

\* What one read of a pass takes.
LEMMA ReadEntryIs ==
    ASSUME NEW segs, NEW n, Segs(Msgs, segs, n), pos \in Nat, ReadEntry(segs)
    PROVE  /\ Listed(segs) # {} /\ First(segs) \in 1..n
           /\ pos' = pos + 1 /\ pos' \in 1..Len(segs[First(segs)].es)
           /\ segs[First(segs)].es[pos'] \in Msgs
<1>1. Listed(segs) # {} /\ pos < Len(segs[First(segs)].es) /\ pos' = pos + 1
  BY DEF ReadEntry
<1>2. First(segs) \in 1..n
  BY <1>1, FirstIs
<1>3. segs[First(segs)].es \in Seq(Msgs) /\ Len(segs[First(segs)].es) \in Nat
  BY <1>2, SegsHas
<1>4. pos' \in 1..Len(segs[First(segs)].es)
  BY <1>1, <1>3
<1>5. segs[First(segs)].es[pos'] \in Msgs
  BY <1>3, <1>4
<1>6. QED
  BY <1>1, <1>2, <1>4, <1>5

LEMMA ReadEntryTypes ==
    ASSUME Types, NEW segs, NEW n, Segs(Msgs, segs, n), ReadEntry(segs)
    PROVE  Types'
<1> USE DEF Types
<1>1. PICK m \in Msgs : m = segs[First(segs)].es[pos']
  BY ReadEntryIs DEF CptTypes
<1>2. SegTypes'
  BY SegTypesKept DEF ReadEntry
<1>3. CptTypes'
  BY DEF CptTypes, ReadEntry
<1>4. QueueTypes'
  <2>1. Append(cq, m) \in Seq(Msgs \cup {Rotate})
    BY DEF QueueTypes
  <2>2. cq' = cq \/ cq' = Append(cq, m)
    BY <1>1 DEF ReadEntry
  <2>3. QED
    BY <2>1, <2>2 DEF QueueTypes, ReadEntry
<1>5. RestTypes'
  <2>1. Append(out, m) \in Seq(Msgs)
    BY DEF RestTypes
  <2>2. out' = out \/ out' = Append(out, m)
    BY <1>1 DEF ReadEntry
  <2>3. todo' \subseteq Msgs /\ done' \subseteq Msgs
    BY <1>1 DEF ReadEntry, Deliver, RestTypes
  <2>4. QED
    BY <2>1, <2>2, <2>3 DEF RestTypes, ReadEntry
<1>6. QED
  BY <1>2, <1>3, <1>4, <1>5

LEMMA SwitchTypes == ASSUME Types, SwitchCmp \/ SwitchData PROVE Types'
<1> USE DEF Types
<1>1. PICK n \in Nat : Segs(Msgs, cmp, n)
  BY SegTypesHas
<1>2. PICK d \in Nat : Segs(Msgs, data, d)
  BY SegTypesHas
<1>3. SegTypes' /\ files > 0
  <2>1. CASE SwitchCmp
    <3>1. First(cmp) \in 1..n /\ First(cmp) <= files
      BY <1>1, <2>1, FirstIs DEF SwitchCmp
    <3>2. Removes(Msgs, cmp, cmp', n, First(cmp))
      BY <1>1, <2>1, <3>1, RemoveMoves DEF SwitchCmp
    <3>3. cmp' \in Seq(Segment(Msgs)) /\ OneActive(cmp')
      BY <1>1, <3>2, RemoveKeeps DEF SegTypes
    <3>4. QED
      BY <2>1, <3>1, <3>3 DEF SegTypes, CptTypes, SwitchCmp
  <2>2. CASE SwitchData
    <3>1. First(data) \in 1..d /\ First(data) <= files
      BY <1>2, <2>2, FirstIs DEF SwitchData
    <3>2. Removes(Msgs, data, data', d, First(data))
      BY <1>2, <2>2, <3>1, RemoveMoves DEF SwitchData
    <3>3. data' \in Seq(Segment(Msgs)) /\ OneActive(data')
      BY <1>2, <3>2, RemoveKeeps DEF SegTypes
    <3>4. QED
      BY <2>2, <3>1, <3>3 DEF SegTypes, CptTypes, SwitchData
  <2>3. QED
    BY <2>1, <2>2
<1>4. QueueTypes'
  <2>1. Append(cq, Rotate) \in Seq(Msgs \cup {Rotate})
    BY DEF QueueTypes
  <2>2. QED
    BY <2>1 DEF QueueTypes, SwitchCmp, SwitchData
<1>5. CptTypes'
  <2>1. files' \in Nat /\ pos' \in Nat
    BY <1>3 DEF CptTypes, SwitchCmp, SwitchData
  <2>2. QED
    BY <2>1 DEF CptTypes, SwitchCmp, SwitchData
<1>6. RestTypes'
  BY DEF RestTypes, SwitchCmp, SwitchData, redVars, histVars
<1>7. QED
  BY <1>3, <1>4, <1>5, <1>6

LEMMA EndPassTypes == ASSUME Types, EndCmpPass \/ EndDataPass PROVE Types'
<1> USE DEF Types
<1>1. SegTypes'
  BY SegTypesKept DEF EndCmpPass, EndDataPass
<1>2. PICK n \in Nat : Segs(Msgs, data, n)
  BY SegTypesHas
<1>3. files' \in Nat /\ pos' \in Nat
  BY <1>2, LastFrozenIs DEF EndCmpPass, EndDataPass
<1>4. CptTypes'
  BY <1>3 DEF CptTypes, EndCmpPass, EndDataPass
<1>5. QueueTypes' /\ RestTypes'
  BY DEF QueueTypes, RestTypes, EndCmpPass, EndDataPass, redVars, histVars
<1>6. QED
  BY <1>1, <1>4, <1>5

\* The GC segment that is deleted next.
LEMMA DeleteIs ==
    ASSUME NEW g, Segs(Event, gc, g), DeleteGc
    PROVE  /\ Min(ToDelete) \in 1..g /\ gc[Min(ToDelete)].st = "frozen" /\ pbq # "boot"
           /\ Spent(gc[Min(ToDelete)])
           /\ Removes(Event, gc, gc', g, Min(ToDelete))
<1>1. ToDelete \subseteq 1..g /\ 1..g \subseteq Nat
  BY DEF ToDelete, Segs
<1>2. Min(ToDelete) \in ToDelete
  <2>1. ToDelete \subseteq Nat /\ ToDelete # {}
    BY <1>1 DEF DeleteGc
  <2>2. QED
    BY <2>1, MinIs
<1>3. Min(ToDelete) \in 1..g /\ Spent(gc[Min(ToDelete)]) /\ pbq # "boot"
  BY <1>1, <1>2 DEF ToDelete
<1>4. QED
  BY <1>3, RemoveMoves DEF DeleteGc, Spent

LEMMA DeleteGcTypes == ASSUME Types, DeleteGc PROVE Types'
<1> USE DEF Types
<1>1. PICK g \in Nat : Segs(Event, gc, g)
  BY SegTypesHas
<1>2. PICK r : r \in 1..g /\ Removes(Event, gc, gc', g, r)
  BY <1>1, DeleteIs
<1>3. gc' \in Seq(Segment(Event)) /\ OneActive(gc')
  BY <1>1, <1>2, RemoveKeeps DEF SegTypes
<1>4. \A j \in DOMAIN gc' : gc'[j].ts >= 1
  <2>1. Segs(Event, gc', g - 1)
    BY <1>2 DEF Removes
  <2>2. \A j \in 1..(g - 1) : j \in 1..g /\ j + 1 \in 1..g
    OBVIOUS
  <2>3. \A j \in 1..(g - 1) : gc'[j] = gc[j] \/ gc'[j] = gc[j + 1]
    BY <1>2 DEF Removes
  <2>4. \A j \in 1..(g - 1) : \E i \in 1..g : gc'[j].ts = gc[i].ts
    BY <2>2, <2>3
  <2>5. QED
    BY <1>1, <2>1, <2>4, GcTimes DEF SegTypes
<1>5. SegTypes'
  BY <1>3, <1>4 DEF SegTypes, DeleteGc
<1>6. QueueTypes' /\ CptTypes' /\ RestTypes'
  BY DEF QueueTypes, CptTypes, RestTypes, DeleteGc, cptVars, redVars, histVars
<1>7. QED
  BY <1>5, <1>6

\* Steps that leave segments alone and change little else.
LEMMA QuietTypes ==
    ASSUME Types, EndCycle \/ CompactFails \/ CompactorStops \/ Cancel \/ BoundReached
    PROVE  Types'
<1> USE DEF Types
<1>1. SegTypes'
  BY SegTypesKept DEF EndCycle, CompactFails, CompactorStops, Cancel, BoundReached, vars
<1>2. [k \in Keys |-> 0] \in [Keys -> 0..MaxTime] /\ -1 \in -1..MaxClock
  BY WalAssumption
<1>3. CptTypes'
  BY <1>2 DEF CptTypes, EndCycle, CompactFails, CompactorStops, Cancel, BoundReached, vars, cptVars
<1>4. QueueTypes'
  BY DEF QueueTypes, EndCycle, CompactFails, CompactorStops, Cancel, BoundReached, vars
<1>5. RestTypes'
  <2>1. stops' \in 0..MaxStops
    BY WalAssumption DEF RestTypes, EndCycle, CompactFails, CompactorStops, Cancel, BoundReached, vars, histVars
  <2>2. QED
    BY <2>1 DEF RestTypes, EndCycle, CompactFails, CompactorStops, Cancel, BoundReached, vars, redVars, histVars
<1>6. QED
  BY <1>1, <1>3, <1>4, <1>5

LEMMA StartReadTypes == ASSUME Types, Shape, StartRead PROVE Types'
<1> USE DEF Types
<1>1. PICK n \in Nat : Segs(Msgs, data, n)
  BY SegTypesHas
<1>2. clock' \in 0..MaxClock
  BY WalAssumption DEF SegTypes, StartRead
<1>3. Opens(Msgs, data, data', n, clock')
  BY <1>1, <1>2, OpenMoves DEF StartRead
<1>4. ~Active(data)
  BY DEF Shape, StartRead
<1>5. data' \in Seq(Segment(Msgs)) /\ OneActive(data')
  BY <1>1, <1>3, <1>4, OpenKeeps DEF SegTypes
<1>6. SegTypes'
  BY <1>2, <1>5 DEF SegTypes, StartRead
<1>7. QueueTypes' /\ CptTypes' /\ RestTypes'
  BY DEF QueueTypes, CptTypes, RestTypes, StartRead, cptVars, redVars, histVars
<1>8. QED
  BY <1>6, <1>7

\* The message that is read next.
LEMMA ReadIs ==
    ASSUME Read
    PROVE  Min(Unread) \in Unread /\ Min(Unread) \in Msgs /\ \A u \in Unread : Min(Unread) <= u
<1>1. Unread \subseteq Nat /\ Unread \subseteq Msgs /\ Unread # {}
  BY WalAssumption DEF Unread, Msgs, Read
<1>2. QED
  BY <1>1, MinIs

LEMMA ReadTypes == ASSUME Types, Read PROVE Types'
<1> USE DEF Types
<1>1. SegTypes'
  BY SegTypesKept DEF Read
<1>2. PICK m \in Msgs : m = Min(Unread)
  BY ReadIs
<1>3. Append(dq, m) \in Seq(Msgs)
  BY DEF QueueTypes
<1>4. QueueTypes'
  BY <1>2, <1>3 DEF QueueTypes, Read
<1>5. todo' \subseteq Msgs /\ done' \subseteq Msgs
  BY <1>2 DEF RestTypes, Read, Deliver
<1>6. RestTypes'
  BY <1>5 DEF RestTypes, Read, histVars
<1>7. CptTypes'
  BY DEF CptTypes, Read, cptVars
<1>8. QED
  BY <1>1, <1>4, <1>6, <1>7

LEMMA CloseWindowTypes ==
    ASSUME Types, NEW k \in Keys, NEW e \in 1..MaxTime, CloseWindow(k, e)
    PROVE  Types'
<1> USE DEF Types
<1>1. SegTypes'
  BY SegTypesKept DEF CloseWindow
<1> DEFINE R == [key : Keys, end : 1..MaxTime]
<1>2. PICK x \in R : x = [key |-> k, end |-> e]
  OBVIOUS
<1>3. gq' \in Seq(R)
  <2>1. gq \in Seq(R) /\ gq' = Append(gq, x)
    BY <1>2 DEF QueueTypes, CloseWindow
  <2> HIDE DEF R
  <2>2. QED
    BY <1>2, <2>1
<1>4. QueueTypes'
  BY <1>3 DEF QueueTypes, CloseWindow
<1>5. closed' \in [Keys -> 0..MaxTime]
  <2>1. e \in 0..MaxTime
    BY WalAssumption
  <2>2. QED
    BY <2>1 DEF RestTypes, CloseWindow
<1>6. todo' \subseteq Msgs /\ done' \subseteq Msgs
  BY DEF RestTypes, CloseWindow
<1>7. RestTypes'
  BY <1>5, <1>6 DEF RestTypes, CloseWindow, histVars
<1>8. CptTypes'
  BY DEF CptTypes, CloseWindow, cptVars
<1>9. QED
  BY <1>1, <1>4, <1>7, <1>8

\* Freeze, whether there is something to freeze or not.
LEMMA FreezeAny ==
    ASSUME NEW E, NEW s, NEW n, Segs(E, s, n), OneActive(s)
    PROVE  /\ Freeze(s) \in Seq(Segment(E)) /\ OneActive(Freeze(s))
           /\ (NonEmpty(s) /\ Freezes(E, s, Freeze(s), n)) \/ (~NonEmpty(s) /\ Freeze(s) = s)
<1>1. CASE NonEmpty(s)
  <2>1. Freezes(E, s, Freeze(s), n)
    BY <1>1, FreezeMoves
  <2>2. QED
    BY <1>1, <2>1, FreezeKeeps
<1>2. CASE ~NonEmpty(s)
  BY <1>2 DEF Freeze, Segs
<1>3. QED
  BY <1>1, <1>2

LEMMA LeaveAny ==
    ASSUME NEW E, NEW s, NEW n, Segs(E, s, n), OneActive(s)
    PROVE  /\ Leave(s) \in Seq(Segment(E)) /\ OneActive(Leave(s)) /\ ~Active(Leave(s))
           /\ (Active(s) /\ Leaves(E, s, Leave(s), n)) \/ (~Active(s) /\ Leave(s) = s)
<1>1. CASE Active(s)
  <2>1. Leaves(E, s, Leave(s), n)
    BY <1>1, LeaveMoves
  <2>2. QED
    BY <1>1, <2>1, LeaveKeeps
<1>2. CASE ~Active(s)
  BY <1>2 DEF Leave, Segs
<1>3. QED
  BY <1>1, <1>2

LEMMA StopReadTypes == ASSUME Types, StopRead PROVE Types'
<1> USE DEF Types
<1>1. PICK n \in Nat : Segs(Msgs, data, n)
  BY SegTypesHas
<1>2. data' \in Seq(Segment(Msgs)) /\ OneActive(data')
  BY <1>1, FreezeAny DEF SegTypes, StopRead
<1>3. SegTypes'
  BY <1>2 DEF SegTypes, StopRead
<1>4. QueueTypes' /\ CptTypes' /\ RestTypes'
  BY DEF QueueTypes, CptTypes, RestTypes, StopRead, cptVars, redVars, histVars
<1>5. QED
  BY <1>3, <1>4

LEMMA StopGcTypes == ASSUME Types, StopGc PROVE Types'
<1> USE DEF Types
<1>1. PICK n \in Nat : Segs(Event, gc, n)
  BY SegTypesHas
<1>2. gc' \in Seq(Segment(Event)) /\ OneActive(gc') /\ Freezes(Event, gc, gc', n)
  BY <1>1, FreezeAny DEF SegTypes, StopGc
<1>3. \A j \in DOMAIN gc' : gc'[j].ts >= 1
  <2>1. Segs(Event, gc', n) /\ \A i \in 1..n : gc'[i].ts = gc[i].ts
    BY <1>2 DEF Freezes
  <2>2. QED
    BY <1>1, <2>1, GcTimes DEF SegTypes
<1>4. SegTypes'
  BY <1>2, <1>3 DEF SegTypes, StopGc
<1>5. JustRetired \subseteq Msgs
  BY JustRetiredIs DEF StopGc, NonEmpty, Active
<1>6. QueueTypes' /\ CptTypes'
  BY DEF QueueTypes, CptTypes, StopGc, cptVars
<1>7. RestTypes'
  BY <1>5 DEF RestTypes, StopGc, redVars
<1>8. QED
  BY <1>4, <1>6, <1>7

\* The compaction segments a pod leaves: the active one is forgotten.
LEMMA ForgetAll ==
    ASSUME NEW E, NEW s, NEW n, Segs(E, s, n), \A i \in 1..(n - 1) : s[i].st = "frozen", Active(s)
    PROVE  /\ Forgets(E, s, Forget(s), n)
           /\ \A i \in 1..(n - 1) : Forget(s)[i].st = "frozen"
           /\ Forget(s) \in Seq(Segment(E)) /\ OneActive(Forget(s))
<1>1. Forgets(E, s, Forget(s), n)
  BY ForgetMoves
<1>2. \A i \in 1..(n - 1) : Forget(s)[i].st = "frozen"
  BY <1>1 DEF Forgets
<1>3. QED
  BY <1>1, <1>2 DEF Forgets, Segs, OneActive

\* The same after what is in it was frozen.
LEMMA FreezeForget ==
    ASSUME NEW E, NEW s, NEW n, Segs(E, s, n), \A i \in 1..(n - 1) : s[i].st = "frozen", Active(s), OneActive(s)
    PROVE  \/ /\ NonEmpty(s) /\ Freezes(E, s, Forget(Freeze(s)), n)
              /\ \A i \in 1..n : Forget(Freeze(s))[i].st = "frozen"
           \/ /\ ~NonEmpty(s) /\ Forgets(E, s, Forget(Freeze(s)), n)
              /\ \A i \in 1..(n - 1) : Forget(Freeze(s))[i].st = "frozen"
<1>1. CASE NonEmpty(s)
  <2>1. PICK t : t = Freeze(s)
    OBVIOUS
  <2>2. Freezes(E, s, t, n)
    BY <1>1, <2>1, FreezeMoves
  <2>3. \A i \in 1..n : t[i].st # "active"
    BY <2>2, FreezeKeeps
  <2>4. Segs(E, t, n) /\ n \in Nat /\ n > 0 /\ n \in 1..n
    BY <2>2 DEF Freezes
  <2>5. ~Active(t)
    BY <2>3, <2>4, SegsHas
  <2>6. Forget(t) = t
    BY <2>5 DEF Forget
  <2>7. \A i \in 1..n : t[i].st = "frozen"
    <3>1. \A i \in 1..n : i = n \/ i \in 1..(n - 1)
      BY <2>4
    <3>2. QED
      BY <2>2, <3>1 DEF Freezes
  <2>8. QED
    BY <1>1, <2>1, <2>2, <2>6, <2>7
<1>2. CASE ~NonEmpty(s)
  <2>1. Freeze(s) = s
    BY <1>2 DEF Freeze
  <2>2. QED
    BY <1>2, <2>1, ForgetAll
<1>3. QED
  BY <1>1, <1>2

LEMMA DownTypes ==
    ASSUME Types, Shape, Exit \/ Kill
    PROVE  /\ Types' /\ ~Active(data') /\ ~Active(gc')
           /\ \A i \in DOMAIN cmp' : cmp'[i].st = "frozen"
<1> USE DEF Types
<1>1. PICK d \in Nat : Segs(Msgs, data, d)
  BY SegTypesHas
<1>2. PICK g \in Nat : Segs(Event, gc, g)
  BY SegTypesHas
<1>3. PICK n \in Nat : Segs(Msgs, cmp, n)
  BY SegTypesHas
<1>4. data' \in Seq(Segment(Msgs)) /\ OneActive(data') /\ ~Active(data')
  BY <1>1, LeaveAny DEF SegTypes, Exit, Kill, Down
<1>5. gc' \in Seq(Segment(Event)) /\ OneActive(gc') /\ ~Active(gc')
  BY <1>2, LeaveAny DEF SegTypes, Exit, Kill, Down
<1>6. \A j \in DOMAIN gc' : gc'[j].ts >= 1
  <2>1. Leaves(Event, gc, gc', g) \/ gc' = gc
    BY <1>2, LeaveAny DEF SegTypes, Exit, Kill, Down
  <2>2. CASE gc' = gc
    BY <2>2 DEF SegTypes
  <2>3. CASE Leaves(Event, gc, gc', g)
    <3>1. Segs(Event, gc', g) /\ \A i \in 1..g : gc'[i].ts = gc[i].ts
      BY <2>3 DEF Leaves
    <3>2. QED
      BY <1>2, <3>1, GcTimes DEF SegTypes
  <2>4. QED
    BY <2>1, <2>2, <2>3
<1>7. /\ cmp' \in Seq(Segment(Msgs)) /\ OneActive(cmp')
      /\ \A i \in DOMAIN cmp' : cmp'[i].st = "frozen"
  <2>1. pbq # "down" /\ Len(cmp) = n
    BY <1>3 DEF Exit, Kill, Segs
  <2>2. Active(cmp) /\ \A i \in 1..(n - 1) : cmp[i].st = "frozen"
    BY <2>1 DEF Shape
  <2>3. cmp' = Forget(cmp) \/ cmp' = Forget(Freeze(cmp))
    BY DEF Exit, Kill
  <2>4. \E k \in Nat : Segs(Msgs, cmp', k) /\ \A i \in 1..k : cmp'[i].st = "frozen"
    <3>1. n > 0 /\ n - 1 \in Nat
      BY <1>3, <2>2, SegsHas
    <3>2. CASE cmp' = Forget(cmp)
      <4>1. Forgets(Msgs, cmp, cmp', n) /\ \A i \in 1..(n - 1) : cmp'[i].st = "frozen"
        BY <1>3, <2>2, <3>2, ForgetAll
      <4>2. QED
        BY <3>1, <4>1 DEF Forgets
    <3>3. CASE cmp' = Forget(Freeze(cmp))
      <4>1. \/ Freezes(Msgs, cmp, cmp', n) /\ (\A i \in 1..n : cmp'[i].st = "frozen")
            \/ Forgets(Msgs, cmp, cmp', n) /\ (\A i \in 1..(n - 1) : cmp'[i].st = "frozen")
        BY <1>3, <2>2, <3>3, FreezeForget DEF SegTypes
      <4>2. QED
        BY <3>1, <4>1 DEF Forgets, Freezes
    <3>4. QED
      BY <2>3, <3>2, <3>3
  <2>5. QED
    BY <2>4 DEF Segs, OneActive
<1>8. SegTypes'
  BY <1>4, <1>5, <1>6, <1>7 DEF SegTypes, Exit, Kill, Down
<1>9. QueueTypes'
  <2>1. \A S : <<>> \in Seq(S)
    OBVIOUS
  <2>2. dq' = <<>> /\ gq' = <<>> /\ cq' = <<>>
    BY DEF Exit, Kill, Down
  <2>3. QED
    BY <2>1, <2>2, Zenon DEF QueueTypes
<1>10. CptTypes'
  <2>1. [k \in Keys |-> 0] \in [Keys -> 0..MaxTime] /\ -1 \in -1..MaxClock
    BY WalAssumption
  <2>2. QED
    BY <2>1 DEF CptTypes, Exit, Kill, Down
<1>11. RestTypes'
  <2>1. stops' \in 0..MaxStops
    BY WalAssumption DEF RestTypes, Exit, Kill
  <2>2. <<>> \in Seq(Msgs)
    OBVIOUS
  <2>3. QED
    BY <2>1, <2>2 DEF RestTypes, Exit, Kill, Down
<1>12. QED
  BY <1>4, <1>5, <1>7, <1>8, <1>9, <1>10, <1>11

LEMMA BootTypes == ASSUME Types, Shape, Boot PROVE Types'
<1> USE DEF Types
<1>1. PICK g \in Nat : Segs(Event, gc, g)
  BY SegTypesHas
<1>2. PICK n \in Nat : Segs(Msgs, cmp, n)
  BY SegTypesHas
<1>3. clock' \in 0..MaxClock /\ clock' >= 1 /\ 0 \in 0..MaxClock
  BY WalAssumption DEF SegTypes, Boot
<1>4. ~Active(gc) /\ ~Active(cmp)
  <2>1. ~Active(gc) /\ \A i \in DOMAIN cmp : cmp[i].st = "frozen"
    BY DEF Shape, Boot
  <2>2. n > 0 => n \in DOMAIN cmp
    BY <1>2 DEF Segs
  <2>3. QED
    BY <1>2, <2>1, <2>2, SegsHas
<1>5. Opens(Event, gc, gc', g, clock') /\ Opens(Msgs, cmp, cmp', n, 0)
  BY <1>1, <1>2, <1>3, OpenMoves DEF Boot
<1>6. /\ gc' \in Seq(Segment(Event)) /\ OneActive(gc')
      /\ cmp' \in Seq(Segment(Msgs)) /\ OneActive(cmp')
  BY <1>1, <1>2, <1>4, <1>5, OpenKeeps DEF SegTypes
<1>7. \A j \in DOMAIN gc' : gc'[j].ts >= 1
  <2>1. \A i \in 1..(g + 1) : i = g + 1 \/ i \in 1..g
    OBVIOUS
  <2>2. \A i \in 1..g : gc'[i].ts = gc[i].ts
    BY <1>5 DEF Opens
  <2>3. gc'[g + 1].ts >= 1
    BY <1>3, <1>5 DEF Opens
  <2>4. Segs(Event, gc', g + 1)
    BY <1>5 DEF Opens
  <2>5. \A j \in 1..(g + 1) : (\E i \in 1..g : gc'[j].ts = gc[i].ts) \/ gc'[j].ts >= 1
    BY <2>1, <2>2, <2>3
  <2>6. QED
    BY <1>1, <2>4, <2>5, GcTimes DEF SegTypes
<1>8. SegTypes'
  BY <1>3, <1>6, <1>7 DEF SegTypes, Boot
<1>9. QueueTypes' /\ CptTypes' /\ RestTypes'
  BY DEF QueueTypes, CptTypes, RestTypes, Boot, redVars, histVars
<1>10. QED
  BY <1>8, <1>9

(***************************************************************************)
(* The shape of the segments, and the passes.                              *)
(***************************************************************************)

\* Segments that were left hold nothing.
LEMMA LeftKept ==
    ASSUME NEW n, NEW k, Segs(Msgs, data, n), Segs(Msgs, data', k), Shape,
           \A j \in 1..k : (\E i \in 1..n : data'[j] = data[i]) \/ data'[j].st # "left" \/ data'[j].es = <<>>
    PROVE  \A j \in DOMAIN data' : data'[j].st = "left" => data'[j].es = <<>>
<1>1. DOMAIN data = 1..n /\ DOMAIN data' = 1..k
  BY DEF Segs
<1>2. \A i \in 1..n : data[i].st = "left" => data[i].es = <<>>
  BY <1>1 DEF Shape
<1>3. QED
  BY <1>1, <1>2

\* A step beyond the segments a pass has listed leaves the pass where it is.
LEMMA DataListedKept ==
    ASSUME NEW n, NEW k, Segs(Msgs, data, n), Segs(Msgs, data', k),
           files \in 0..n, files <= k, files' = files, \A i \in 1..files : data'[i] = data[i]
    PROVE  Listed(data)' = Listed(data) /\ First(data)' = First(data)
<1>1. DOMAIN data = 1..n /\ DOMAIN data' = 1..k /\ n \in Nat /\ k \in Nat
  BY DEF Segs
<1>2. Listed(data) = {i \in 1..files : data[i].st = "frozen"}
  BY <1>1 DEF Listed, Frozen
<1>3. Listed(data)' = {i \in 1..files : data'[i].st = "frozen"}
  <2>1. Listed(data)' = {i \in {j \in DOMAIN data' : data'[j].st = "frozen"} : i <= files}
    BY DEF Listed, Frozen
  <2>2. \A i : i \in 1..k /\ i <= files <=> i \in 1..files
    BY <1>1
  <2>3. QED
    BY <1>1, <2>1, <2>2
<1>4. Listed(data)' = Listed(data)
  BY <1>2, <1>3
<1>5. QED
  BY <1>4 DEF First

\* Data segments are only added or changed at their end while messages are read.
LEMMA DataPassKept ==
    ASSUME Types, Pass, NEW n, NEW k, Segs(Msgs, data, n), Segs(Msgs, data', k), n <= k,
           \A i \in 1..n : data[i].st # "active" => data'[i] = data[i],
           UNCHANGED <<cmp, cpt, files, pos>>, pbq' \in {"read", "drain"}
    PROVE  Pass'
<1>1. n \in Nat /\ k \in Nat /\ Len(data) = n /\ Len(data') = k
  BY DEF Segs
<1>2. ASSUME cpt = "data"
      PROVE  /\ files \in 0..k /\ (\A i \in 1..files : data'[i].st # "active")
             /\ Listed(data)' # {} => pos <= Len(data'[First(data)'].es)
  <2>1. files \in 0..n /\ \A i \in 1..files : data[i].st # "active" /\ i \in 1..n
    BY <1>1, <1>2 DEF Pass
  <2>2. \A i \in 1..files : data'[i] = data[i]
    BY <2>1
  <2>3. Listed(data)' = Listed(data) /\ First(data)' = First(data)
    <3>1. files \in 0..n /\ files <= k /\ files' = files
      BY <1>1, <2>1
    <3>2. QED
      BY <2>2, <3>1, DataListedKept
  <2>4. Listed(data) # {} => First(data) \in 1..files
    <3>1. Listed(data) # {} => First(data) \in 1..n /\ First(data) <= files
      BY FirstIs
    <3>2. QED
      BY <1>1, <2>1, <3>1
  <2>5. Listed(data) # {} => pos <= Len(data[First(data)].es)
    BY <1>2 DEF Pass
  <2>6. QED
    BY <1>1, <2>1, <2>2, <2>3, <2>4, <2>5
<1>3. QED
  BY <1>1, <1>2 DEF Pass

\* Where the pass over compaction segments is.
LEMMA CmpFirst ==
    ASSUME Types, Shape, Pass, cpt = "cmp"
    PROVE  /\ Listed(cmp) # {} <=> files > 0
           /\ files > 0 => First(cmp) = 1
           /\ files \in 0..(Len(cmp) - 1) /\ pbq # "down"
<1>1. PICK n \in Nat : Segs(Msgs, cmp, n)
  BY SegTypesHas DEF Types
<1>2. files \in 0..(n - 1) /\ DOMAIN cmp = 1..n /\ Len(cmp) = n
  BY <1>1 DEF Pass, Segs
<1>3. pbq # "down"
  BY DEF Shape
<1>4. \A i \in 1..(n - 1) : cmp[i].st = "frozen"
  BY <1>2, <1>3 DEF Shape
<1>5. Listed(cmp) = 1..files
  BY <1>2, <1>4 DEF Listed, Frozen
<1>6. ASSUME files > 0 PROVE First(cmp) = 1
  <2>1. 1 \in Listed(cmp) /\ First(cmp) \in 1..n /\ First(cmp) <= 1
    BY <1>1, <1>2, <1>5, <1>6, FirstIs
  <2>2. QED
    BY <2>1
<1>7. QED
  BY <1>2, <1>3, <1>5, <1>6

LEMMA WriteDataShape == ASSUME Types, Shape, Pass, WriteData PROVE Shape' /\ Pass'
<1>1. PICK n \in Nat : Segs(Msgs, data, n)
  BY SegTypesHas DEF Types
<1>2. PICK x : Puts(Msgs, data, data', n, x)
  <2>1. dq \in Seq(Msgs) /\ dq # <<>>
    BY DEF Types, QueueTypes, WriteData
  <2>2. PICK x \in Msgs : x = Head(dq)
    BY <2>1
  <2>3. QED
    BY <1>1, <2>2, PutMoves DEF WriteData
<1>3. pbq = "read"
  BY DEF Types, RestTypes, Shape, WriteData
<1>4. Segs(Msgs, data', n) /\ n > 0 /\ data'[n].st = "active" /\ data[n].st = "active"
  BY <1>2 DEF Puts
<1>5. \A i \in 1..n : i = n \/ data'[i] = data[i]
  <2>1. \A i \in 1..n : i = n \/ i \in 1..(n - 1)
    OBVIOUS
  <2>2. QED
    BY <1>2, <2>1 DEF Puts
<1>6. \A j \in DOMAIN data' : data'[j].st = "left" => data'[j].es = <<>>
  BY <1>1, <1>4, <1>5, LeftKept
<1>7. Active(data')
  BY <1>4, SegsHas
<1>8. Shape'
  BY <1>3, <1>6, <1>7 DEF Shape, WriteData, cptVars
<1>9. Pass'
  <2>1. n <= n /\ \A i \in 1..n : data[i].st # "active" => data'[i] = data[i]
    BY <1>1, <1>4, <1>5
  <2>2. UNCHANGED <<cmp, cpt, files, pos>> /\ pbq' \in {"read", "drain"}
    BY <1>3 DEF WriteData, cptVars
  <2>3. QED
    BY <1>1, <1>4, <2>1, <2>2, DataPassKept
<1>10. QED
  BY <1>8, <1>9

LEMMA RotateDataShape == ASSUME Types, Shape, Pass, RotateData PROVE Shape' /\ Pass'
<1>1. PICK n \in Nat : Segs(Msgs, data, n)
  BY SegTypesHas DEF Types
<1>2. clock' \in 0..MaxClock
  BY WalAssumption DEF Types, SegTypes, RotateData
<1>3. Rotates(Msgs, data, data', n, clock')
  BY <1>1, <1>2, RotateMoves DEF RotateData
<1>4. pbq = "read"
  <2>1. Active(data) /\ Last(data).es # <<>>
    BY DEF RotateData, NonEmpty
  <2>2. QED
    BY <2>1 DEF Types, RestTypes, Shape
<1>5. Segs(Msgs, data', n + 1) /\ n > 0 /\ data[n].st = "active"
  BY <1>3 DEF Rotates
<1>6. \A i \in 1..n : i = n \/ data'[i] = data[i]
  <2>1. \A i \in 1..n : i = n \/ i \in 1..(n - 1)
    OBVIOUS
  <2>2. QED
    BY <1>3, <2>1 DEF Rotates
<1>7. \A j \in DOMAIN data' : data'[j].st = "left" => data'[j].es = <<>>
  <2>1. data'[n].st # "left" /\ data'[n + 1].st # "left"
    BY <1>3 DEF Rotates
  <2>2. \A j \in 1..(n + 1) : j = n + 1 \/ j \in 1..n
    OBVIOUS
  <2>3. QED
    BY <1>1, <1>5, <1>6, <2>1, <2>2, LeftKept
<1>8. Active(data')
  BY <1>1, <1>3, RotateKeeps DEF Types, SegTypes
<1>9. Shape'
  BY <1>4, <1>7, <1>8 DEF Shape, RotateData, cptVars, histVars
<1>10. Pass'
  <2>1. n <= n + 1 /\ pbq' = "read" /\ UNCHANGED <<cmp, cpt, files, pos>>
    BY <1>4 DEF RotateData, cptVars
  <2>2. \A i \in 1..n : data[i].st # "active" => data'[i] = data[i]
    BY <1>5, <1>6
  <2>3. QED
    BY <1>1, <1>5, <2>1, <2>2, DataPassKept
<1>11. QED
  BY <1>9, <1>10

LEMMA StopReadShape == ASSUME Types, Shape, Pass, StopRead PROVE Shape' /\ Pass'
<1>1. PICK n \in Nat : Segs(Msgs, data, n)
  BY SegTypesHas DEF Types
<1>2. OneActive(data)
  BY DEF Types, SegTypes
<1>3. \/ Freezes(Msgs, data, data', n)
      \/ ~NonEmpty(data) /\ data' = data
  BY <1>1, <1>2, FreezeAny DEF StopRead
<1>4. Segs(Msgs, data', n)
  BY <1>1, <1>3 DEF Freezes
<1>5. \A i \in 1..n : data[i].st # "active" => data'[i] = data[i]
  <2>1. \A i \in 1..n : i = n \/ i \in 1..(n - 1)
    OBVIOUS
  <2>2. QED
    BY <1>3, <2>1 DEF Freezes
<1>6. \A j \in DOMAIN data' : data'[j].st = "left" => data'[j].es = <<>>
  <2>1. \A j \in 1..n : data'[j] = data[j] \/ data'[j].st # "left"
    <3>1. \A i \in 1..n : i = n \/ i \in 1..(n - 1)
      OBVIOUS
    <3>2. QED
      BY <1>3, <3>1 DEF Freezes
  <2>2. QED
    BY <1>1, <1>4, <2>1, LeftKept
<1>7. Active(data') => Last(data').es = <<>>
  <2>1. CASE ~NonEmpty(data) /\ data' = data
    BY <2>1 DEF NonEmpty
  <2>2. CASE Freezes(Msgs, data, data', n)
    <3>1. data'[n].st = "frozen"
      BY <2>2 DEF Freezes
    <3>2. ~Active(data')
      BY <1>4, <3>1, SegsHas
    <3>3. QED
      BY <3>2
  <2>3. QED
    BY <1>3, <2>1, <2>2
<1>8. Shape'
  BY <1>6, <1>7 DEF Shape, StopRead, cptVars
<1>9. Pass'
  BY <1>1, <1>4, <1>5, DataPassKept DEF StopRead, cptVars
<1>10. QED
  BY <1>8, <1>9

LEMMA StartReadShape == ASSUME Types, Shape, Pass, StartRead PROVE Shape' /\ Pass'
<1>1. PICK n \in Nat : Segs(Msgs, data, n)
  BY SegTypesHas DEF Types
<1>2. clock' \in 0..MaxClock
  BY WalAssumption DEF Types, SegTypes, StartRead
<1>3. Opens(Msgs, data, data', n, clock')
  BY <1>1, <1>2, OpenMoves DEF StartRead
<1>4. ~Active(data)
  BY DEF Shape, StartRead
<1>5. Active(data')
  BY <1>1, <1>3, <1>4, OpenKeeps DEF Types, SegTypes
<1>6. \A j \in DOMAIN data' : data'[j].st = "left" => data'[j].es = <<>>
  <2>1. data'[n + 1].st # "left" /\ (\A i \in 1..n : data'[i] = data[i]) /\ Segs(Msgs, data', n + 1)
    BY <1>3 DEF Opens
  <2>2. \A j \in 1..(n + 1) : j = n + 1 \/ j \in 1..n
    OBVIOUS
  <2>3. QED
    BY <1>1, <2>1, <2>2, LeftKept
<1>7. Shape'
  BY <1>5, <1>6 DEF Shape, StartRead, cptVars
<1>8. Pass'
  BY DEF Pass, StartRead, cptVars
<1>9. QED
  BY <1>7, <1>8

\* A step of the GC writer.
LEMMA GcShape ==
    ASSUME Types, Shape, Pass, UNCHANGED <<data, cmp, pbq, dq, cq, cpt, files, pos, out, faulty>>,
           \/ pbq # "down" /\ Active(gc')
           \/ pbq = "drain" /\ gq' = <<>>
    PROVE  Shape' /\ Pass'
<1>1. Shape'
  BY DEF Shape
<1>2. Pass'
  BY DEF Pass, Listed, First, Frozen
<1>3. QED
  BY <1>1, <1>2

LEMMA GcWriterShape ==
    ASSUME Types, Shape, Pass, WriteGc \/ RotateGc \/ StopGc \/ DeleteGc
    PROVE  Shape' /\ Pass'
<1>1. PICK g \in Nat : Segs(Event, gc, g)
  BY SegTypesHas DEF Types
<1>2. OneActive(gc)
  BY DEF Types, SegTypes
<1>3. pbq # "down"
  <2>1. WriteGc \/ RotateGc => Active(gc)
    BY DEF WriteGc, RotateGc, NonEmpty
  <2>2. DeleteGc => cpt = "delete"
    BY DEF DeleteGc
  <2>3. QED
    BY <2>1, <2>2 DEF Shape, StopGc
<1>4. UNCHANGED <<data, cmp, pbq, dq, cq, cpt, files, pos, out, faulty>>
  BY DEF WriteGc, RotateGc, StopGc, DeleteGc, cptVars, histVars
<1>5. CASE WriteGc
  <2>1. Types'
    BY <1>5, WriteGcTypes
  <2>2. Active(gc) /\ \E x : gc' = Put(gc, x)
    BY <1>5 DEF WriteGc
  <2>3. PICK x : gc' = Put(gc, x)
    BY <2>2
  <2>4. g > 0 /\ gc[g].st = "active" /\ Len(gc) = g /\ g \in 1..g /\ DOMAIN gc = 1..g
    <3>1. g > 0 /\ gc[g].st = "active"
      BY <1>1, <2>2, SegsHas
    <3>2. Len(gc) = g /\ DOMAIN gc = 1..g
      BY <1>1 DEF Segs
    <3>3. QED
      BY <3>1, <3>2
  <2>5. gc'[g].st = "active" /\ DOMAIN gc' = 1..g
    BY <2>3, <2>4 DEF Put
  <2>6. PICK h \in Nat : Segs(Event, gc', h)
    <3>1. gc' \in Seq(Segment(Event))
      BY <2>1 DEF Types, SegTypes
    <3>2. QED
      BY <3>1, SegsIs
  <2>7. h = g
    BY <1>1, <2>4, <2>5, <2>6 DEF Segs
  <2>8. Active(gc')
    BY <2>4, <2>5, <2>6, <2>7, SegsHas
  <2>9. QED
    BY <1>3, <1>4, <2>8, GcShape
<1>6. CASE RotateGc
  <2>1. clock' \in 0..MaxClock
    BY <1>6, WalAssumption DEF Types, SegTypes, RotateGc
  <2>2. Rotates(Event, gc, gc', g, clock')
    BY <1>1, <1>6, <2>1, RotateMoves DEF RotateGc
  <2>3. Active(gc')
    BY <1>1, <1>2, <2>2, RotateKeeps
  <2>4. QED
    BY <1>3, <1>4, <2>3, GcShape
<1>7. CASE StopGc
  BY <1>4, <1>7, GcShape DEF StopGc
<1>8. CASE DeleteGc
  <2>1. PICK r \in 1..g : gc[r].st = "frozen" /\ Removes(Event, gc, gc', g, r)
    BY <1>1, <1>8, DeleteIs
  <2>2. Active(gc') <=> Active(gc)
    BY <1>1, <1>2, <2>1, RemoveKeeps
  <2>3. gq' = gq
    BY <1>8 DEF DeleteGc
  <2>4. QED
    BY <1>3, <1>4, <2>2, <2>3, GcShape DEF Shape
<1>9. QED
  BY <1>5, <1>6, <1>7, <1>8

\* What a step of the compaction writer does.
LEMMA CmpWriterIs ==
    ASSUME Types, Shape, NEW n, Segs(Msgs, cmp, n), WriteCmp \/ RotateCmp
    PROVE  /\ Active(cmp) /\ pbq # "down" /\ (WriteCmp => cq # <<>>)
           /\ \/ /\ WriteCmp /\ Head(cq) # Rotate
                 /\ \E x \in Msgs : x = Head(cq) /\ Puts(Msgs, cmp, cmp', n, x)
              \/ Rotates(Msgs, cmp, cmp', n, 0) /\ (RotateCmp \/ (WriteCmp /\ Head(cq) = Rotate))
              \/ cmp' = cmp /\ WriteCmp /\ Head(cq) = Rotate
<1>1. Active(cmp) /\ (WriteCmp => cq # <<>>)
  BY DEF WriteCmp, RotateCmp, NonEmpty
<1>2. pbq # "down"
  <2>1. n > 0 /\ cmp[n].st = "active"
    BY <1>1, SegsHas
  <2>2. n \in DOMAIN cmp
    BY <2>1 DEF Segs
  <2>3. QED
    BY <2>1, <2>2 DEF Shape
<1>3. 0 \in 0..MaxClock
  BY WalAssumption
<1>4. CASE RotateCmp
  BY <1>1, <1>2, <1>3, <1>4, RotateMoves DEF RotateCmp
<1>5. CASE WriteCmp
  <2>1. PICK x \in Msgs \cup {Rotate} : x = Head(cq)
    BY <1>1, <1>5 DEF Types, QueueTypes
  <2>2. CASE x # Rotate
    <3>1. x \in Msgs /\ cmp' = Put(cmp, x)
      BY <1>5, <2>1, <2>2 DEF WriteCmp
    <3>2. Puts(Msgs, cmp, cmp', n, x)
      BY <1>1, <3>1, PutMoves
    <3>3. QED
      BY <1>1, <1>2, <1>5, <2>1, <2>2, <3>1, <3>2
  <2>3. CASE x = Rotate /\ NonEmpty(cmp)
    <3>1. cmp' = Open(Freeze(cmp), 0)
      BY <1>5, <2>1, <2>3 DEF WriteCmp
    <3>2. QED
      BY <1>1, <1>2, <1>3, <1>5, <2>1, <2>3, <3>1, RotateMoves
  <2>4. CASE x = Rotate /\ ~NonEmpty(cmp)
    BY <1>1, <1>2, <1>5, <2>1, <2>4 DEF WriteCmp
  <2>5. QED
    BY <2>2, <2>3, <2>4
<1>6. QED
  BY <1>4, <1>5

LEMMA CmpShape ==
    ASSUME Types, Shape, Pass, NEW n, NEW k, Segs(Msgs, cmp, n), Segs(Msgs, cmp', k), n <= k, pbq # "down",
           Active(cmp'), \A i \in 1..(k - 1) : cmp'[i].st = "frozen", \A i \in 1..(n - 1) : cmp'[i] = cmp[i],
           UNCHANGED <<data, gc, pbq, dq, gq, cpt, files, pos, out, faulty>>
    PROVE  Shape' /\ Pass'
<1>1. n \in Nat /\ k \in Nat /\ Len(cmp) = n /\ Len(cmp') = k
  BY DEF Segs
<1>2. Shape'
  BY <1>1 DEF Shape
<1>3. cpt = "cmp" => files \in 0..(k - 1) /\ (files > 0 => pos <= Len(cmp'[1].es))
  <2>1. cpt = "cmp" => files \in 0..(n - 1) /\ (files > 0 => pos <= Len(cmp[1].es))
    BY <1>1 DEF Pass
  <2>2. files \in 0..(n - 1) => files \in 0..(k - 1) /\ (files > 0 => 1 \in 1..(n - 1))
    BY <1>1
  <2>3. QED
    BY <2>1, <2>2
<1>4. Pass'
  BY <1>1, <1>3 DEF Pass, Listed, First, Frozen
<1>5. QED
  BY <1>2, <1>4

LEMMA CmpWriterShape == ASSUME Types, Shape, Pass, WriteCmp \/ RotateCmp PROVE Shape' /\ Pass'
<1>1. PICK n \in Nat : Segs(Msgs, cmp, n)
  BY SegTypesHas DEF Types
<1>2. /\ Active(cmp) /\ pbq # "down"
      /\ \/ \E x \in Msgs : Puts(Msgs, cmp, cmp', n, x)
         \/ Rotates(Msgs, cmp, cmp', n, 0)
         \/ cmp' = cmp
  BY <1>1, CmpWriterIs
<1>3. UNCHANGED <<data, gc, pbq, dq, gq, cpt, files, pos, out, faulty>>
  BY DEF WriteCmp, RotateCmp, cptVars, histVars
<1>4. Len(cmp) = n /\ n > 0 /\ OneActive(cmp) /\ n <= n /\ n <= n + 1
  <2>1. n > 0
    BY <1>1, <1>2, SegsHas
  <2>2. Len(cmp) = n /\ OneActive(cmp)
    BY <1>1 DEF Segs, Types, SegTypes
  <2>3. QED
    BY <2>1, <2>2
<1>5. \A i \in 1..(n - 1) : cmp[i].st = "frozen"
  BY <1>2, <1>4 DEF Shape
<1>6. CASE cmp' = cmp
  <2>1. Segs(Msgs, cmp', n) /\ Active(cmp')
    BY <1>1, <1>2, <1>6
  <2>2. QED
    BY <1>1, <1>2, <1>3, <1>4, <1>5, <1>6, <2>1, CmpShape
<1>7. CASE \E x \in Msgs : Puts(Msgs, cmp, cmp', n, x)
  <2>1. Segs(Msgs, cmp', n) /\ cmp'[n].st = "active" /\ \A i \in 1..(n - 1) : cmp'[i] = cmp[i]
    BY <1>7 DEF Puts
  <2>2. Active(cmp')
    BY <1>4, <2>1, SegsHas
  <2>3. QED
    BY <1>1, <1>2, <1>3, <1>4, <1>5, <2>1, <2>2, CmpShape
<1>8. CASE Rotates(Msgs, cmp, cmp', n, 0)
  <2>1. Segs(Msgs, cmp', n + 1) /\ cmp'[n].st = "frozen" /\ \A i \in 1..(n - 1) : cmp'[i] = cmp[i]
    BY <1>8 DEF Rotates
  <2>2. Active(cmp')
    BY <1>1, <1>4, <1>8, RotateKeeps
  <2>3. \A i \in 1..((n + 1) - 1) : cmp'[i].st = "frozen"
    <3>1. \A i \in 1..((n + 1) - 1) : i = n \/ i \in 1..(n - 1)
      OBVIOUS
    <3>2. QED
      BY <1>5, <2>1, <3>1
  <2>4. QED
    BY <1>1, <1>2, <1>3, <1>4, <2>1, <2>2, <2>3, CmpShape
<1>9. QED
  BY <1>2, <1>6, <1>7, <1>8

\* A step of the compactor, or one of PBQ, that leaves the segments alone.
LEMMA StillShape ==
    ASSUME Shape, UNCHANGED <<segVars, pbq, dq>>, pbq # "down", gq' = gq \/ Active(gc), cpt' = "snap" => cpt = "snap"
    PROVE  Shape'
  BY DEF Shape, segVars

LEMMA StartCycleShape == ASSUME Types, Shape, Pass, Snapshot \/ ReadGc PROVE Shape' /\ Pass'
<1>1. pbq # "down" /\ cpt' # "snap"
  BY DEF Shape, Snapshot, ReadGc
<1>2. Shape'
  BY <1>1, StillShape DEF Snapshot, ReadGc
<1>3. CASE Snapshot
  BY <1>2, <1>3 DEF Pass, Snapshot
<1>4. CASE ReadGc
  <2>1. PICK n \in Nat : Segs(Msgs, cmp, n)
    BY SegTypesHas DEF Types
  <2>2. Len(cmp) = n /\ Active(cmp)
    BY <1>1, <2>1 DEF Shape, Segs
  <2>3. n > 0 /\ cmp[n].st = "active"
    BY <2>1, <2>2, SegsHas
  <2>4. LastFrozen(cmp) \in 0..n /\ (LastFrozen(cmp) > 0 => cmp[LastFrozen(cmp)].st = "frozen")
    BY <2>1, LastFrozenIs
  <2>5. LastFrozen(cmp) \in 0..(n - 1)
    BY <2>3, <2>4
  <2>6. LastFrozen(cmp) > 0 => 0 <= Len(cmp[1].es)
    <3>1. 1 \in 1..n
      BY <2>3
    <3>2. Len(cmp[1].es) \in Nat
      BY <2>1, <3>1, SegsHas
    <3>3. QED
      BY <3>2
  <2>7. QED
    BY <1>2, <1>4, <2>2, <2>5, <2>6 DEF Pass, ReadGc, segVars
<1>5. QED
  BY <1>3, <1>4

\* The segment a pass is at after a step.
LEMMA FirstNext ==
    ASSUME NEW n, Segs(Msgs, data', n), files' \in Nat, Listed(data)' # {}
    PROVE  /\ First(data)' \in Listed(data)' /\ First(data)' \in 1..n /\ First(data)' <= files'
           /\ \A i \in Listed(data)' : First(data)' <= i
           /\ Len(data'[First(data)'].es) \in Nat
<1>1. Listed(data)' = {i \in {j \in DOMAIN data' : data'[j].st = "frozen"} : i <= files'}
  BY DEF Listed, Frozen
<1>2. Listed(data)' \subseteq 1..n /\ 1..n \subseteq Nat
  BY <1>1 DEF Segs
<1>3. PICK S : S = Listed(data)'
  OBVIOUS
<1>4. S \subseteq Nat /\ S # {}
  BY <1>2, <1>3
<1>5. Min(S) \in S /\ \A i \in S : Min(S) <= i
  BY <1>4, MinIs
<1>6. First(data)' = Min(S)
  BY <1>3 DEF First
<1>7. First(data)' \in 1..n /\ First(data)' <= files'
  BY <1>1, <1>2, <1>3, <1>5, <1>6
<1>8. Len(data'[First(data)'].es) \in Nat
  BY <1>7, SegsHas
<1>9. QED
  BY <1>3, <1>5, <1>6, <1>7, <1>8

LEMMA CmpPassShape == ASSUME Types, Shape, Pass, CmpPass PROVE Shape' /\ Pass'
<1>1. cpt = "cmp" /\ ReadEntry(cmp)
  BY DEF CmpPass
<1>2. pbq # "down"
  BY <1>1 DEF Shape
<1>3. Shape'
  BY <1>1, <1>2, StillShape DEF ReadEntry
<1>4. files > 0 => First(cmp) = 1
  BY <1>1, CmpFirst
<1>5. pos \in Nat /\ files' = files /\ cpt' = "cmp" /\ cmp' = cmp /\ pos' = pos + 1
  BY <1>1 DEF Types, CptTypes, ReadEntry, segVars
<1>6. Listed(cmp) # {} /\ pos < Len(cmp[First(cmp)].es)
  BY <1>1 DEF ReadEntry
<1>7. files > 0 => pos < Len(cmp[1].es)
  BY <1>4, <1>6
<1>8. PICK n \in Nat : Segs(Msgs, cmp, n)
  BY SegTypesHas DEF Types
<1>9. files > 0 => pos' <= Len(cmp[1].es)
  <2>1. files \in 0..(n - 1) /\ (files > 0 => 1 \in 1..n)
    <3>1. files \in 0..(n - 1)
      BY <1>1, <1>8 DEF Pass, Segs
    <3>2. QED
      BY <3>1
  <2>2. files > 0 => Len(cmp[1].es) \in Nat
    BY <1>8, <2>1, SegsHas
  <2>3. QED
    BY <1>5, <1>7, <2>2
<1>10. Pass'
  BY <1>1, <1>5, <1>9 DEF Pass
<1>11. QED
  BY <1>3, <1>10

LEMMA DataPassShape == ASSUME Types, Shape, Pass, DataPass PROVE Shape' /\ Pass'
<1>1. cpt = "data" /\ ReadEntry(data)
  BY DEF DataPass
<1>2. pbq # "down"
  BY <1>1 DEF Shape
<1>3. Shape'
  BY <1>1, <1>2, StillShape DEF ReadEntry
<1>4. pos \in Nat /\ UNCHANGED <<files, cpt, data, pbq>> /\ pos' = pos + 1
  BY <1>1 DEF Types, CptTypes, ReadEntry, segVars
<1>5. PICK n \in Nat : Segs(Msgs, data, n)
  BY SegTypesHas DEF Types
<1>6. pos' \in 1..Len(data[First(data)].es) /\ First(data) \in 1..n
  BY <1>1, <1>4, <1>5, ReadEntryIs
<1>7. Len(data[First(data)].es) \in Nat
  BY <1>5, <1>6, SegsHas
<1>8. pos' <= Len(data[First(data)].es)
  BY <1>6, <1>7
<1>9. Listed(data)' = Listed(data) /\ First(data)' = First(data) /\ Frozen(data)' = Frozen(data)
  BY <1>4 DEF Listed, First, Frozen
<1>10. Pass'
  BY <1>1, <1>4, <1>8, <1>9 DEF Pass
<1>11. QED
  BY <1>3, <1>10

LEMMA SwitchCmpIs ==
    ASSUME Types, Shape, Pass, SwitchCmp, NEW n, Segs(Msgs, cmp, n)
    PROVE  /\ files \in 1..(n - 1) /\ First(cmp) = 1 /\ pos = Len(cmp[1].es)
           /\ cmp[1].st = "frozen" /\ pbq # "down"
           /\ Segs(Msgs, cmp', n - 1) /\ n > 1 /\ \A i \in 1..(n - 1) : cmp'[i] = cmp[i + 1]
<1>1. cpt = "cmp" /\ Listed(cmp) # {} /\ pos = Len(cmp[First(cmp)].es)
  BY DEF SwitchCmp
<1>2. files > 0 /\ First(cmp) = 1 /\ files \in 0..(Len(cmp) - 1) /\ pbq # "down"
  BY <1>1, CmpFirst
<1>3. n \in Nat /\ Len(cmp) = n
  BY DEF Segs
<1>4. files \in 1..(n - 1) /\ n > 1 /\ 1 \in 1..n
  BY <1>2, <1>3
<1>5. Removes(Msgs, cmp, cmp', n, 1)
  BY <1>2, <1>4, RemoveMoves DEF SwitchCmp
<1>6. cmp[1].st = "frozen"
  BY <1>1, <1>2, FirstIs
<1>7. \A i \in 1..(n - 1) : cmp'[i] = cmp[i + 1]
  <2>1. \A i \in 1..(n - 1) : i >= 1
    OBVIOUS
  <2>2. QED
    BY <1>5, <2>1 DEF Removes
<1>8. Segs(Msgs, cmp', n - 1)
  BY <1>5 DEF Removes
<1>9. QED
  BY <1>1, <1>2, <1>4, <1>6, <1>7, <1>8

LEMMA SwitchCmpShape == ASSUME Types, Shape, Pass, SwitchCmp PROVE Shape' /\ Pass'
<1>1. PICK n \in Nat : Segs(Msgs, cmp, n)
  BY SegTypesHas DEF Types
<1>2. /\ files \in 1..(n - 1) /\ pbq # "down" /\ n > 1
      /\ Segs(Msgs, cmp', n - 1) /\ \A i \in 1..(n - 1) : cmp'[i] = cmp[i + 1]
  BY <1>1, SwitchCmpIs
<1>3. PICK k \in Nat : k = n - 1
  BY <1>2
<1>4. Segs(Msgs, cmp', k) /\ (\A i \in 1..k : cmp'[i] = cmp[i + 1]) /\ Len(cmp') = k /\ k > 0
  BY <1>2, <1>3 DEF Segs
<1>5. Active(cmp) /\ (\A i \in 1..(n - 1) : cmp[i].st = "frozen")
  BY <1>1, <1>2 DEF Shape, Segs
<1>6. cmp[n].st = "active" /\ k \in 1..k /\ k + 1 = n
  BY <1>1, <1>3, <1>4, <1>5, SegsHas
<1>7. Active(cmp')
  BY <1>4, <1>6, SegsHas
<1>8. \A i \in 1..(k - 1) : cmp'[i].st = "frozen"
  <2>1. \A i \in 1..(k - 1) : i \in 1..k /\ i + 1 \in 1..(n - 1)
    BY <1>3
  <2>2. QED
    BY <1>4, <1>5, <2>1
<1>9. Shape'
  BY <1>2, <1>4, <1>7, <1>8 DEF Shape, SwitchCmp, histVars
<1>10. files' \in 0..(k - 1) /\ pos' = 0 /\ cpt' = "cmp"
  BY <1>2, <1>3 DEF SwitchCmp
<1>11. files' > 0 => pos' <= Len(cmp'[1].es)
  <2>1. 1 \in 1..k
    BY <1>4
  <2>2. Len(cmp'[1].es) \in Nat
    BY <1>4, <2>1, SegsHas
  <2>3. QED
    BY <1>10, <2>2
<1>12. Pass'
  BY <1>4, <1>10, <1>11 DEF Pass
<1>13. QED
  BY <1>9, <1>12

LEMMA SwitchDataIs ==
    ASSUME Types, Shape, Pass, SwitchData, NEW n, Segs(Msgs, data, n)
    PROVE  /\ First(data) \in 1..n /\ First(data) <= files /\ pos = Len(data[First(data)].es)
           /\ data[First(data)].st = "frozen" /\ pbq # "down" /\ files \in 1..n
           /\ Removes(Msgs, data, data', n, First(data))
           /\ \A i \in Listed(data) : First(data) <= i
<1>1. cpt = "data" /\ Listed(data) # {} /\ pos = Len(data[First(data)].es)
  BY DEF SwitchData
<1>2. /\ First(data) \in 1..n /\ First(data) <= files /\ data[First(data)].st = "frozen"
      /\ \A i \in Listed(data) : First(data) <= i
  BY <1>1, FirstIs
<1>3. Removes(Msgs, data, data', n, First(data))
  BY <1>2, RemoveMoves DEF SwitchData
<1>4. pbq # "down"
  BY <1>1 DEF Shape
<1>5. files \in 0..n
  BY <1>1 DEF Pass, Segs
<1>6. files \in 1..n
  BY <1>2, <1>5
<1>7. QED
  BY <1>1, <1>2, <1>3, <1>4, <1>6

LEMMA SwitchDataShape == ASSUME Types, Shape, Pass, SwitchData PROVE Shape' /\ Pass'
<1>1. PICK n \in Nat : Segs(Msgs, data, n)
  BY SegTypesHas DEF Types
<1>2. PICK r \in 1..n : r = First(data)
  BY <1>1, SwitchDataIs
<1>3. /\ r <= files /\ data[r].st = "frozen" /\ pbq # "down" /\ files \in 1..n
      /\ Removes(Msgs, data, data', n, r) /\ \A i \in Listed(data) : r <= i
  BY <1>1, <1>2, SwitchDataIs
<1>4. PICK k \in Nat : k = n - 1
  BY <1>2
<1>5. Segs(Msgs, data', k) /\ \A i \in 1..k : (i < r => data'[i] = data[i]) /\ (i >= r => data'[i] = data[i + 1])
  BY <1>3, <1>4 DEF Removes
<1>6. \A i \in 1..k : i \in 1..n /\ i + 1 \in 1..n
  BY <1>4
<1>7. \A j \in DOMAIN data' : data'[j].st = "left" => data'[j].es = <<>>
  <2>1. \A j \in 1..k : j < r \/ j >= r
    BY <1>2, <1>6
  <2>2. \A j \in 1..k : \E i \in 1..n : data'[j] = data[i]
    BY <1>5, <1>6, <2>1
  <2>3. QED
    BY <1>1, <1>5, <2>2, LeftKept
<1>8. OneActive(data)
  BY DEF Types, SegTypes
<1>9. Active(data') <=> Active(data)
  BY <1>1, <1>3, <1>8, RemoveKeeps
<1>10. Active(data) => Last(data') = Last(data)
  <2> SUFFICES ASSUME Active(data) PROVE Last(data') = Last(data)
    OBVIOUS
  <2>1. n > 0 /\ data[n].st = "active"
    BY <1>1, SegsHas
  <2>2. r # n
    BY <1>3, <2>1
  <2>3. k \in 1..k /\ k >= r /\ k + 1 = n
    BY <1>2, <1>4, <2>2
  <2>4. data'[k] = data[n]
    BY <1>5, <2>3
  <2>5. Len(data) = n /\ Len(data') = k
    BY <1>1, <1>5 DEF Segs
  <2>6. QED
    BY <2>4, <2>5 DEF Last
<1>11. Shape'
  BY <1>3, <1>7, <1>9, <1>10 DEF Shape, SwitchData
<1>12. files' \in 0..k /\ pos' = 0 /\ cpt' = "data" /\ cpt = "data" /\ files' = files - 1 /\ Len(data') = k
  BY <1>3, <1>4, <1>5 DEF SwitchData, Segs
<1>13. \A i \in 1..files' : data'[i].st # "active"
  <2>1. \A i \in 1..files : data[i].st # "active"
    BY <1>12 DEF Pass
  <2>2. \A i \in 1..files' : i \in 1..files /\ i + 1 \in 1..files /\ i \in 1..k
    BY <1>3, <1>4, <1>12
  <2>3. \A i \in 1..files' : data'[i] = data[i] \/ data'[i] = data[i + 1]
    <3>1. \A i \in 1..files' : i < r \/ i >= r
      BY <1>2, <1>12
    <3>2. QED
      BY <1>5, <2>2, <3>1
  <2>4. QED
    BY <2>1, <2>2, <2>3
<1>14. Listed(data)' # {} => pos' <= Len(data'[First(data)'].es)
  <2>1. files' \in Nat
    BY <1>12
  <2>2. Listed(data)' # {} => Len(data'[First(data)'].es) \in Nat
    BY <1>5, <2>1, FirstNext
  <2>3. QED
    BY <1>12, <2>2
<1>15. pbq' = "boot" => \A i \in Frozen(data)' : i <= files'
  <2> SUFFICES ASSUME pbq' = "boot", NEW i \in Frozen(data)' PROVE i <= files'
    OBVIOUS
  <2>1. i \in 1..k /\ data'[i].st = "frozen"
    BY <1>5 DEF Frozen, Segs
  <2>2. \A j \in 1..n : data[j].st = "frozen" => j <= files
    <3>1. \A j \in Frozen(data) : j <= files
      BY <1>12 DEF Pass, SwitchData
    <3>2. QED
      BY <1>1, <3>1 DEF Frozen, Segs
  <2>3. CASE i < r
    <3>1. i \in 1..n /\ data[i].st = "frozen"
      BY <1>5, <1>6, <2>1, <2>3
    <3>2. i \in Listed(data)
      BY <1>1, <2>2, <3>1 DEF Listed, Frozen, Segs
    <3>3. QED
      BY <1>2, <1>3, <2>3, <3>1, <3>2
  <2>4. CASE i >= r
    <3>1. i + 1 \in 1..n /\ data[i + 1].st = "frozen"
      BY <1>5, <1>6, <2>1, <2>4
    <3>2. i + 1 <= files
      BY <2>2, <3>1
    <3>3. QED
      BY <1>3, <1>12, <2>1, <3>2
  <2>5. QED
    BY <1>2, <2>1, <2>3, <2>4
<1>16. Pass'
  BY <1>12, <1>13, <1>14, <1>15 DEF Pass
<1>17. QED
  BY <1>11, <1>16

LEMMA EndPassShape == ASSUME Types, Shape, Pass, EndCmpPass \/ EndDataPass PROVE Shape' /\ Pass'
<1>1. pbq # "down" /\ cpt' # "snap"
  BY DEF Shape, EndCmpPass, EndDataPass
<1>2. Shape'
  BY <1>1, StillShape DEF EndCmpPass, EndDataPass
<1>3. PICK n \in Nat : Segs(Msgs, data, n)
  BY SegTypesHas DEF Types
<1>4. CASE EndCmpPass
  <2>1. /\ LastFrozen(data) \in 0..n /\ (\A i \in Frozen(data) : i <= LastFrozen(data))
        /\ LastFrozen(data) > 0 => data[LastFrozen(data)].st = "frozen"
    BY <1>3, LastFrozenIs
  <2>2. PICK f : f = LastFrozen(data)
    OBVIOUS
  <2>3. \A i \in 1..f : data[i].st # "active"
    <3>1. \A i \in 1..n : data[i].st = "active" => i = n
      BY <1>3 DEF Types, SegTypes, OneActive, Segs
    <3>2. \A i \in 1..f : i \in 1..n /\ (i = n => i = f)
      BY <2>1, <2>2
    <3>3. QED
      BY <2>1, <2>2, <3>1, <3>2
  <2>4. files' = f /\ pos' = 0 /\ cpt' = "data" /\ data' = data /\ Len(data) = n /\ files' \in Nat
    BY <1>3, <1>4, <2>1, <2>2 DEF EndCmpPass, segVars, Segs
  <2>5. Listed(data)' # {} => pos' <= Len(data'[First(data)'].es)
    <3>1. Segs(Msgs, data', n)
      BY <1>3, <2>4
    <3>2. Listed(data)' # {} => Len(data'[First(data)'].es) \in Nat
      BY <2>4, <3>1, FirstNext
    <3>3. QED
      BY <2>4, <3>2
  <2>6. Frozen(data)' = Frozen(data)
    BY <2>4 DEF Frozen
  <2>7. QED
    BY <1>2, <2>1, <2>2, <2>3, <2>4, <2>5, <2>6 DEF Pass
<1>5. CASE EndDataPass
  <2>1. pbq = "boot" => Frozen(data) = {}
    BY <1>5 DEF Pass, EndDataPass, Listed
  <2>2. Frozen(data)' = Frozen(data)
    BY <1>5 DEF EndDataPass, segVars, Frozen
  <2>3. QED
    BY <1>2, <1>5, <2>1, <2>2 DEF Pass, EndDataPass
<1>6. QED
  BY <1>4, <1>5

LEMMA QuietShape ==
    ASSUME Types, Shape, Pass, EndCycle \/ CompactFails \/ CompactorStops \/ Cancel
    PROVE  Shape' /\ Pass'
<1>1. pbq # "down" /\ (cpt' = "snap" => cpt = "snap")
  BY DEF Shape, EndCycle, CompactFails, CompactorStops, Cancel, cptVars
<1>2. Shape'
  BY <1>1, StillShape DEF EndCycle, CompactFails, CompactorStops, Cancel
<1>3. Frozen(data)' = Frozen(data)
  BY DEF EndCycle, CompactFails, CompactorStops, Cancel, segVars, Frozen
<1>4. CASE Cancel
  BY <1>2, <1>4 DEF Cancel, segVars, cptVars, Pass, Listed, First, Frozen
<1>5. CASE EndCycle
  BY <1>2, <1>3, <1>5 DEF EndCycle, Pass
<1>6. CASE CompactFails
  BY <1>2, <1>6 DEF CompactFails, Pass
<1>7. CASE CompactorStops
  BY <1>2, <1>7 DEF CompactorStops, Pass
<1>8. QED
  BY <1>4, <1>5, <1>6, <1>7

LEMMA ReadShape == ASSUME Types, Shape, Pass, Read PROVE Shape' /\ Pass'
<1>1. Shape'
  BY DEF Shape, Read, segVars, cptVars
<1>2. Pass'
  BY DEF Pass, Read, segVars, cptVars, Listed, First, Frozen
<1>3. QED
  BY <1>1, <1>2

LEMMA CloseWindowShape ==
    ASSUME Types, Shape, Pass, NEW k, NEW e, CloseWindow(k, e)
    PROVE  Shape' /\ Pass'
<1>1. Shape'
  BY StillShape DEF CloseWindow, cptVars
<1>2. Pass'
  BY DEF Pass, CloseWindow, segVars, cptVars, histVars, Listed, First, Frozen
<1>3. QED
  BY <1>1, <1>2

LEMMA DownShape == ASSUME Types, Shape, Pass, Exit \/ Kill PROVE Shape' /\ Pass'
<1>1. /\ Types' /\ ~Active(data') /\ ~Active(gc')
      /\ \A i \in DOMAIN cmp' : cmp'[i].st = "frozen"
  BY DownTypes
<1>2. Down
  BY DEF Exit, Kill
<1>3. \A j \in DOMAIN data' : data'[j].st = "left" => data'[j].es = <<>>
  <2>1. PICK n \in Nat : Segs(Msgs, data, n)
    BY SegTypesHas DEF Types
  <2>2. Leaves(Msgs, data, data', n) \/ data' = data
    BY <1>2, <2>1, LeaveAny DEF Types, SegTypes, Down
  <2>3. Segs(Msgs, data', n)
    BY <2>1, <2>2 DEF Leaves
  <2>4. \A j \in 1..n : data'[j] = data[j] \/ data'[j].es = <<>>
    <3>1. \A i \in 1..n : i = n \/ i \in 1..(n - 1)
      OBVIOUS
    <3>2. QED
      BY <2>2, <3>1 DEF Leaves
  <2>5. QED
    BY <2>1, <2>3, <2>4, LeftKept
<1>4. Shape'
  BY <1>1, <1>2, <1>3 DEF Shape, Down
<1>5. Pass'
  BY <1>2 DEF Pass, Down
<1>6. QED
  BY <1>4, <1>5

LEMMA BootShape == ASSUME Types, Shape, Pass, Boot PROVE Shape' /\ Pass'
<1>1. PICK g \in Nat : Segs(Event, gc, g)
  BY SegTypesHas DEF Types
<1>2. PICK n \in Nat : Segs(Msgs, cmp, n)
  BY SegTypesHas DEF Types
<1>3. clock' \in 0..MaxClock /\ 0 \in 0..MaxClock
  BY WalAssumption DEF Types, SegTypes, Boot
<1>4. ~Active(gc) /\ \A i \in 1..n : cmp[i].st = "frozen"
  BY <1>2 DEF Shape, Boot, Segs
<1>5. Opens(Event, gc, gc', g, clock') /\ Opens(Msgs, cmp, cmp', n, 0)
  BY <1>1, <1>2, <1>3, OpenMoves DEF Boot
<1>6. Active(gc')
  BY <1>1, <1>4, <1>5, OpenKeeps DEF Types, SegTypes
<1>7. /\ Active(cmp') /\ Len(cmp') = n + 1 /\ \A i \in 1..((n + 1) - 1) : cmp'[i].st = "frozen"
  <2>1. Segs(Msgs, cmp', n + 1) /\ cmp'[n + 1].st = "active" /\ \A i \in 1..n : cmp'[i] = cmp[i]
    BY <1>5 DEF Opens
  <2>2. n + 1 > 0 /\ (n + 1) - 1 = n
    OBVIOUS
  <2>3. Active(cmp')
    BY <2>1, <2>2, SegsHas
  <2>4. QED
    BY <1>4, <2>1, <2>2, <2>3 DEF Segs
<1>8. Shape'
  BY <1>6, <1>7 DEF Shape, Boot
<1>9. Pass'
  BY DEF Pass, Boot
<1>10. QED
  BY <1>8, <1>9

LEMMA InitStruct == ASSUME Init PROVE Struct
<1>1. /\ \A S : <<>> \in Seq(S)
      /\ \A S : \A x \in S : <<x>> \in Seq(S) /\ Len(<<x>>) = 1 /\ <<x>>[1] = x /\ DOMAIN <<x>> = 1..1
  OBVIOUS
<1>2. 0 \in 0..MaxClock /\ 1 \in 0..MaxClock /\ -1 \in -1..MaxClock /\ 0 \in 0..MaxTime /\ 0 \in 0..MaxStops
  BY WalAssumption
<1> DEFINE f(t) == [ts |-> t, es |-> <<>>, st |-> "active"]
<1>3. \A t \in 0..MaxClock : f(t) \in Segment(Event) /\ f(t) \in Segment(Msgs)
  BY DEF Segment, States
<1>4. /\ f(1) \in Segment(Event) /\ f(0) \in Segment(Msgs) /\ f(1).ts >= 1 /\ f(0).st = "active"
      /\ f(1).st = "active" /\ f(0).es = <<>>
  BY <1>2, <1>3
<1>5. gc = <<f(1)>> /\ cmp = <<f(0)>> /\ data = <<>>
  BY DEF Init
<1> HIDE DEF f
<1>6. /\ gc \in Seq(Segment(Event)) /\ Len(gc) = 1 /\ gc[1] = f(1) /\ DOMAIN gc = 1..1
      /\ cmp \in Seq(Segment(Msgs)) /\ Len(cmp) = 1 /\ cmp[1] = f(0) /\ DOMAIN cmp = 1..1
      /\ data \in Seq(Segment(Msgs)) /\ DOMAIN data = {} /\ Len(data) = 0
  <2>1. /\ gc \in Seq(Segment(Event)) /\ Len(gc) = 1 /\ gc[1] = f(1) /\ DOMAIN gc = 1..1
    BY <1>1, <1>4, <1>5
  <2>2. /\ cmp \in Seq(Segment(Msgs)) /\ Len(cmp) = 1 /\ cmp[1] = f(0) /\ DOMAIN cmp = 1..1
    BY <1>1, <1>4, <1>5
  <2>3. /\ data \in Seq(Segment(Msgs)) /\ DOMAIN data = {} /\ Len(data) = 0
    BY <1>5
  <2>4. QED
    BY <2>1, <2>2, <2>3
<1>7. SegTypes
  BY <1>2, <1>4, <1>6 DEF SegTypes, OneActive, Init
<1>8. QueueTypes
  BY <1>1 DEF QueueTypes, Init
<1>9. CptTypes
  BY <1>2 DEF CptTypes, Init
<1>10. RestTypes
  BY <1>1, <1>2 DEF RestTypes, Init
<1>11. ~Active(data) /\ Active(gc) /\ Active(cmp)
  <2>1. gc # <<>> /\ cmp # <<>>
    BY <1>6, SegIs
  <2>2. QED
    BY <1>4, <1>5, <1>6, <2>1 DEF Active, Last
<1>12. Shape
  BY <1>6, <1>11 DEF Shape, Init
<1>13. Pass
  BY DEF Pass, Init
<1>14. QED
  BY <1>7, <1>8, <1>9, <1>10, <1>12, <1>13 DEF Struct, Types

LEMMA StructStep == ASSUME Struct, [Next]_vars PROVE Struct'
<1>0. Types /\ Shape /\ Pass
  BY DEF Struct
<1> USE DEF Struct
<1>1. CASE WriteData
  BY <1>0, <1>1, WriteDataTypes, WriteDataShape
<1>2. CASE RotateData
  BY <1>0, <1>2, RotateDataTypes, RotateDataShape
<1>3. CASE WriteGc \/ RotateGc \/ StopGc \/ DeleteGc
  BY <1>0, <1>3, WriteGcTypes, RotateGcTypes, StopGcTypes, DeleteGcTypes, GcWriterShape
<1>4. CASE WriteCmp \/ RotateCmp
  BY <1>0, <1>4, WriteCmpTypes, RotateCmpTypes, CmpWriterShape
<1>5. CASE Snapshot \/ ReadGc
  BY <1>0, <1>5, SnapshotTypes, ReadGcTypes, StartCycleShape
<1>6. CASE CmpPass
  <2>1. PICK n \in Nat : Segs(Msgs, cmp, n)
    BY <1>0, SegTypesHas DEF Types
  <2>2. Types'
    BY <1>0, <1>6, <2>1, ReadEntryTypes DEF CmpPass
  <2>3. QED
    BY <1>0, <1>6, <2>2, CmpPassShape
<1>7. CASE DataPass
  <2>1. PICK n \in Nat : Segs(Msgs, data, n)
    BY <1>0, SegTypesHas DEF Types
  <2>2. Types'
    BY <1>0, <1>7, <2>1, ReadEntryTypes DEF DataPass
  <2>3. QED
    BY <1>0, <1>7, <2>2, DataPassShape
<1>8. CASE SwitchCmp \/ SwitchData
  BY <1>0, <1>8, SwitchTypes, SwitchCmpShape, SwitchDataShape
<1>9. CASE EndCmpPass \/ EndDataPass
  BY <1>0, <1>9, EndPassTypes, EndPassShape
<1>10. CASE EndCycle \/ CompactFails \/ CompactorStops \/ Cancel
  BY <1>0, <1>10, QuietTypes, QuietShape
<1>11. CASE StartRead
  BY <1>0, <1>11, StartReadTypes, StartReadShape
<1>12. CASE Read
  BY <1>0, <1>12, ReadTypes, ReadShape
<1>13. CASE \E k \in Keys, e \in 1..MaxTime : CloseWindow(k, e)
  BY <1>0, <1>13, CloseWindowTypes, CloseWindowShape
<1>14. CASE StopRead
  BY <1>0, <1>14, StopReadTypes, StopReadShape
<1>15. CASE Exit \/ Kill
  BY <1>0, <1>15, DownTypes, DownShape
<1>16. CASE Boot
  BY <1>0, <1>16, BootTypes, BootShape
<1>17. CASE UNCHANGED vars
  <2>1. Types'
    BY <1>0, <1>17 DEF Types, SegTypes, QueueTypes, CptTypes, RestTypes, vars, segVars, cptVars, redVars, histVars
  <2>2. Shape' /\ Pass'
    BY <1>0, <1>17 DEF Shape, Pass, Listed, First, Frozen, vars, segVars, cptVars, redVars, histVars
  <2>3. QED
    BY <2>1, <2>2
<1>18. QED
  BY <1>1, <1>2, <1>3, <1>4, <1>5, <1>6, <1>7, <1>8, <1>9, <1>10, <1>11, <1>12, <1>13, <1>14, <1>15,
     <1>16, <1>17 DEF Next, WriterNext, CompactorNext, BoundReached

\* Segments keep their kind and the compactor its bounds: a writer has at most one active
\* segment and it is the last one it opened, whatever was stopped, killed or failed.
THEOREM WalTypes == Spec => []TypeOK
<1>1. Init => Struct
  BY InitStruct
<1>2. Struct /\ [Next]_vars => Struct'
  BY StructStep
<1>3. Struct => TypeOK
  BY DEF Struct, Types, SegTypes, QueueTypes, CptTypes, RestTypes, TypeOK
<1>4. QED
  BY <1>1, <1>2, <1>3, PTL DEF Spec

(***************************************************************************)
(* What the segments hold, before and after an operation.                  *)
(***************************************************************************)

\* m is an entry of one of the first n segments.
InUpTo(segs, n, m) == \E i \in DOMAIN segs : i <= n /\ m \in Range(segs[i].es)

LEMMA NoEntry == \A m : m \notin Range(<<>>)
  BY DEF Range

\* Operations that add or drop empty segments only.
LEMMA SameEntries ==
    ASSUME NEW E, NEW s, NEW t, NEW n, NEW k, Segs(E, s, n), Segs(E, t, k),
           \A i \in 1..n : (i \in 1..k /\ t[i].es = s[i].es) \/ (i \notin 1..k /\ s[i].es = <<>>),
           \A i \in 1..k : i \in 1..n \/ t[i].es = <<>>
    PROVE  \A j, m : (InAfter(t, j, m) <=> InAfter(s, j, m)) /\ (InUpTo(t, j, m) <=> InUpTo(s, j, m))
<1>1. DOMAIN s = 1..n /\ DOMAIN t = 1..k
  BY DEF Segs
<1>2. \A i \in 1..n : \A m : m \in Range(s[i].es) => i \in 1..k /\ m \in Range(t[i].es)
  BY NoEntry
<1>3. \A i \in 1..k : \A m : m \in Range(t[i].es) => i \in 1..n /\ m \in Range(s[i].es)
  BY NoEntry
<1>4. QED
  BY <1>1, <1>2, <1>3 DEF InAfter, InUpTo

LEMMA FreezesHas ==
    ASSUME NEW E, NEW s, NEW t, NEW n, Segs(E, s, n), Freezes(E, s, t, n)
    PROVE  \A j, m : (InAfter(t, j, m) <=> InAfter(s, j, m)) /\ (InUpTo(t, j, m) <=> InUpTo(s, j, m))
<1>1. Segs(E, t, n) /\ \A i \in 1..n : t[i].es = s[i].es
  BY DEF Freezes
<1>2. QED
  BY <1>1, SameEntries

LEMMA RotatesHas ==
    ASSUME NEW E, NEW s, NEW t, NEW n, NEW c, Segs(E, s, n), Rotates(E, s, t, n, c)
    PROVE  \A j, m : (InAfter(t, j, m) <=> InAfter(s, j, m)) /\ (InUpTo(t, j, m) <=> InUpTo(s, j, m))
<1>1. /\ n \in Nat /\ Segs(E, t, n + 1) /\ (\A i \in 1..n : t[i].es = s[i].es) /\ t[n + 1].es = <<>>
  BY DEF Rotates
<1>2. \A i \in 1..(n + 1) : i \in 1..n \/ i = n + 1
  BY <1>1
<1>3. \A i \in 1..n : i \in 1..(n + 1)
  BY <1>1
<1>4. QED
  BY <1>1, <1>2, <1>3, SameEntries

LEMMA OpensHas ==
    ASSUME NEW E, NEW s, NEW t, NEW n, NEW c, Segs(E, s, n), Opens(E, s, t, n, c)
    PROVE  \A j, m : (InAfter(t, j, m) <=> InAfter(s, j, m)) /\ (InUpTo(t, j, m) <=> InUpTo(s, j, m))
<1>1. /\ n \in Nat /\ Segs(E, t, n + 1) /\ (\A i \in 1..n : t[i].es = s[i].es) /\ t[n + 1].es = <<>>
  BY DEF Opens
<1>2. \A i \in 1..(n + 1) : i \in 1..n \/ i = n + 1
  BY <1>1
<1>3. \A i \in 1..n : i \in 1..(n + 1)
  BY <1>1
<1>4. QED
  BY <1>1, <1>2, <1>3, SameEntries

LEMMA LeavesHas ==
    ASSUME NEW E, NEW s, NEW t, NEW n, Segs(E, s, n), Leaves(E, s, t, n)
    PROVE  /\ \A m : Holds(t, m) => Holds(s, m)
           /\ s[n].es = <<>> => \A m : Holds(t, m) <=> Holds(s, m)
<1>1. n \in Nat /\ n > 0 /\ Segs(E, t, n) /\ (\A i \in 1..(n - 1) : t[i] = s[i]) /\ t[n].es = <<>>
  BY DEF Leaves
<1>2. DOMAIN s = 1..n /\ DOMAIN t = 1..n
  BY <1>1 DEF Segs
<1>3. \A i \in 1..n : i = n \/ i \in 1..(n - 1)
  BY <1>1
<1>4. \A i \in 1..n : \A m : m \in Range(t[i].es) => m \in Range(s[i].es)
  BY <1>1, <1>3, NoEntry
<1>5. s[n].es = <<>> => \A i \in 1..n : \A m : m \in Range(s[i].es) => m \in Range(t[i].es)
  BY <1>1, <1>3, NoEntry
<1>6. QED
  BY <1>2, <1>4, <1>5 DEF Holds, InAfter

LEMMA ForgetsHas ==
    ASSUME NEW E, NEW s, NEW t, NEW n, Segs(E, s, n), Forgets(E, s, t, n)
    PROVE  /\ \A m : Holds(t, m) => Holds(s, m)
           /\ s[n].es = <<>> => \A m : Holds(t, m) <=> Holds(s, m)
<1>1. n \in Nat /\ n > 0 /\ Segs(E, t, n - 1) /\ (\A i \in 1..(n - 1) : t[i] = s[i])
  BY DEF Forgets
<1>2. DOMAIN s = 1..n /\ DOMAIN t = 1..(n - 1) /\ \A i \in 1..(n - 1) : i \in 1..n
  BY <1>1 DEF Segs
<1>3. \A i \in 1..n : i = n \/ i \in 1..(n - 1)
  BY <1>1
<1>4. \A i \in 1..(n - 1) : \A m : m \in Range(t[i].es) => m \in Range(s[i].es)
  BY <1>1
<1>5. s[n].es = <<>> => \A i \in 1..n : \A m : m \in Range(s[i].es) => i \in 1..(n - 1) /\ m \in Range(t[i].es)
  BY <1>1, <1>3, NoEntry
<1>6. QED
  BY <1>2, <1>4, <1>5 DEF Holds, InAfter

LEMMA PutsHas ==
    ASSUME NEW E, NEW s, NEW t, NEW n, NEW x \in E, Segs(E, s, n), Puts(E, s, t, n, x), NEW k \in Nat, k < n
    PROVE  \A m : (InAfter(t, k, m) <=> InAfter(s, k, m) \/ m = x) /\ (InUpTo(t, k, m) <=> InUpTo(s, k, m))
<1>1. n \in Nat /\ n > 0 /\ Segs(E, t, n) /\ (\A i \in 1..(n - 1) : t[i] = s[i])
  BY DEF Puts
<1>2. PICK y \in Seq(E) : s[n].es = y /\ t[n].es = Append(y, x)
  BY DEF Puts
<1>3. Range(t[n].es) = Range(s[n].es) \cup {x}
  BY <1>2, RangeAppend
<1>4. DOMAIN s = 1..n /\ DOMAIN t = 1..n /\ n \in 1..n /\ n > k
  BY <1>1 DEF Segs
<1>5. \A i \in 1..n : i = n \/ i \in 1..(n - 1)
  BY <1>1
<1>6. \A i \in 1..n : i <= k => i \in 1..(n - 1)
  BY <1>1
<1>7. \A m : InAfter(t, k, m) => InAfter(s, k, m) \/ m = x
  BY <1>1, <1>3, <1>4, <1>5 DEF InAfter
<1>8. \A m : InAfter(s, k, m) \/ m = x => InAfter(t, k, m)
  BY <1>1, <1>3, <1>4, <1>5 DEF InAfter
<1>9. \A m : InUpTo(t, k, m) <=> InUpTo(s, k, m)
  BY <1>1, <1>4, <1>6 DEF InUpTo
<1>10. QED
  BY <1>7, <1>8, <1>9

LEMMA RemovesHas ==
    ASSUME NEW E, NEW s, NEW t, NEW n, NEW r, Segs(E, s, n), Removes(E, s, t, n, r)
    PROVE  /\ \A m : Holds(t, m) => Holds(s, m)
           /\ \A m : Holds(s, m) => Holds(t, m) \/ m \in Range(s[r].es)
<1>1. n \in Nat /\ r \in 1..n /\ Segs(E, t, n - 1)
  BY DEF Removes
<1>2. \A i \in 1..(n - 1) : (i < r => t[i] = s[i]) /\ (i >= r => t[i] = s[i + 1])
  BY DEF Removes
<1>3. DOMAIN s = 1..n /\ DOMAIN t = 1..(n - 1) /\ \A i \in 1..(n - 1) : i \in 1..n /\ i + 1 \in 1..n /\ i > 0
  BY <1>1 DEF Segs
<1>4. \A i \in 1..(n - 1) : t[i] = s[i] \/ t[i] = s[i + 1]
  <2>1. \A i \in 1..(n - 1) : i < r \/ i >= r
    BY <1>1
  <2>2. QED
    BY <1>2, <2>1
<1>5. \A i \in 1..n : i = r \/ (i \in 1..(n - 1) /\ i < r) \/ (i - 1 \in 1..(n - 1) /\ i - 1 >= r /\ (i - 1) + 1 = i)
  BY <1>1
<1>6. \A i \in 1..n : i = r \/ \E j \in 1..(n - 1) : t[j] = s[i]
  BY <1>2, <1>5
<1>7. \A j \in 1..(n - 1) : \E i \in 1..n : t[j] = s[i]
  BY <1>3, <1>4
<1>8. \A m : Holds(t, m) <=> \E i \in 1..(n - 1) : m \in Range(t[i].es)
  BY <1>3 DEF Holds, InAfter
<1>9. \A m : Holds(s, m) <=> \E i \in 1..n : m \in Range(s[i].es)
  <2>1. \A i \in 1..n : i > 0
    BY <1>1
  <2>2. QED
    BY <1>3, <2>1 DEF Holds, InAfter
<1>10. QED
  BY <1>6, <1>7, <1>8, <1>9

\* The first of the segments is gone, and the others move up.
LEMMA ShiftHas ==
    ASSUME NEW E, NEW s, NEW t, NEW n, NEW k, Segs(E, s, n), k \in 1..n, Segs(E, t, n - 1),
           \A i \in 1..(n - 1) : t[i] = s[i + 1]
    PROVE  /\ \A m : InAfter(t, k - 1, m) <=> InAfter(s, k, m)
           /\ \A m : InUpTo(s, k, m) => InUpTo(t, k - 1, m) \/ m \in Range(s[1].es)
           /\ \A m : InUpTo(t, k - 1, m) => InUpTo(s, k, m)
           /\ \A m : Holds(t, m) => Holds(s, m)
           /\ \A m : Holds(s, m) => Holds(t, m) \/ m \in Range(s[1].es)
<1>1. n \in Nat /\ DOMAIN s = 1..n /\ DOMAIN t = 1..(n - 1) /\ k \in Nat
  BY DEF Segs
<1>2. \A i \in 1..(n - 1) : i + 1 \in 1..n /\ (i > k - 1 <=> i + 1 > k) /\ (i <= k - 1 <=> i + 1 <= k) /\ i + 1 > 0
  BY <1>1
<1>3. \A i \in 1..n : i = 1 \/ (i - 1 \in 1..(n - 1) /\ (i - 1) + 1 = i /\ i - 1 > 0
                                 /\ (i > k <=> i - 1 > k - 1) /\ (i <= k <=> i - 1 <= k - 1))
  BY <1>1
<1>4. \A i \in 1..n : i = 1 \/ s[i] = t[i - 1]
  BY <1>3
<1>5. ~(1 > k)
  BY <1>1
<1>6. ASSUME NEW m, InAfter(t, k - 1, m) PROVE InAfter(s, k, m)
  BY <1>1, <1>2, <1>6 DEF InAfter
<1>7. ASSUME NEW m, InAfter(s, k, m) PROVE InAfter(t, k - 1, m)
  BY <1>1, <1>3, <1>4, <1>5, <1>7 DEF InAfter
<1>8. ASSUME NEW m, InUpTo(s, k, m) PROVE InUpTo(t, k - 1, m) \/ m \in Range(s[1].es)
  BY <1>1, <1>3, <1>4, <1>8 DEF InUpTo
<1>9. ASSUME NEW m, InUpTo(t, k - 1, m) PROVE InUpTo(s, k, m)
  BY <1>1, <1>2, <1>9 DEF InUpTo
<1>10. ASSUME NEW m, Holds(t, m) PROVE Holds(s, m)
  BY <1>1, <1>2, <1>10 DEF Holds, InAfter
<1>11. ASSUME NEW m, Holds(s, m) PROVE Holds(t, m) \/ m \in Range(s[1].es)
  BY <1>1, <1>3, <1>4, <1>11 DEF Holds, InAfter
<1>12. QED
  BY <1>6, <1>7, <1>8, <1>9, <1>10, <1>11

(***************************************************************************)
(* No GC event runs ahead of the windows that were closed.                 *)
(***************************************************************************)

Ahead ==
    /\ \A k \in Keys : oldest[k] <= closed[k]
    /\ \A x \in Range(gq) : x.end <= closed[x.key]
    /\ \A x \in Event : Holds(gc, x) => x.end <= closed[x.key]

\* No event is added, and no window is reopened.
LEMMA AheadKept ==
    ASSUME Types, Ahead, oldest' = oldest \/ oldest' = [k \in Keys |-> 0], closed' = closed,
           Range(gq') \subseteq Range(gq), \A x \in Event : Holds(gc', x) => Holds(gc, x)
    PROVE  Ahead'
<1>1. \A k \in Keys : closed[k] \in 0..MaxTime
  BY DEF Types, RestTypes
<1>2. \A k \in Keys : 0 <= closed[k]
  BY <1>1, WalAssumption
<1>3. \A k \in Keys : oldest'[k] <= closed'[k]
  BY <1>2 DEF Ahead
<1>4. QED
  BY <1>3 DEF Ahead

LEMMA WriteGcAhead == ASSUME Types, Ahead, WriteGc PROVE Ahead'
<1>1. PICK n \in Nat : Segs(Event, gc, n)
  BY SegTypesHas DEF Types
<1> DEFINE R == [key : Keys, end : 1..MaxTime]
           C(e) == {m \in acked \cap done : Key[m] = e.key /\ Et[m] < e.end}
<1>2. gq \in Seq(R) /\ gq # <<>>
  BY DEF Types, QueueTypes, WriteGc
<1>3. PICK e \in R : e = Head(gq) /\ Range(gq) = {e} \cup Range(Tail(gq))
  <2> HIDE DEF R
  <2>1. QED
    BY <1>2, SeqTail
<1>4. C(e) \subseteq Msgs
  BY DEF Types, RestTypes
<1>5. gc' = Put(gc, [key |-> e.key, end |-> e.end, covers |-> C(e)])
  BY <1>3 DEF WriteGc
<1> HIDE DEF C
<1>6. [key |-> e.key, end |-> e.end, covers |-> C(e)] \in Event
  BY <1>4 DEF Event
<1>7. PICK x \in Event : x = [key |-> e.key, end |-> e.end, covers |-> C(e)]
  BY <1>6, Zenon
<1>8. x.key = e.key /\ x.end = e.end
  BY <1>7
<1>9. Active(gc) /\ gc' = Put(gc, x)
  BY <1>5, <1>7 DEF WriteGc
<1>10. Puts(Event, gc, gc', n, x)
  BY <1>1, <1>9, PutMoves
<1>11. n > 0
  BY <1>10 DEF Puts
<1>12. \A y : Holds(gc', y) <=> Holds(gc, y) \/ y = x
  BY <1>1, <1>10, <1>11, PutsHas DEF Holds
<1>13. e.end <= closed[e.key]
  BY <1>3 DEF Ahead
<1>14. UNCHANGED <<oldest, closed>> /\ gq' = Tail(gq)
  BY DEF WriteGc, cptVars, redVars
<1>15. QED
  BY <1>3, <1>8, <1>12, <1>13, <1>14 DEF Ahead

LEMMA GcWriterAhead == ASSUME Types, Ahead, RotateGc \/ StopGc \/ DeleteGc PROVE Ahead'
<1>1. PICK n \in Nat : Segs(Event, gc, n)
  BY SegTypesHas DEF Types
<1>2. UNCHANGED <<oldest, closed, gq>>
  BY DEF RotateGc, StopGc, DeleteGc, cptVars, redVars
<1>3. \A x : Holds(gc', x) => Holds(gc, x)
  <2>1. CASE RotateGc
    <3>1. clock' \in 0..MaxClock
      BY <2>1, WalAssumption DEF Types, SegTypes, RotateGc
    <3>2. Rotates(Event, gc, gc', n, clock')
      BY <1>1, <2>1, <3>1, RotateMoves DEF RotateGc
    <3>3. QED
      BY <1>1, <3>2, RotatesHas DEF Holds
  <2>2. CASE StopGc
    <3>1. Freezes(Event, gc, gc', n)
      BY <1>1, <2>2, FreezeMoves DEF StopGc
    <3>2. QED
      BY <1>1, <3>1, FreezesHas DEF Holds
  <2>3. CASE DeleteGc
    <3>1. PICK r : Removes(Event, gc, gc', n, r)
      BY <1>1, <2>3, DeleteIs
    <3>2. QED
      BY <1>1, <3>1, RemovesHas
  <2>4. QED
    BY <2>1, <2>2, <2>3
<1>4. QED
  BY <1>2, <1>3, AheadKept

LEMMA ReadGcAhead == ASSUME Types, Ahead, ReadGc PROVE Ahead'
<1>1. UNCHANGED <<closed, gq, gc>>
  BY DEF ReadGc, segVars, redVars
<1>2. oldest' = [k \in Keys |-> IF GcEnds(k) = {} THEN 0 ELSE Max(GcEnds(k))]
  BY DEF ReadGc, GcEnds
<1>3. ASSUME NEW k \in Keys PROVE oldest'[k] <= closed[k]
  <2>1. closed[k] \in 0..MaxTime
    BY DEF Types, RestTypes
  <2>2. 0 <= closed[k]
    BY <2>1, WalAssumption
  <2>3. CASE GcEnds(k) = {}
    BY <1>2, <2>2, <2>3
  <2>4. CASE GcEnds(k) # {}
    <3>1. Max(GcEnds(k)) \in GcEnds(k)
      BY <2>4, OldestIs DEF Types
    <3>2. PICK x \in Entries(gc) : x.key = k /\ x.end = Max(GcEnds(k))
      BY <3>1 DEF GcEnds
    <3>3. x \in Event
      BY EventsAre DEF Types
    <3>4. Holds(gc, x)
      <4>1. PICK n \in Nat : Segs(Event, gc, n)
        BY SegTypesHas DEF Types
      <4>2. PICK i \in Frozen(gc) : x \in Range(gc[i].es)
        BY DEF Entries
      <4>3. i \in DOMAIN gc /\ i > 0
        BY <4>1 DEF Frozen, Segs
      <4>4. QED
        BY <4>2, <4>3 DEF Holds, InAfter
    <3>5. x.end <= closed[k]
      BY <3>2, <3>3, <3>4 DEF Ahead
    <3>6. QED
      BY <1>2, <2>4, <3>2, <3>5
  <2>5. QED
    BY <2>3, <2>4
<1>4. QED
  BY <1>1, <1>3 DEF Ahead

LEMMA CloseWindowAhead ==
    ASSUME Types, Ahead, NEW k \in Keys, NEW e \in 1..MaxTime, CloseWindow(k, e)
    PROVE  Ahead'
<1>1. closed \in [Keys -> 0..MaxTime] /\ MaxTime \in Nat /\ oldest \in [Keys -> 0..MaxTime]
  BY WalAssumption DEF Types, RestTypes, CptTypes
<1>2. closed' = [closed EXCEPT ![k] = IF e > @ THEN e ELSE @] /\ UNCHANGED <<gc, oldest>>
  BY DEF CloseWindow, segVars, cptVars
<1>3. e <= closed'[k] /\ \A j \in Keys : closed[j] <= closed'[j]
  BY <1>1, <1>2
<1>4. \A j \in Keys : closed[j] \in Int /\ closed'[j] \in Int /\ oldest[j] \in Int
  BY <1>1, <1>2
<1> DEFINE R == [key : Keys, end : 1..MaxTime]
<1>5. PICK x \in R : x = [key |-> k, end |-> e]
  OBVIOUS
<1>6. \A y \in R : y.key \in Keys /\ y.end \in Int
  BY <1>1
<1>7. x.key = k /\ x.end = e
  BY <1>5
<1>8. gq \in Seq(R) /\ gq' = Append(gq, x)
  BY <1>5 DEF Types, QueueTypes, CloseWindow
<1> HIDE DEF R
<1>9. Range(gq') = Range(gq) \cup {x} /\ Range(gq) \subseteq R
  BY <1>8, RangeAppend, SeqRange
<1>10. \A y \in Range(gq') : y.end <= closed'[y.key]
  <2> TAKE y \in Range(gq')
  <2>1. CASE y = x
    BY <1>3, <1>7, <2>1
  <2>2. CASE y \in Range(gq)
    <3>1. y.end <= closed[y.key] /\ y.key \in Keys /\ y.end \in Int
      BY <1>6, <1>9, <2>2 DEF Ahead
    <3>2. QED
      BY <1>3, <1>4, <3>1
  <2>3. QED
    BY <1>9, <2>1, <2>2
<1>11. \A y \in Event : Holds(gc', y) => y.end <= closed'[y.key]
  <2> SUFFICES ASSUME NEW y \in Event, Holds(gc', y) PROVE y.end <= closed'[y.key]
    OBVIOUS
  <2>1. y.key \in Keys /\ y.end \in Int
    BY <1>1 DEF Event
  <2>2. y.end <= closed[y.key]
    BY <1>2 DEF Ahead
  <2>3. QED
    BY <1>3, <1>4, <2>1, <2>2
<1>12. \A j \in Keys : oldest'[j] <= closed'[j]
  BY <1>2, <1>3, <1>4 DEF Ahead
<1>13. QED
  BY <1>10, <1>11, <1>12 DEF Ahead

LEMMA PodAhead == ASSUME Types, Ahead, Exit \/ Kill \/ Boot PROVE Ahead'
<1>1. PICK n \in Nat : Segs(Event, gc, n)
  BY SegTypesHas DEF Types
<1>2. CASE Boot
  <2>1. clock' \in 0..MaxClock
    BY <1>2, WalAssumption DEF Types, SegTypes, Boot
  <2>2. Opens(Event, gc, gc', n, clock')
    BY <1>1, <1>2, <2>1, OpenMoves DEF Boot
  <2>3. \A x : Holds(gc', x) => Holds(gc, x)
    BY <1>1, <2>2, OpensHas DEF Holds
  <2>4. UNCHANGED <<oldest, closed, gq>>
    BY <1>2 DEF Boot, redVars
  <2>5. QED
    BY <2>3, <2>4, AheadKept
<1>3. CASE Exit \/ Kill
  <2>1. Down
    BY <1>3 DEF Exit, Kill
  <2>2. Leaves(Event, gc, gc', n) \/ gc' = gc
    BY <1>1, <2>1, LeaveAny DEF Types, SegTypes, Down
  <2>3. \A x : Holds(gc', x) => Holds(gc, x)
    BY <1>1, <2>2, LeavesHas
  <2>4. oldest' = [k \in Keys |-> 0] /\ closed' = closed /\ gq' = <<>>
    BY <2>1 DEF Down
  <2>5. Range(gq') \subseteq Range(gq)
    BY <2>4, NoEntry
  <2>6. QED
    BY <2>3, <2>4, <2>5, AheadKept
<1>4. QED
  BY <1>2, <1>3

LEMMA AheadStep == ASSUME Struct, Ahead, [Next]_vars PROVE Ahead'
<1>0. Types
  BY DEF Struct
<1>1. CASE WriteGc \/ RotateGc \/ StopGc \/ DeleteGc
  BY <1>0, <1>1, WriteGcAhead, GcWriterAhead
<1>2. CASE ReadGc
  BY <1>0, <1>2, ReadGcAhead
<1>3. CASE \E k \in Keys, e \in 1..MaxTime : CloseWindow(k, e)
  BY <1>0, <1>3, CloseWindowAhead
<1>4. CASE Exit \/ Kill \/ Boot
  BY <1>0, <1>4, PodAhead
<1>5. CASE WriteData \/ RotateData \/ WriteCmp \/ RotateCmp \/ StartRead \/ Read \/ StopRead \/ Cancel
  <2>1. UNCHANGED <<gc, gq, oldest, closed>>
    BY <1>5 DEF WriteData, RotateData, WriteCmp, RotateCmp, StartRead, Read, StopRead, Cancel, segVars, cptVars, redVars
  <2>2. QED
    BY <1>0, <2>1, AheadKept
<1>6. CASE Snapshot \/ CmpPass \/ SwitchCmp \/ EndCmpPass \/ DataPass \/ SwitchData \/ EndDataPass
  <2>1. UNCHANGED <<gc, gq, oldest, closed>>
    BY <1>6 DEF Snapshot, CmpPass, SwitchCmp, EndCmpPass, DataPass, SwitchData, EndDataPass, ReadEntry, segVars, redVars
  <2>2. QED
    BY <1>0, <2>1, AheadKept
<1>7. CASE EndCycle \/ CompactFails \/ CompactorStops
  <2>1. UNCHANGED <<gc, gq, closed>> /\ (oldest' = oldest \/ oldest' = [k \in Keys |-> 0])
    BY <1>7 DEF EndCycle, CompactFails, CompactorStops, segVars, redVars
  <2>2. QED
    BY <1>0, <2>1, AheadKept
<1>8. CASE UNCHANGED vars
  <2>1. UNCHANGED <<gc, gq, oldest, closed>>
    BY <1>8 DEF vars, segVars, cptVars, redVars
  <2>2. QED
    BY <1>0, <2>1, AheadKept
<1>9. QED
  BY <1>1, <1>2, <1>3, <1>4, <1>5, <1>6, <1>7, <1>8 DEF Next, WriterNext, CompactorNext, BoundReached

(***************************************************************************)
(* Nothing acked is lost.                                                  *)
(***************************************************************************)

\* The compaction segments that the cycle has still to read are the first Old ones; what was
\* copied in this cycle is in the channel or in a later one, and what is left to read is in a data
\* segment or in one of the first.
Old == IF cpt \in {"snap", "gc"} THEN Len(cmp) - 1 ELSE IF cpt = "cmp" THEN files ELSE 0
Copied(m) == m \in Range(cq) \/ InAfter(cmp, Old, m)
Left(m) == Holds(data, m) \/ InUpTo(cmp, Old, m)

\* What is stored was acked.
Stored == \A m \in Msgs : Holds(data, m) \/ Holds(cmp, m) \/ m \in Range(cq) => m \in acked

\* The boot cycle starts with nothing to write and with an empty segment to write to.
Fresh == pbq = "boot" /\ cpt \in {"snap", "gc"} => cq = <<>> /\ Last(cmp).es = <<>>

\* What was acked and is not finished is still stored.
Safe == \A m \in acked : m \in done \/ Holds(data, m) \/ Holds(cmp, m) \/ m \in Range(cq)

\* An entry the pass is past is finished, or was copied and, at boot, replayed.
Taken(m) == m \in done \/ (Copied(m) /\ (pbq = "boot" => m \in Range(out)))
Passed ==
    /\ cpt = "cmp" /\ files > 0 => \A p \in 1..pos : Taken(cmp[1].es[p])
    /\ cpt = "data" /\ Listed(data) # {} => \A p \in 1..pos : Taken(data[First(data)].es[p])

Replayed ==
    /\ pbq = "boot" => \A m \in Msgs : Copied(m) => m \in Range(out) \cup done
    /\ Range(out) \subseteq todo \cup done

\* Every message is with the reducer or, at boot, still to be read from a segment.
Accounted ==
    /\ pbq = "boot" => \A m \in acked : m \in todo \cup done \/ Holds(data, m) \/ InUpTo(cmp, Old, m)
    /\ pbq \in {"read", "drain"} => acked \cup Range(dq) \subseteq todo \cup done

\* What is older than a closed window is finished.
Late == \A m \in acked \cup Range(dq) : Et[m] < closed[Key[m]] => m \in done

Sound == Safe /\ Passed /\ Replayed /\ Accounted /\ Late

LEMMA MsgsNotRotate == ASSUME NEW m \in Msgs PROVE m # Rotate /\ m \in Nat
  BY WalAssumption DEF Msgs, Rotate

LEMMA OldIs ==
    ASSUME Struct, NEW n, Segs(Msgs, cmp, n)
    PROVE  Old \in Nat /\ (pbq # "down" => Old < n)
<1>1. n \in Nat /\ Len(cmp) = n
  BY DEF Segs
<1>2. CASE pbq # "down"
  <2>1. Active(cmp)
    BY <1>2 DEF Struct, Shape
  <2>2. n > 0
    BY <2>1, SegsHas
  <2>3. cpt = "cmp" => files \in 0..(n - 1)
    BY <1>1 DEF Struct, Pass
  <2>4. QED
    BY <1>1, <2>2, <2>3 DEF Old
<1>3. CASE pbq = "down"
  BY <1>3 DEF Struct, Shape, Old
<1>4. QED
  BY <1>2, <1>3

\* The compaction writer moves entries from the channel to a segment.
LEMMA CmpWriterHas ==
    ASSUME Struct, WriteCmp \/ RotateCmp
    PROVE  /\ \A m \in Msgs : Holds(cmp', m) \/ m \in Range(cq') <=> Holds(cmp, m) \/ m \in Range(cq)
           /\ cpt \notin {"snap", "gc"} =>
                 /\ Old' = Old
                 /\ \A m \in Msgs : (Copied(m)' <=> Copied(m)) /\ (InUpTo(cmp', Old, m) <=> InUpTo(cmp, Old, m))
<1>1. PICK n \in Nat : Segs(Msgs, cmp, n)
  BY SegTypesHas DEF Struct, Types
<1>2. /\ Active(cmp) /\ pbq # "down" /\ (WriteCmp => cq # <<>>)
      /\ \/ /\ WriteCmp /\ Head(cq) # Rotate
            /\ \E x \in Msgs : x = Head(cq) /\ Puts(Msgs, cmp, cmp', n, x)
         \/ Rotates(Msgs, cmp, cmp', n, 0) /\ (RotateCmp \/ (WriteCmp /\ Head(cq) = Rotate))
         \/ cmp' = cmp /\ WriteCmp /\ Head(cq) = Rotate
  BY <1>1, CmpWriterIs DEF Struct
<1>3. PICK o \in Nat : o = Old /\ o < n
  BY <1>1, <1>2, OldIs
<1>4. cpt \notin {"snap", "gc"} => Old' = Old
  BY DEF WriteCmp, RotateCmp, cptVars, Old
<1>5. cq \in Seq(Msgs \cup {Rotate})
  BY DEF Struct, Types, QueueTypes
<1>6. WriteCmp => Range(cq) = {Head(cq)} \cup Range(cq')
  BY <1>2, <1>5, SeqTail DEF WriteCmp
<1>7. RotateCmp => cq' = cq
  BY DEF RotateCmp
<1>8. /\ \A m \in Msgs : (Holds(cmp', m) \/ m \in Range(cq') <=> Holds(cmp, m) \/ m \in Range(cq))
      /\ \A m \in Msgs : /\ m \in Range(cq') \/ InAfter(cmp', o, m) <=> m \in Range(cq) \/ InAfter(cmp, o, m)
                         /\ InUpTo(cmp', o, m) <=> InUpTo(cmp, o, m)
  <2>1. CASE /\ WriteCmp /\ Head(cq) # Rotate
             /\ \E x \in Msgs : x = Head(cq) /\ Puts(Msgs, cmp, cmp', n, x)
    <3>1. PICK x \in Msgs : x = Head(cq) /\ Puts(Msgs, cmp, cmp', n, x)
      BY <2>1
    <3>2. 0 < n /\ 0 \in Nat
      BY <1>3
    <3>3. \A m : Holds(cmp', m) <=> Holds(cmp, m) \/ m = x
      BY <1>1, <3>1, <3>2, PutsHas DEF Holds
    <3>4. \A m : (InAfter(cmp', o, m) <=> InAfter(cmp, o, m) \/ m = x) /\ (InUpTo(cmp', o, m) <=> InUpTo(cmp, o, m))
      BY <1>1, <1>3, <3>1, PutsHas
    <3>5. QED
      BY <1>6, <2>1, <3>1, <3>3, <3>4
  <2>2. CASE Rotates(Msgs, cmp, cmp', n, 0) /\ (RotateCmp \/ (WriteCmp /\ Head(cq) = Rotate))
    <3>1. \A j, m : (InAfter(cmp', j, m) <=> InAfter(cmp, j, m)) /\ (InUpTo(cmp', j, m) <=> InUpTo(cmp, j, m))
      BY <1>1, <2>2, RotatesHas
    <3>2. \A m \in Msgs : m \in Range(cq') <=> m \in Range(cq)
      BY <1>6, <1>7, <2>2, MsgsNotRotate
    <3>3. QED
      BY <3>1, <3>2 DEF Holds
  <2>3. CASE cmp' = cmp /\ WriteCmp /\ Head(cq) = Rotate
    <3>1. \A m \in Msgs : m \in Range(cq') <=> m \in Range(cq)
      BY <1>6, <2>3, MsgsNotRotate
    <3>2. QED
      BY <2>3, <3>1
  <2>4. QED
    BY <1>2, <2>1, <2>2, <2>3
<1>9. QED
  BY <1>3, <1>4, <1>8 DEF Copied

\* The pass over compaction segments drops the first of them.
LEMMA SwitchCmpHas ==
    ASSUME Struct, SwitchCmp
    PROVE  /\ \A m \in Msgs : m \in Range(cq') <=> m \in Range(cq)
           /\ \A m \in Msgs : Copied(m)' <=> Copied(m)
           /\ \A m : InUpTo(cmp, Old, m) => InUpTo(cmp', Old', m) \/ m \in Range(cmp[1].es)
           /\ \A m : InUpTo(cmp', Old', m) => InUpTo(cmp, Old, m)
           /\ \A m : Holds(cmp', m) => Holds(cmp, m)
           /\ \A m : Holds(cmp, m) => Holds(cmp', m) \/ m \in Range(cmp[1].es)
           /\ files > 0 /\ cpt = "cmp" /\ \A m \in Range(cmp[1].es) : \E p \in 1..pos : m = cmp[1].es[p]
<1>1. PICK n \in Nat : Segs(Msgs, cmp, n)
  BY SegTypesHas DEF Struct, Types
<1>2. /\ files \in 1..(n - 1) /\ pos = Len(cmp[1].es) /\ n > 1
      /\ Segs(Msgs, cmp', n - 1) /\ \A i \in 1..(n - 1) : cmp'[i] = cmp[i + 1]
  BY <1>1, SwitchCmpIs DEF Struct
<1>3. Old = files /\ Old' = files - 1 /\ files \in 1..n /\ cpt = "cmp"
  BY <1>2 DEF Old, SwitchCmp
<1>4. cq \in Seq(Msgs \cup {Rotate}) /\ cq' = Append(cq, Rotate)
  BY DEF Struct, Types, QueueTypes, SwitchCmp
<1>5. \A m \in Msgs : m \in Range(cq') <=> m \in Range(cq)
  <2>1. Range(cq') = Range(cq) \cup {Rotate}
    BY <1>4, RangeAppend
  <2>2. QED
    BY <2>1, MsgsNotRotate
<1>6. /\ \A m : InAfter(cmp', files - 1, m) <=> InAfter(cmp, files, m)
      /\ \A m : InUpTo(cmp, files, m) => InUpTo(cmp', files - 1, m) \/ m \in Range(cmp[1].es)
      /\ \A m : InUpTo(cmp', files - 1, m) => InUpTo(cmp, files, m)
      /\ \A m : Holds(cmp', m) => Holds(cmp, m)
      /\ \A m : Holds(cmp, m) => Holds(cmp', m) \/ m \in Range(cmp[1].es)
  BY <1>1, <1>2, <1>3, ShiftHas
<1>7. \A m \in Range(cmp[1].es) : \E p \in 1..pos : m = cmp[1].es[p]
  <2>1. 1 \in 1..n
    BY <1>2
  <2>2. cmp[1].es \in Seq(Msgs)
    BY <1>1, <2>1, SegsHas
  <2>3. QED
    BY <1>2, <2>2, SeqRange
<1>8. QED
  BY <1>2, <1>3, <1>5, <1>6, <1>7 DEF Copied

LEMMA SwitchDataHas ==
    ASSUME Struct, SwitchData
    PROVE  /\ \A m \in Msgs : m \in Range(cq') <=> m \in Range(cq)
           /\ \A m \in Msgs : Copied(m)' <=> Copied(m)
           /\ \A m : Holds(data', m) => Holds(data, m)
           /\ \A m : Holds(data, m) => Holds(data', m) \/ m \in Range(data[First(data)].es)
           /\ \A m \in Range(data[First(data)].es) : \E p \in 1..pos : m = data[First(data)].es[p]
           /\ cpt = "data" /\ Listed(data) # {} /\ Old = 0 /\ Old' = 0
<1>1. PICK n \in Nat : Segs(Msgs, data, n)
  BY SegTypesHas DEF Struct, Types
<1>2. /\ First(data) \in 1..n /\ pos = Len(data[First(data)].es)
      /\ Removes(Msgs, data, data', n, First(data))
  BY <1>1, SwitchDataIs DEF Struct
<1>3. Old = 0 /\ Old' = 0 /\ cpt = "data" /\ Listed(data) # {} /\ cmp' = cmp
  BY DEF Old, SwitchData
<1>4. cq \in Seq(Msgs \cup {Rotate}) /\ cq' = Append(cq, Rotate)
  BY DEF Struct, Types, QueueTypes, SwitchData
<1>5. \A m \in Msgs : m \in Range(cq') <=> m \in Range(cq)
  <2>1. Range(cq') = Range(cq) \cup {Rotate}
    BY <1>4, RangeAppend
  <2>2. QED
    BY <2>1, MsgsNotRotate
<1>6. /\ \A m : Holds(data', m) => Holds(data, m)
      /\ \A m : Holds(data, m) => Holds(data', m) \/ m \in Range(data[First(data)].es)
  BY <1>1, <1>2, RemovesHas
<1>7. \A m \in Range(data[First(data)].es) : \E p \in 1..pos : m = data[First(data)].es[p]
  <2>1. data[First(data)].es \in Seq(Msgs)
    BY <1>1, <1>2, SegsHas
  <2>2. QED
    BY <1>2, <2>1, SeqRange
<1>8. QED
  BY <1>3, <1>5, <1>6, <1>7 DEF Copied

\* One read of a pass.
LEMMA ReadEntryHas ==
    ASSUME Struct, NEW segs, NEW n, Segs(Msgs, segs, n), ReadEntry(segs), NEW m, m = segs[First(segs)].es[pos']
    PROVE  /\ m \in Msgs /\ m \in Range(segs[First(segs)].es) /\ First(segs) \in 1..n /\ pos' = pos + 1
           /\ \/ /\ Range(cq') = Range(cq) \cup {m}
                 /\ pbq = "boot" => /\ todo' = todo \cup {m} /\ done' = done
                                    /\ Range(out') = Range(out) \cup {m}
                 /\ pbq # "boot" => UNCHANGED <<todo, done, out>>
              \/ ~ShouldRetain(m) /\ UNCHANGED <<cq, todo, done, out>>
<1>1. /\ First(segs) \in 1..n /\ pos' = pos + 1 /\ pos' \in 1..Len(segs[First(segs)].es) /\ m \in Msgs
  BY ReadEntryIs DEF Struct, Types, CptTypes
<1>2. segs[First(segs)].es \in Seq(Msgs)
  BY <1>1, SegsHas
<1>3. m \in Range(segs[First(segs)].es)
  BY <1>1, <1>2, SeqRange
<1>4. cq \in Seq(Msgs \cup {Rotate}) /\ out \in Seq(Msgs) /\ m \in Msgs \cup {Rotate}
  BY <1>1 DEF Struct, Types, QueueTypes, RestTypes
<1>5. Range(Append(cq, m)) = Range(cq) \cup {m} /\ Range(Append(out, m)) = Range(out) \cup {m}
  BY <1>1, <1>4, RangeAppend
<1>6. CASE ShouldRetain(m)
  <2>1. cq' = Append(cq, m)
    BY <1>6 DEF ReadEntry
  <2>2. pbq = "boot" => todo' = todo \cup {m} /\ done' = done /\ out' = Append(out, m)
    BY <1>6 DEF ReadEntry, Deliver
  <2>3. pbq # "boot" => UNCHANGED <<todo, done, out>>
    BY <1>6 DEF ReadEntry
  <2>4. QED
    BY <1>1, <1>3, <1>5, <2>1, <2>2, <2>3
<1>7. CASE ~ShouldRetain(m)
  <2>1. UNCHANGED <<cq, todo, done, out>>
    BY <1>7 DEF ReadEntry
  <2>2. QED
    BY <1>1, <1>3, <1>7, <2>1
<1>8. QED
  BY <1>6, <1>7

LEMMA WriteDataHas ==
    ASSUME Struct, WriteData
    PROVE  \E x \in Msgs : /\ x = Head(dq) /\ Range(dq) = {x} \cup Range(dq') /\ acked' = acked \cup {x}
                           /\ \A m : Holds(data', m) <=> Holds(data, m) \/ m = x
<1>1. PICK n \in Nat : Segs(Msgs, data, n)
  BY SegTypesHas DEF Struct, Types
<1>2. dq \in Seq(Msgs) /\ dq # <<>> /\ dq' = Tail(dq)
  BY DEF Struct, Types, QueueTypes, WriteData
<1>3. PICK x \in Msgs : x = Head(dq) /\ Range(dq) = {x} \cup Range(dq')
  BY <1>2, SeqTail
<1>4. Puts(Msgs, data, data', n, x)
  BY <1>1, <1>3, PutMoves DEF WriteData
<1>5. n > 0
  BY <1>4 DEF Puts
<1>6. \A m : Holds(data', m) <=> Holds(data, m) \/ m = x
  BY <1>1, <1>4, <1>5, PutsHas DEF Holds
<1>7. QED
  BY <1>3, <1>6 DEF WriteData

\* The data writer, when it opens or freezes a segment.
LEMMA DataWriterHas ==
    ASSUME Struct, RotateData \/ StopRead \/ StartRead
    PROVE  \A m : Holds(data', m) <=> Holds(data, m)
<1>1. PICK n \in Nat : Segs(Msgs, data, n)
  BY SegTypesHas DEF Struct, Types
<1>2. CASE RotateData
  <2>1. clock' \in 0..MaxClock
    BY <1>2, WalAssumption DEF Struct, Types, SegTypes, RotateData
  <2>2. Rotates(Msgs, data, data', n, clock')
    BY <1>1, <1>2, <2>1, RotateMoves DEF RotateData
  <2>3. QED
    BY <1>1, <2>2, RotatesHas DEF Holds
<1>3. CASE StopRead
  <2>1. OneActive(data)
    BY DEF Struct, Types, SegTypes
  <2>2. Freezes(Msgs, data, data', n) \/ data' = data
    BY <1>1, <1>3, <2>1, FreezeAny DEF StopRead
  <2>3. QED
    BY <1>1, <2>2, FreezesHas DEF Holds
<1>4. CASE StartRead
  <2>1. clock' \in 0..MaxClock
    BY <1>4, WalAssumption DEF Struct, Types, SegTypes, StartRead
  <2>2. Opens(Msgs, data, data', n, clock')
    BY <1>1, <1>4, <2>1, OpenMoves DEF StartRead
  <2>3. QED
    BY <1>1, <2>2, OpensHas DEF Holds
<1>5. QED
  BY <1>2, <1>3, <1>4

\* A pod that is gone leaves no more than there was, and all of it when nothing went wrong.
LEMMA DownHas ==
    ASSUME Struct, Exit \/ Kill
    PROVE  /\ \A m : (Holds(data', m) => Holds(data, m)) /\ (Holds(cmp', m) => Holds(cmp, m))
           /\ Exit => \A m : (Holds(data', m) <=> Holds(data, m)) /\ (Holds(cmp', m) <=> Holds(cmp, m))
<1>1. PICK d \in Nat : Segs(Msgs, data, d)
  BY SegTypesHas DEF Struct, Types
<1>2. PICK n \in Nat : Segs(Msgs, cmp, n)
  BY SegTypesHas DEF Struct, Types
<1>3. OneActive(data) /\ OneActive(cmp)
  BY DEF Struct, Types, SegTypes
<1>4. (Active(data) /\ Leaves(Msgs, data, data', d)) \/ data' = data
  BY <1>1, <1>3, LeaveAny DEF Exit, Kill, Down
<1>5. \A m : Holds(data', m) => Holds(data, m)
  BY <1>1, <1>4, LeavesHas
<1>6. Exit => \A m : Holds(data', m) <=> Holds(data, m)
  <2>1. Exit /\ Active(data) => Last(data).es = <<>>
    BY DEF Struct, Shape, Exit
  <2>2. Len(data) = d
    BY <1>1 DEF Segs
  <2>3. Exit /\ Active(data) => data[d].es = <<>>
    BY <2>1, <2>2 DEF Last
  <2>4. QED
    BY <1>1, <1>4, <2>3, LeavesHas
<1>7. pbq # "down" /\ Len(cmp) = n
  BY <1>2 DEF Exit, Kill, Segs
<1>8. Active(cmp) /\ \A i \in 1..(n - 1) : cmp[i].st = "frozen"
  BY <1>7 DEF Struct, Shape
<1>9. Kill => \A m : Holds(cmp', m) => Holds(cmp, m)
  <2>1. Kill => Forgets(Msgs, cmp, cmp', n)
    BY <1>2, <1>8, ForgetMoves DEF Kill
  <2>2. QED
    BY <1>2, <2>1, ForgetsHas
<1>10. Exit => \A m : Holds(cmp', m) <=> Holds(cmp, m)
  <2>1. Exit => Freezes(Msgs, cmp, cmp', n) \/ (~NonEmpty(cmp) /\ Forgets(Msgs, cmp, cmp', n))
    BY <1>2, <1>3, <1>8, FreezeForget DEF Exit
  <2>2. ~NonEmpty(cmp) => cmp[n].es = <<>>
    BY <1>2, <1>8, SegsHas
  <2>3. QED
    BY <1>2, <2>1, <2>2, FreezesHas, ForgetsHas DEF Holds
<1>11. QED
  BY <1>5, <1>6, <1>9, <1>10

LEMMA BootHas ==
    ASSUME Struct, Boot
    PROVE  /\ \A m : Holds(cmp', m) <=> Holds(cmp, m)
           /\ \A m : Holds(cmp, m) => InUpTo(cmp', Old', m)
           /\ \A m : ~Copied(m)' 
           /\ cq' = <<>> /\ cq = <<>>
<1>1. PICK n \in Nat : Segs(Msgs, cmp, n)
  BY SegTypesHas DEF Struct, Types
<1>2. 0 \in 0..MaxClock
  BY WalAssumption
<1>3. Opens(Msgs, cmp, cmp', n, 0)
  BY <1>1, <1>2, OpenMoves DEF Boot
<1>4. \A j, m : (InAfter(cmp', j, m) <=> InAfter(cmp, j, m)) /\ (InUpTo(cmp', j, m) <=> InUpTo(cmp, j, m))
  BY <1>1, <1>3, OpensHas
<1>5. Old' = n
  <2>1. Len(cmp') = n + 1
    BY <1>3 DEF Opens, Segs
  <2>2. Old' = Len(cmp') - 1
    BY DEF Old, Boot
  <2>3. QED
    BY <2>1, <2>2
<1>6. DOMAIN cmp = 1..n
  BY <1>1 DEF Segs
<1>7. \A m : Holds(cmp, m) => InUpTo(cmp, n, m)
  BY <1>6 DEF Holds, InAfter, InUpTo
<1>8. \A m : ~InAfter(cmp, n, m)
  BY <1>6 DEF InAfter
<1>9. cq = <<>> /\ cq' = cq
  BY DEF Struct, Shape, Boot
<1>10. QED
  BY <1>4, <1>5, <1>7, <1>8, <1>9, NoEntry DEF Holds, Copied

LEMMA StoredKept ==
    ASSUME Stored, acked' = acked,
           \A m \in Msgs : Holds(data', m) \/ Holds(cmp', m) \/ m \in Range(cq')
                              => Holds(data, m) \/ Holds(cmp, m) \/ m \in Range(cq)
    PROVE  Stored'
  BY DEF Stored

LEMMA ReadEntryStored ==
    ASSUME Struct, Stored, NEW segs, NEW n, Segs(Msgs, segs, n), ReadEntry(segs), segs = data \/ segs = cmp
    PROVE  Stored'
<1>1. PICK m : m = segs[First(segs)].es[pos']
  OBVIOUS
<1>2. m \in Msgs /\ m \in Range(segs[First(segs)].es) /\ First(segs) \in 1..n
  BY <1>1, ReadEntryHas
<1>3. Range(cq') \subseteq Range(cq) \cup {m}
  BY <1>1, ReadEntryHas
<1>4. Holds(segs, m)
  <2>1. First(segs) \in DOMAIN segs /\ First(segs) > 0
    BY <1>2 DEF Segs
  <2>2. QED
    BY <1>2, <2>1 DEF Holds, InAfter
<1>5. UNCHANGED <<data, cmp, acked>>
  BY DEF ReadEntry, segVars
<1>6. QED
  BY <1>3, <1>4, <1>5, StoredKept

LEMMA StoredStep == ASSUME Struct, Stored, [Next]_vars PROVE Stored'
<1>1. CASE WriteData
  <2>1. PICK x \in Msgs : acked' = acked \cup {x} /\ \A m : Holds(data', m) <=> Holds(data, m) \/ m = x
    BY <1>1, WriteDataHas
  <2>2. UNCHANGED <<cmp, cq>>
    BY <1>1 DEF WriteData
  <2>3. QED
    BY <2>1, <2>2 DEF Stored
<1>2. CASE RotateData \/ StopRead \/ StartRead
  <2>1. UNCHANGED <<cmp, cq, acked>>
    BY <1>2 DEF RotateData, StopRead, StartRead
  <2>2. QED
    BY <1>2, <2>1, DataWriterHas, StoredKept
<1>3. CASE WriteCmp \/ RotateCmp
  <2>1. UNCHANGED <<data, acked>>
    BY <1>3 DEF WriteCmp, RotateCmp
  <2>2. QED
    BY <1>3, <2>1, CmpWriterHas, StoredKept
<1>4. CASE CmpPass
  <2>1. PICK n \in Nat : Segs(Msgs, cmp, n)
    BY SegTypesHas DEF Struct, Types
  <2>2. QED
    BY <1>4, <2>1, ReadEntryStored DEF CmpPass
<1>5. CASE DataPass
  <2>1. PICK n \in Nat : Segs(Msgs, data, n)
    BY SegTypesHas DEF Struct, Types
  <2>2. QED
    BY <1>5, <2>1, ReadEntryStored DEF DataPass
<1>6. CASE SwitchCmp
  <2>1. UNCHANGED <<data, acked>>
    BY <1>6 DEF SwitchCmp
  <2>2. QED
    BY <1>6, <2>1, SwitchCmpHas, StoredKept
<1>7. CASE SwitchData
  <2>1. UNCHANGED <<cmp, acked>>
    BY <1>7 DEF SwitchData
  <2>2. QED
    BY <1>7, <2>1, SwitchDataHas, StoredKept
<1>8. CASE Exit \/ Kill
  <2>1. acked' = acked /\ cq' = <<>>
    BY <1>8 DEF Exit, Kill, Down
  <2>2. QED
    BY <1>8, <2>1, DownHas, NoEntry, StoredKept
<1>9. CASE Boot
  <2>1. UNCHANGED <<data, acked>>
    BY <1>9 DEF Boot
  <2>2. QED
    BY <1>9, <2>1, BootHas, StoredKept
<1>10. CASE WriteGc \/ RotateGc \/ StopGc \/ DeleteGc
  <2>1. UNCHANGED <<data, cmp, cq, acked>>
    BY <1>10 DEF WriteGc, RotateGc, StopGc, DeleteGc
  <2>2. QED
    BY <2>1, StoredKept
<1>11. CASE Snapshot \/ ReadGc \/ EndCmpPass \/ EndDataPass \/ EndCycle \/ CompactorStops \/ CompactFails
  <2>1. UNCHANGED <<data, cmp, cq, acked>>
    BY <1>11 DEF Snapshot, ReadGc, EndCmpPass, EndDataPass, EndCycle, CompactorStops, CompactFails, segVars
  <2>2. QED
    BY <2>1, StoredKept
<1>12. CASE Read \/ Cancel \/ UNCHANGED vars \/ \E k \in Keys, e \in 1..MaxTime : CloseWindow(k, e)
  <2>1. UNCHANGED <<data, cmp, cq, acked>>
    BY <1>12 DEF Read, Cancel, CloseWindow, segVars, vars
  <2>2. QED
    BY <2>1, StoredKept
<1>13. QED
  BY <1>1, <1>2, <1>3, <1>4, <1>5, <1>6, <1>7, <1>8, <1>9, <1>10, <1>11, <1>12
     DEF Next, WriterNext, CompactorNext, BoundReached

LEMMA FreshStep == ASSUME Struct, Fresh, [Next]_vars PROVE Fresh'
<1>1. CASE WriteData \/ RotateData \/ WriteGc \/ RotateGc \/ StopGc \/ DeleteGc
  BY <1>1 DEF Fresh, WriteData, RotateData, WriteGc, RotateGc, StopGc, DeleteGc, segVars, cptVars
<1>2. CASE WriteCmp \/ RotateCmp
  BY <1>2 DEF Fresh, WriteCmp, RotateCmp, NonEmpty, cptVars
<1>3. CASE Snapshot \/ ReadGc \/ EndCmpPass \/ EndDataPass \/ EndCycle \/ CompactorStops \/ CompactFails
  BY <1>3 DEF Fresh, Snapshot, ReadGc, EndCmpPass, EndDataPass, EndCycle, CompactorStops, CompactFails, segVars
<1>4. CASE CmpPass \/ DataPass \/ SwitchCmp \/ SwitchData
  BY <1>4 DEF Fresh, CmpPass, DataPass, SwitchCmp, SwitchData, ReadEntry
<1>5. CASE StartRead \/ StopRead \/ Read \/ Cancel \/ UNCHANGED vars
  BY <1>5 DEF Fresh, StartRead, StopRead, Read, Cancel, vars, segVars, cptVars
<1>6. CASE \E k \in Keys, e \in 1..MaxTime : CloseWindow(k, e)
  BY <1>6 DEF Fresh, CloseWindow, segVars, cptVars
<1>7. CASE Exit \/ Kill
  BY <1>7 DEF Fresh, Exit, Kill, Down
<1>8. CASE Boot
  <2>1. PICK n \in Nat : Segs(Msgs, cmp, n)
    BY SegTypesHas DEF Struct, Types
  <2>2. 0 \in 0..MaxClock
    BY WalAssumption
  <2>3. Opens(Msgs, cmp, cmp', n, 0)
    BY <1>8, <2>1, <2>2, OpenMoves DEF Boot
  <2>4. Len(cmp') = n + 1 /\ cmp'[n + 1].es = <<>>
    BY <2>3 DEF Opens, Segs
  <2>5. Last(cmp').es = <<>>
    BY <2>4 DEF Last
  <2>6. QED
    BY <1>8, <2>5, BootHas DEF Fresh
<1>9. QED
  BY <1>1, <1>2, <1>3, <1>4, <1>5, <1>6, <1>7, <1>8 DEF Next, WriterNext, CompactorNext, BoundReached

\* Steps that change none of what is read here.
LEMMA SoundStill ==
    ASSUME Sound, UNCHANGED <<data, cmp, dq, cq, pbq, cpt, files, pos, acked, todo, done, closed, out>>
    PROVE  Sound'
<1>1. Old' = Old /\ Listed(data)' = Listed(data) /\ First(data)' = First(data)
  BY DEF Old, Listed, First, Frozen
<1>2. \A m : Copied(m)' <=> Copied(m)
  BY <1>1 DEF Copied
<1>3. \A m : Taken(m)' <=> Taken(m)
  BY <1>2 DEF Taken
<1>4. Safe' /\ Late' /\ Accounted'
  BY <1>1 DEF Sound, Safe, Late, Accounted
<1>5. Replayed'
  BY <1>2 DEF Sound, Replayed
<1>6. Passed'
  BY <1>1, <1>3 DEF Sound, Passed
<1>7. QED
  BY <1>4, <1>5, <1>6 DEF Sound

\* The data writer leaves the segment a pass is at alone.
LEMMA DataFirstKept ==
    ASSUME Struct, WriteData \/ RotateData \/ StopRead, cpt = "data"
    PROVE  /\ Listed(data)' = Listed(data) /\ First(data)' = First(data)
           /\ Listed(data) # {} => data'[First(data)] = data[First(data)]
<1>1. PICK n \in Nat : Segs(Msgs, data, n)
  BY SegTypesHas DEF Struct, Types
<1>2. \E k \in Nat : n <= k /\ Segs(Msgs, data', k) /\ \A i \in 1..n : data[i].st # "active" => data'[i] = data[i]
  <2>0. \A i \in 1..n : i = n \/ i \in 1..(n - 1)
    OBVIOUS
  <2>1. CASE WriteData
    <3>1. dq \in Seq(Msgs) /\ dq # <<>>
      BY <2>1 DEF Struct, Types, QueueTypes, WriteData
    <3>2. PICK x \in Msgs : x = Head(dq)
      BY <3>1
    <3>3. Puts(Msgs, data, data', n, x)
      BY <1>1, <2>1, <3>2, PutMoves DEF WriteData
    <3>4. Segs(Msgs, data', n) /\ \A i \in 1..n : data[i].st # "active" => data'[i] = data[i]
      BY <2>0, <3>3 DEF Puts
    <3>5. QED
      BY <3>4
  <2>2. CASE RotateData
    <3>1. clock' \in 0..MaxClock
      BY <2>2, WalAssumption DEF Struct, Types, SegTypes, RotateData
    <3>2. Rotates(Msgs, data, data', n, clock')
      BY <1>1, <2>2, <3>1, RotateMoves DEF RotateData
    <3>3. Segs(Msgs, data', n + 1) /\ \A i \in 1..n : data[i].st # "active" => data'[i] = data[i]
      BY <2>0, <3>2 DEF Rotates
    <3>4. n + 1 \in Nat /\ n <= n + 1
      OBVIOUS
    <3>5. QED
      BY <3>3, <3>4
  <2>3. CASE StopRead
    <3>1. OneActive(data)
      BY DEF Struct, Types, SegTypes
    <3>2. Freezes(Msgs, data, data', n) \/ data' = data
      BY <1>1, <2>3, <3>1, FreezeAny DEF StopRead
    <3>3. Segs(Msgs, data', n) /\ \A i \in 1..n : data[i].st # "active" => data'[i] = data[i]
      BY <1>1, <2>0, <3>2 DEF Freezes
    <3>4. QED
      BY <3>3
  <2>4. QED
    BY <2>1, <2>2, <2>3
<1>3. PICK k \in Nat : n <= k /\ Segs(Msgs, data', k) /\ \A i \in 1..n : data[i].st # "active" => data'[i] = data[i]
  BY <1>2
<1>4. files \in 0..n /\ \A i \in 1..files : data[i].st # "active"
  BY <1>1 DEF Struct, Pass, Segs
<1>5. files <= k /\ \A i \in 1..files : i \in 1..n
  BY <1>3, <1>4
<1>6. files' = files /\ \A i \in 1..files : data'[i] = data[i]
  BY <1>3, <1>4, <1>5 DEF WriteData, RotateData, StopRead, cptVars
<1>7. Listed(data)' = Listed(data) /\ First(data)' = First(data)
  BY <1>1, <1>3, <1>4, <1>5, <1>6, DataListedKept
<1>8. Listed(data) # {} => First(data) \in 1..files
  <2>1. Listed(data) # {} => First(data) \in 1..n /\ First(data) <= files
    BY <1>1, FirstIs
  <2>2. QED
    BY <1>4, <2>1
<1>9. QED
  BY <1>6, <1>7, <1>8

\* At boot only frozen data segments hold messages.
LEMMA BootData ==
    ASSUME Struct, pbq = "boot", NEW m, Holds(data, m)
    PROVE  m \in Entries(data)
<1>1. PICK n \in Nat : Segs(Msgs, data, n)
  BY SegTypesHas DEF Struct, Types
<1>2. PICK i \in 1..n : m \in Range(data[i].es)
  BY <1>1 DEF Holds, InAfter, Segs
<1>3. data[i].st \in States
  BY <1>1, SegsHas
<1>4. data[i].st # "left"
  BY <1>1, <1>2, NoEntry DEF Struct, Shape, Segs
<1>5. data[i].st # "active"
  <2>1. ~Active(data)
    BY DEF Struct, Shape
  <2>2. data[i].st = "active" => i = n
    BY <1>1 DEF Struct, Types, SegTypes, OneActive, Segs
  <2>3. n > 0 => data[n].st # "active"
    BY <1>1, <2>1, SegsHas
  <2>4. QED
    BY <1>2, <2>2, <2>3
<1>6. data[i].st = "frozen"
  BY <1>3, <1>4, <1>5 DEF States
<1>7. QED
  BY <1>1, <1>2, <1>6 DEF Entries, Frozen, Segs

LEMMA DataWriterSound ==
    ASSUME Struct, Sound, WriteData \/ RotateData \/ StopRead
    PROVE  Sound'
<1>1. UNCHANGED <<cmp, cq, cpt, files, pos, todo, done, closed, out>>
  BY DEF WriteData, RotateData, StopRead, cptVars, redVars, histVars
<1>2. Old' = Old
  BY <1>1 DEF Old
<1>3. \A m : Copied(m)' <=> Copied(m)
  BY <1>1, <1>2 DEF Copied
<1>4. pbq \in {"read", "drain"} /\ pbq' \in {"read", "drain"} /\ pbq # "boot" /\ pbq' # "boot"
  <2>1. WriteData \/ RotateData => pbq = "read" /\ pbq' = pbq
    BY DEF Struct, Types, RestTypes, Shape, WriteData, RotateData, NonEmpty
  <2>2. StopRead => pbq = "read" /\ pbq' = "drain"
    BY DEF StopRead
  <2>3. QED
    BY <2>1, <2>2
<1>5. /\ acked' \cup Range(dq') = acked \cup Range(dq)
      /\ \A m : Holds(data, m) => Holds(data', m)
      /\ \A m \in acked' : m \in acked \/ Holds(data', m)
  <2>1. CASE WriteData
    BY <2>1, WriteDataHas
  <2>2. CASE RotateData \/ StopRead
    <3>1. UNCHANGED <<acked, dq>>
      BY <2>2 DEF RotateData, StopRead
    <3>2. QED
      BY <2>2, <3>1, DataWriterHas
  <2>3. QED
    BY <2>1, <2>2
<1>6. Safe'
  BY <1>1, <1>5 DEF Sound, Safe
<1>7. Late'
  BY <1>1, <1>5 DEF Sound, Late
<1>8. Accounted'
  BY <1>1, <1>4, <1>5 DEF Sound, Accounted
<1>9. Replayed'
  BY <1>1, <1>4 DEF Sound, Replayed
<1>10. \A m : Taken(m) => Taken(m)'
  BY <1>1, <1>3, <1>4 DEF Taken
<1>11. Passed'
  <2>1. cpt = "cmp" /\ files > 0 => \A p \in 1..pos : Taken(cmp[1].es[p])'
    BY <1>1, <1>10 DEF Sound, Passed
  <2>2. cpt = "data" => /\ Listed(data)' = Listed(data) /\ First(data)' = First(data)
                        /\ Listed(data) # {} => data'[First(data)] = data[First(data)]
    BY DataFirstKept
  <2>3. cpt = "data" /\ Listed(data) # {} => \A p \in 1..pos : Taken(data[First(data)].es[p])
    BY DEF Sound, Passed
  <2>4. ASSUME cpt = "data", Listed(data)' # {}, NEW p \in 1..pos
        PROVE  \E x : x = data'[First(data)'].es[p] /\ Taken(x)'
    <3>1. PICK x : x = data[First(data)].es[p]
      OBVIOUS
    <3>2. Taken(x)
      BY <2>2, <2>3, <2>4, <3>1
    <3>3. Taken(x)' /\ x = data'[First(data)'].es[p]
      BY <1>10, <2>2, <2>4, <3>1, <3>2
    <3>4. QED
      BY <3>3
  <2>5. QED
    BY <1>1, <2>1, <2>4 DEF Passed
<1>12. QED
  BY <1>6, <1>7, <1>8, <1>9, <1>11 DEF Sound

LEMMA StartReadSound == ASSUME Struct, Sound, ~faulty, StartRead PROVE Sound'
<1>1. UNCHANGED <<cmp, cq, dq, cpt, files, pos, acked, todo, done, closed, out>> /\ pbq = "boot" /\ pbq' = "read"
  BY DEF StartRead, cptVars, redVars, histVars
<1>2. cpt = "wait" /\ Frozen(data) = {}
  BY <1>1 DEF Struct, Pass, StartRead
<1>3. \A m : Holds(data', m) <=> Holds(data, m)
  BY DataWriterHas
<1>4. \A m : ~Holds(data, m)
  BY <1>1, <1>2, BootData DEF Entries
<1>5. \A m : ~InUpTo(cmp, Old, m)
  <2>1. PICK n \in Nat : Segs(Msgs, cmp, n)
    BY SegTypesHas DEF Struct, Types
  <2>2. Old = 0
    BY <1>2 DEF Old
  <2>3. QED
    BY <2>1, <2>2 DEF InUpTo, Segs
<1>6. dq = <<>>
  BY <1>1 DEF Struct, Shape
<1>7. Accounted'
  <2>1. acked \subseteq todo \cup done
    BY <1>1, <1>4, <1>5 DEF Sound, Accounted
  <2>2. Range(dq) = {}
    BY <1>6, NoEntry
  <2>3. QED
    BY <1>1, <2>1, <2>2 DEF Accounted
<1>8. Safe'
  BY <1>1, <1>3 DEF Sound, Safe
<1>9. Late'
  BY <1>1 DEF Sound, Late
<1>10. Replayed'
  BY <1>1 DEF Sound, Replayed
<1>11. Passed'
  BY <1>1, <1>2 DEF Passed
<1>12. QED
  BY <1>7, <1>8, <1>9, <1>10, <1>11 DEF Sound

LEMMA CmpWriterSound == ASSUME Struct, Sound, Fresh, WriteCmp \/ RotateCmp PROVE Sound'
<1>1. UNCHANGED <<data, dq, pbq, cpt, files, pos, acked, todo, done, closed, out>>
  BY DEF WriteCmp, RotateCmp, cptVars, redVars, histVars
<1>2. \A m \in Msgs : Holds(cmp', m) \/ m \in Range(cq') <=> Holds(cmp, m) \/ m \in Range(cq)
  BY CmpWriterHas
<1>3. cpt \notin {"snap", "gc"} =>
        /\ Old' = Old
        /\ \A m \in Msgs : (Copied(m)' <=> Copied(m)) /\ (InUpTo(cmp', Old, m) <=> InUpTo(cmp, Old, m))
  BY CmpWriterHas
<1>4. pbq = "boot" => cpt \notin {"snap", "gc"}
  BY DEF Fresh, WriteCmp, RotateCmp, NonEmpty
<1>5. acked \subseteq Msgs
  BY DEF Struct, Types, RestTypes
<1>6. Safe'
  BY <1>1, <1>2, <1>5 DEF Sound, Safe
<1>7. Late'
  BY <1>1 DEF Sound, Late
<1>8. Accounted'
  BY <1>1, <1>3, <1>4, <1>5 DEF Sound, Accounted
<1>9. Replayed'
  BY <1>1, <1>3, <1>4 DEF Sound, Replayed
<1>10. cpt \notin {"snap", "gc"} => \A m \in Msgs : Taken(m) => Taken(m)'
  BY <1>1, <1>3 DEF Taken
<1>11. Passed'
  <2>1. PICK n \in Nat : Segs(Msgs, cmp, n)
    BY SegTypesHas DEF Struct, Types
  <2>2. PICK d \in Nat : Segs(Msgs, data, d)
    BY SegTypesHas DEF Struct, Types
  <2>3. ASSUME cpt = "cmp", files > 0, NEW p \in 1..pos
        PROVE  \E x : x = cmp'[1].es[p] /\ Taken(x)'
    <3>1. files \in 0..(n - 1) /\ pos <= Len(cmp[1].es)
      BY <2>1, <2>3 DEF Struct, Pass, Segs
    <3>2. 1 \in 1..(n - 1) /\ 1 \in 1..n
      BY <2>3, <3>1
    <3>3. cmp'[1] = cmp[1]
      <4>1. \/ \E x \in Msgs : Puts(Msgs, cmp, cmp', n, x)
            \/ Rotates(Msgs, cmp, cmp', n, 0)
            \/ cmp' = cmp
        BY <2>1, CmpWriterIs DEF Struct
      <4>2. QED
        BY <3>2, <4>1 DEF Puts, Rotates
    <3>4. cmp[1].es \in Seq(Msgs) /\ Len(cmp[1].es) \in Nat
      BY <2>1, <3>2, SegsHas
    <3>5. p \in 1..Len(cmp[1].es)
      BY <3>1, <3>4 DEF Struct, Types, CptTypes
    <3>6. PICK x \in Msgs : x = cmp[1].es[p]
      BY <3>4, <3>5
    <3>7. Taken(x)
      BY <2>3, <3>6 DEF Sound, Passed
    <3>8. QED
      BY <1>10, <2>3, <3>3, <3>6, <3>7
  <2>4. ASSUME cpt = "data", Listed(data) # {}, NEW p \in 1..pos
        PROVE  \E x : x = data[First(data)].es[p] /\ Taken(x)'
    <3>1. First(data) \in 1..d
      BY <2>2, <2>4, FirstIs
    <3>2. data[First(data)].es \in Seq(Msgs) /\ Len(data[First(data)].es) \in Nat
      BY <2>2, <3>1, SegsHas
    <3>3. p \in 1..Len(data[First(data)].es)
      <4>1. pos <= Len(data[First(data)].es)
        BY <2>4 DEF Struct, Pass
      <4>2. QED
        BY <3>2, <4>1 DEF Struct, Types, CptTypes
    <3>4. PICK x \in Msgs : x = data[First(data)].es[p]
      BY <3>2, <3>3
    <3>5. Taken(x)
      BY <2>4, <3>4 DEF Sound, Passed
    <3>6. QED
      BY <1>10, <2>4, <3>4, <3>5
  <2>5. Listed(data)' = Listed(data) /\ First(data)' = First(data)
    BY <1>1 DEF Listed, First, Frozen
  <2>6. QED
    BY <1>1, <2>3, <2>4, <2>5 DEF Passed
<1>12. QED
  BY <1>6, <1>7, <1>8, <1>9, <1>11 DEF Sound

\* A step of the compactor that reads and writes no message.
LEMMA CycleSound ==
    ASSUME Struct, Sound,
           UNCHANGED <<data, cmp, dq, cq, pbq, acked, todo, done, closed, out>>,
           pbq = "boot" => Old' = Old, pos' = 0 \/ cpt' \notin {"cmp", "data"}
    PROVE  Sound'
<1>1. Safe' /\ Late'
  BY DEF Sound, Safe, Late
<1>2. Accounted'
  BY DEF Sound, Accounted
<1>3. Replayed'
  BY DEF Sound, Replayed, Copied
<1>4. Passed'
  BY DEF Passed
<1>5. QED
  BY <1>1, <1>2, <1>3, <1>4 DEF Sound

\* A new phase of the cycle finds what the one before it left to read.
LEMMA OldStays ==
    ASSUME Struct, ReadGc \/ EndCmpPass \/ EndDataPass \/ EndCycle \/ (Snapshot /\ cpt = "snap")
    PROVE  Old' = Old /\ UNCHANGED <<data, cmp, cq, out>>
<1>1. UNCHANGED <<data, cmp, cq, out>>
  BY DEF Snapshot, ReadGc, EndCmpPass, EndDataPass, EndCycle, segVars, histVars
<1>2. CASE ReadGc
  <2>1. PICK n \in Nat : Segs(Msgs, cmp, n)
    BY SegTypesHas DEF Struct, Types
  <2>2. LastFrozen(cmp) \in 0..n /\ \A i \in Frozen(cmp) : i <= LastFrozen(cmp)
    BY <2>1, LastFrozenIs
  <2>3. LastFrozen(cmp) > 0 => cmp[LastFrozen(cmp)].st = "frozen"
    BY <2>1, LastFrozenIs
  <2>4. pbq # "down" /\ DOMAIN cmp = 1..n /\ Len(cmp) = n
    BY <1>2, <2>1 DEF Struct, Shape, ReadGc, Segs
  <2>5. Active(cmp) /\ \A i \in 1..(n - 1) : cmp[i].st = "frozen"
    BY <2>4 DEF Struct, Shape
  <2>6. n > 0 /\ cmp[n].st = "active"
    BY <2>1, <2>5, SegsHas
  <2>7. LastFrozen(cmp) <= n - 1
    BY <2>2, <2>3, <2>6
  <2>8. n - 1 > 0 => n - 1 \in Frozen(cmp)
    BY <2>4, <2>5 DEF Frozen
  <2>9. LastFrozen(cmp) = n - 1
    BY <2>2, <2>6, <2>7, <2>8
  <2>10. Old' = Old
    BY <1>2, <2>4, <2>9 DEF ReadGc, Old
  <2>11. QED
    BY <1>1, <2>10
<1>3. CASE EndCmpPass
  <2>1. files = 0
    BY <1>3, CmpFirst DEF Struct, EndCmpPass
  <2>2. QED
    BY <1>1, <1>3, <2>1 DEF EndCmpPass, Old
<1>4. CASE EndDataPass \/ EndCycle \/ (Snapshot /\ cpt = "snap")
  BY <1>1, <1>4 DEF EndDataPass, EndCycle, Snapshot, Old
<1>5. QED
  BY <1>2, <1>3, <1>4

LEMMA CyclesSound ==
    ASSUME Struct, Sound, Snapshot \/ ReadGc \/ EndCmpPass \/ EndDataPass \/ EndCycle \/ CompactorStops
    PROVE  Sound'
<1>1. UNCHANGED <<data, cmp, dq, cq, pbq, acked, todo, done, closed, out>>
  BY DEF Snapshot, ReadGc, EndCmpPass, EndDataPass, EndCycle, CompactorStops, segVars, redVars, histVars
<1>2. pos' = 0 \/ cpt' \notin {"cmp", "data"}
  BY DEF Snapshot, ReadGc, EndCmpPass, EndDataPass, EndCycle, CompactorStops
<1>3. pbq = "boot" => Old' = Old
  <2>1. pbq = "boot" => ~CompactorStops /\ (Snapshot => cpt = "snap")
    BY DEF CompactorStops, Snapshot
  <2>2. QED
    BY <2>1, OldStays
<1>4. QED
  BY <1>1, <1>2, <1>3, CycleSound

LEMMA ReadSound == ASSUME Struct, Sound, Read PROVE Sound'
<1>1. UNCHANGED <<data, cmp, cq, pbq, cpt, files, pos, acked, closed, out>> /\ pbq = "read"
  BY DEF Read, segVars, cptVars, histVars
<1>2. PICK x \in Msgs : x = Min(Unread)
  BY ReadIs
<1>3. dq \in Seq(Msgs) /\ dq' = Append(dq, x)
  BY <1>2 DEF Struct, Types, QueueTypes, Read
<1>4. Range(dq') = Range(dq) \cup {x}
  BY <1>3, RangeAppend
<1>5. \/ Et[x] < closed[Key[x]] /\ done' = done \cup {x} /\ todo' = todo
      \/ ~(Et[x] < closed[Key[x]]) /\ todo' = todo \cup {x} /\ done' = done
  BY <1>2 DEF Read, Deliver
<1>6. Old' = Old /\ Listed(data)' = Listed(data) /\ First(data)' = First(data)
  BY <1>1 DEF Old, Listed, First, Frozen
<1>7. Safe'
  BY <1>1, <1>5 DEF Sound, Safe
<1>8. Late'
  BY <1>1, <1>4, <1>5 DEF Sound, Late
<1>9. Accounted'
  BY <1>1, <1>4, <1>5 DEF Sound, Accounted
<1>10. Replayed'
  BY <1>1, <1>5 DEF Sound, Replayed
<1>11. \A m : Taken(m) => Taken(m)'
  BY <1>1, <1>5, <1>6 DEF Taken, Copied
<1>12. Passed'
  BY <1>1, <1>6, <1>11 DEF Sound, Passed
<1>13. QED
  BY <1>7, <1>8, <1>9, <1>10, <1>12 DEF Sound

LEMMA ExitSound == ASSUME Struct, Sound, Exit PROVE Sound'
<1>1. /\ pbq' = "down" /\ cpt' = "off" /\ dq' = <<>> /\ out' = <<>> /\ cq' = <<>> /\ cq = <<>>
      /\ UNCHANGED <<acked, done, closed>>
  BY DEF Exit, Down
<1>2. \A m : (Holds(data', m) <=> Holds(data, m)) /\ (Holds(cmp', m) <=> Holds(cmp, m))
  BY DownHas
<1>3. Safe'
  BY <1>1, <1>2 DEF Sound, Safe
<1>4. Late'
  BY <1>1, NoEntry DEF Sound, Late
<1>5. Accounted' /\ Passed'
  BY <1>1 DEF Accounted, Passed
<1>6. Replayed'
  BY <1>1, NoEntry DEF Replayed
<1>7. QED
  BY <1>3, <1>4, <1>5, <1>6 DEF Sound

LEMMA BootSound == ASSUME Struct, Sound, Boot PROVE Sound'
<1>1. /\ pbq' = "boot" /\ cpt' = "snap" /\ UNCHANGED <<data, dq, out, acked, todo, done, closed>> /\ out = <<>>
  BY DEF Struct, Shape, Boot, redVars, histVars
<1>2. /\ \A m : Holds(cmp', m) <=> Holds(cmp, m)
      /\ \A m : Holds(cmp, m) => InUpTo(cmp', Old', m)
      /\ \A m : ~Copied(m)' 
      /\ cq' = <<>> /\ cq = <<>>
  BY BootHas
<1>3. Safe'
  BY <1>1, <1>2 DEF Sound, Safe
<1>4. Late'
  BY <1>1 DEF Sound, Late
<1>5. Accounted'
  BY <1>1, <1>2, NoEntry DEF Sound, Safe, Accounted
<1>6. Replayed'
  BY <1>1, <1>2, NoEntry DEF Sound, Replayed
<1>7. Passed'
  BY <1>1 DEF Passed
<1>8. QED
  BY <1>3, <1>4, <1>5, <1>6, <1>7 DEF Sound

\* An entry that is not retained belongs to a closed window, so it is finished.
LEMMA DroppedIsDone ==
    ASSUME Struct, Ahead, Stored, Sound, NEW m \in Msgs, Holds(data, m) \/ Holds(cmp, m), ~ShouldRetain(m)
    PROVE  m \in done
<1>1. Key[m] \in Keys /\ Et[m] \in 0..MaxTime
  BY WalAssumption
<1>2. oldest[Key[m]] \in 0..MaxTime /\ closed[Key[m]] \in 0..MaxTime
  BY <1>1 DEF Struct, Types, CptTypes, RestTypes
<1>3. oldest[Key[m]] <= closed[Key[m]] /\ ~(Et[m] >= oldest[Key[m]])
  BY <1>1 DEF Ahead, ShouldRetain
<1>4. Et[m] < closed[Key[m]]
  BY <1>1, <1>2, <1>3, WalAssumption
<1>5. m \in acked
  BY DEF Stored
<1>6. QED
  BY <1>4, <1>5 DEF Sound, Late

LEMMA ReadEntrySound ==
    ASSUME Struct, Ahead, Stored, Sound, NEW segs, NEW n, Segs(Msgs, segs, n), ReadEntry(segs),
           (cpt = "cmp" /\ segs = cmp) \/ (cpt = "data" /\ segs = data)
    PROVE  Sound' /\ (\A x : Taken(x) => Taken(x)') /\ \E x : x = segs[First(segs)].es[pos'] /\ Taken(x)'
<1>1. PICK m : m = segs[First(segs)].es[pos']
  OBVIOUS
<1>2. /\ m \in Msgs /\ m \in Range(segs[First(segs)].es) /\ First(segs) \in 1..n /\ pos' = pos + 1
      /\ \/ /\ Range(cq') = Range(cq) \cup {m}
            /\ pbq = "boot" => /\ todo' = todo \cup {m} /\ done' = done
                               /\ Range(out') = Range(out) \cup {m}
            /\ pbq # "boot" => UNCHANGED <<todo, done, out>>
         \/ ~ShouldRetain(m) /\ UNCHANGED <<cq, todo, done, out>>
  BY <1>1, ReadEntryHas
<1>3. Holds(segs, m)
  <2>1. First(segs) \in DOMAIN segs /\ First(segs) > 0
    BY <1>2 DEF Segs
  <2>2. QED
    BY <1>2, <2>1 DEF Holds, InAfter
<1>4. ~ShouldRetain(m) => m \in done
  BY <1>2, <1>3, DroppedIsDone
<1>5. UNCHANGED <<data, cmp, dq, pbq, cpt, files, acked, closed>>
  BY DEF ReadEntry, segVars
<1>6. Old' = Old /\ Listed(data)' = Listed(data) /\ First(data)' = First(data)
  BY <1>5 DEF Old, Listed, First, Frozen
<1>7. /\ Range(cq) \subseteq Range(cq') /\ Range(cq') \subseteq Range(cq) \cup {m}
      /\ Range(out) \subseteq Range(out') /\ done' = done /\ todo \subseteq todo'
      /\ Range(out') \subseteq Range(out) \cup todo'
  BY <1>2
<1>8. \A x : Copied(x) => Copied(x)'
  BY <1>5, <1>6, <1>7 DEF Copied
<1>9. \A x : Taken(x) => Taken(x)'
  BY <1>5, <1>7, <1>8 DEF Taken
<1>10. Taken(m)'
  BY <1>2, <1>4, <1>5 DEF Taken, Copied
<1>11. Safe' /\ Late'
  BY <1>5, <1>7 DEF Sound, Safe, Late
<1>12. Accounted'
  BY <1>5, <1>6, <1>7 DEF Sound, Accounted
<1>13. Replayed'
  <2>1. \A x : Copied(x)' => Copied(x) \/ x = m
    BY <1>5, <1>6, <1>7 DEF Copied
  <2>2. pbq = "boot" => m \in Range(out') \cup done'
    BY <1>5, <1>10 DEF Taken
  <2>3. QED
    BY <1>5, <1>7, <2>1, <2>2 DEF Sound, Replayed
<1>14. Passed'
  <2>1. pos \in Nat /\ \A p \in 1..pos' : p \in 1..pos \/ p = pos'
    BY <1>2 DEF Struct, Types, CptTypes
  <2>2. CASE cpt = "cmp" /\ segs = cmp
    <3>1. files > 0 => First(cmp) = 1
      BY <2>2, CmpFirst DEF Struct
    <3>2. files > 0 => \A p \in 1..pos : Taken(cmp[1].es[p])
      BY <2>2 DEF Sound, Passed
    <3>3. ASSUME files > 0, NEW p \in 1..pos' PROVE \E x : x = cmp[1].es[p] /\ Taken(x)'
      <4>1. CASE p = pos'
        BY <1>1, <1>10, <2>2, <3>1, <3>3, <4>1
      <4>2. CASE p \in 1..pos
        BY <1>9, <3>2, <3>3, <4>2
      <4>3. QED
        BY <2>1, <4>1, <4>2
    <3>4. QED
      BY <1>5, <2>2, <3>3 DEF Passed
  <2>3. CASE cpt = "data" /\ segs = data
    <3>1. Listed(data) # {}
      BY <2>3 DEF ReadEntry
    <3>2. \A p \in 1..pos : Taken(data[First(data)].es[p])
      BY <2>3, <3>1 DEF Sound, Passed
    <3>3. ASSUME NEW p \in 1..pos' PROVE \E x : x = data[First(data)].es[p] /\ Taken(x)'
      <4>1. CASE p = pos'
        BY <1>1, <1>10, <2>3, <4>1
      <4>2. CASE p \in 1..pos
        BY <1>9, <3>2, <4>2
      <4>3. QED
        BY <2>1, <4>1, <4>2
    <3>4. QED
      BY <1>5, <1>6, <2>3, <3>3 DEF Passed
  <2>4. QED
    BY <2>2, <2>3
<1>15. QED
  BY <1>1, <1>9, <1>10, <1>11, <1>12, <1>13, <1>14 DEF Sound

LEMMA SwitchCmpSound == ASSUME Struct, Sound, SwitchCmp PROVE Sound'
<1>1. UNCHANGED <<data, dq, pbq, cpt, acked, todo, done, closed, out>> /\ pos' = 0
  BY DEF SwitchCmp, redVars, histVars
<1>2. /\ \A m \in Msgs : m \in Range(cq') <=> m \in Range(cq)
      /\ \A m \in Msgs : Copied(m)' <=> Copied(m)
      /\ \A m : InUpTo(cmp, Old, m) => InUpTo(cmp', Old', m) \/ m \in Range(cmp[1].es)
      /\ \A m : Holds(cmp, m) => Holds(cmp', m) \/ m \in Range(cmp[1].es)
      /\ files > 0 /\ cpt = "cmp" /\ \A m \in Range(cmp[1].es) : \E p \in 1..pos : m = cmp[1].es[p]
  BY SwitchCmpHas
<1>3. \A m \in Range(cmp[1].es) : Taken(m)
  BY <1>2 DEF Sound, Passed
<1>4. acked \subseteq Msgs
  BY DEF Struct, Types, RestTypes
<1>5. \A m \in Msgs : Copied(m)' => m \in Range(cq') \/ Holds(cmp', m)
  <2>1. PICK k \in Nat : Segs(Msgs, cmp', k)
    <3>1. cmp' \in Seq(Segment(Msgs))
      BY SwitchTypes DEF Struct, Types, SegTypes
    <3>2. QED
      BY <3>1, SegsIs
  <2>2. \A i \in DOMAIN cmp' : i > 0
    BY <2>1 DEF Segs
  <2>3. QED
    BY <2>2 DEF Copied, Holds, InAfter
<1>6. Safe'
  <2> SUFFICES ASSUME NEW m \in acked PROVE m \in done \/ Holds(data, m) \/ Holds(cmp', m) \/ m \in Range(cq')
    BY <1>1 DEF Safe
  <2>1. m \in Range(cmp[1].es) => m \in done \/ Copied(m)'
    BY <1>2, <1>3, <1>4 DEF Taken
  <2>2. QED
    BY <1>2, <1>4, <1>5, <2>1 DEF Sound, Safe
<1>7. Late'
  BY <1>1 DEF Sound, Late
<1>8. Replayed'
  BY <1>1, <1>2 DEF Sound, Replayed
<1>9. Accounted'
  <2>1. \A m \in Range(cmp[1].es) : pbq = "boot" => m \in todo \cup done
    BY <1>3 DEF Taken, Sound, Replayed
  <2>2. QED
    BY <1>1, <1>2, <2>1 DEF Sound, Accounted
<1>10. Passed'
  BY <1>1 DEF Passed
<1>11. QED
  BY <1>6, <1>7, <1>8, <1>9, <1>10 DEF Sound

LEMMA SwitchDataSound == ASSUME Struct, Sound, SwitchData PROVE Sound'
<1>1. UNCHANGED <<cmp, dq, pbq, cpt, acked, todo, done, closed, out>> /\ pos' = 0
  BY DEF SwitchData, redVars, histVars
<1>2. /\ \A m \in Msgs : m \in Range(cq') <=> m \in Range(cq)
      /\ \A m \in Msgs : Copied(m)' <=> Copied(m)
      /\ \A m : Holds(data, m) => Holds(data', m) \/ m \in Range(data[First(data)].es)
      /\ \A m \in Range(data[First(data)].es) : \E p \in 1..pos : m = data[First(data)].es[p]
      /\ cpt = "data" /\ Listed(data) # {} /\ Old = 0 /\ Old' = 0
  BY SwitchDataHas
<1>3. \A m \in Range(data[First(data)].es) : Taken(m)
  BY <1>2 DEF Sound, Passed
<1>4. acked \subseteq Msgs
  BY DEF Struct, Types, RestTypes
<1>5. \A m \in Msgs : Copied(m) => m \in Range(cq) \/ Holds(cmp, m)
  BY <1>2 DEF Copied, Holds
<1>6. Safe'
  <2> SUFFICES ASSUME NEW m \in acked PROVE m \in done \/ Holds(data', m) \/ Holds(cmp, m) \/ m \in Range(cq')
    BY <1>1 DEF Safe
  <2>1. m \in Range(data[First(data)].es) => m \in done \/ Copied(m)
    BY <1>3 DEF Taken
  <2>2. QED
    BY <1>2, <1>4, <1>5, <2>1 DEF Sound, Safe
<1>7. Late'
  BY <1>1 DEF Sound, Late
<1>8. Replayed'
  BY <1>1, <1>2 DEF Sound, Replayed
<1>9. Accounted'
  <2>1. \A m \in Range(data[First(data)].es) : pbq = "boot" => m \in todo \cup done
    BY <1>3 DEF Taken, Sound, Replayed
  <2>2. QED
    BY <1>1, <1>2, <2>1 DEF Sound, Accounted
<1>10. Passed'
  BY <1>1 DEF Passed
<1>11. QED
  BY <1>6, <1>7, <1>8, <1>9, <1>10 DEF Sound

\* What the boot cycle has left to read is what counts as not replayed yet, and second copies
\* of what was replayed.
LEMMA LeftListed ==
    ASSUME Struct, pbq = "boot", cpt # "off", NEW m \in Msgs, Left(m)
    PROVE  m \in Unreplayed \cup Range(out)
<1>1. Holds(data, m) => m \in Entries(data)
  BY BootData
<1>2. InUpTo(cmp, Old, m) => m \in Entries(cmp) /\ cpt \notin {"wait", "off"}
  <2> SUFFICES ASSUME InUpTo(cmp, Old, m) PROVE m \in Entries(cmp) /\ cpt \notin {"wait", "off"}
    OBVIOUS
  <2>1. PICK n \in Nat : Segs(Msgs, cmp, n)
    BY SegTypesHas DEF Struct, Types
  <2>2. Old \in Nat /\ Old < n /\ Len(cmp) = n
    BY <2>1, OldIs DEF Segs
  <2>3. PICK i \in 1..n : i <= Old /\ m \in Range(cmp[i].es)
    BY <2>1 DEF InUpTo, Segs
  <2>4. i \in 1..(n - 1) /\ Old > 0
    BY <2>2, <2>3
  <2>5. cmp[i].st = "frozen"
    BY <2>2, <2>4 DEF Struct, Shape
  <2>6. m \in Entries(cmp)
    BY <2>1, <2>3, <2>5 DEF Entries, Frozen, Segs
  <2>7. QED
    BY <2>4, <2>6 DEF Old
<1>3. Holds(data, m) => cpt \notin {"wait", "off"}
  BY <1>1 DEF Struct, Pass, Entries
<1>4. QED
  BY <1>1, <1>2, <1>3 DEF Left, Unreplayed

\* A window is closed when all of its messages are with the reducer.
LEMMA CloseWindowSound ==
    ASSUME Struct, Sound, ~faulty, NEW k \in Keys, NEW e \in 1..MaxTime, CloseWindow(k, e)
    PROVE  Sound'
<1>1. UNCHANGED <<data, cmp, dq, cq, pbq, cpt, files, pos, acked, out>> /\ pbq # "down"
  BY DEF CloseWindow, segVars, cptVars, histVars
<1> DEFINE F == {m \in todo : Key[m] = k /\ Et[m] < e}
<1>2. done' = done \cup F /\ todo' = todo \ F
  BY DEF CloseWindow
<1>3. Old' = Old /\ Listed(data)' = Listed(data) /\ First(data)' = First(data)
  BY <1>1 DEF Old, Listed, First, Frozen
<1>4. \A m : Taken(m) => Taken(m)'
  BY <1>1, <1>2, <1>3 DEF Taken, Copied
<1>5. Passed'
  BY <1>1, <1>3, <1>4 DEF Sound, Passed
<1>6. todo' \cup done' = todo \cup done /\ done \subseteq done'
  BY <1>2
<1>7. Safe'
  BY <1>1, <1>6 DEF Sound, Safe
<1>8. Accounted'
  BY <1>1, <1>3, <1>6 DEF Sound, Accounted
<1>9. Replayed'
  BY <1>1, <1>3, <1>6 DEF Sound, Replayed, Copied
<1>10. Late'
  <2> SUFFICES ASSUME NEW m \in acked \cup Range(dq), Et[m] < closed'[Key[m]] PROVE m \in done'
    BY <1>1 DEF Late
  <2>1. m \in Msgs
    <3>1. dq \in Seq(Msgs) /\ acked \subseteq Msgs
      BY DEF Struct, Types, QueueTypes, RestTypes
    <3>2. Range(dq) \subseteq Msgs
      BY <3>1, SeqRange
    <3>3. QED
      BY <3>1, <3>2
  <2>2. Key[m] \in Keys /\ Et[m] \in 0..MaxTime /\ MaxTime \in Nat
    BY <2>1, WalAssumption
  <2>3. closed' = [closed EXCEPT ![k] = IF e > @ THEN e ELSE @] /\ closed \in [Keys -> 0..MaxTime]
    BY DEF CloseWindow, Struct, Types, RestTypes
  <2>4. CASE Et[m] < closed[Key[m]]
    BY <1>6, <2>4 DEF Sound, Late
  <2>5. CASE ~(Et[m] < closed[Key[m]])
    <3>1. Key[m] = k /\ Et[m] < e
      BY <2>2, <2>3, <2>5
    <3>2. m \notin Unreplayed
      BY <2>2, <3>1 DEF CloseWindow
    <3>3. m \in todo \cup done
      <4>1. CASE pbq # "boot"
        BY <1>1, <4>1 DEF Sound, Accounted, Struct, Types, RestTypes
      <4>2. CASE pbq = "boot"
        <5>1. dq = <<>>
          BY <4>2 DEF Struct, Shape
        <5>2. m \in todo \cup done \/ Holds(data, m) \/ InUpTo(cmp, Old, m)
          BY <4>2, <5>1, NoEntry DEF Sound, Accounted
        <5>3. cpt # "off"
          BY <4>2 DEF Struct, Pass
        <5>4. Left(m) => m \in Range(out)
          BY <2>1, <3>2, <4>2, <5>3, LeftListed
        <5>5. m \in Range(out) => m \in todo \cup done
          BY DEF Sound, Replayed
        <5>6. QED
          BY <5>2, <5>4, <5>5 DEF Left
      <4>3. QED
        BY <4>1, <4>2
    <3>4. QED
      BY <1>2, <3>1, <3>3
  <2>6. QED
    BY <2>4, <2>5
<1>11. QED
  BY <1>5, <1>7, <1>8, <1>9, <1>10 DEF Sound

\* The strengthened invariant of a run without faults.
Whole == Struct /\ Ahead /\ Stored /\ Fresh /\ (~faulty => Sound)

LEMMA SoundStep ==
    ASSUME Struct, Ahead, Stored, Fresh, Sound, ~faulty, [Next]_vars, ~faulty'
    PROVE  Sound'
<1>1. CASE WriteData \/ RotateData \/ StopRead
  BY <1>1, DataWriterSound
<1>2. CASE StartRead
  BY <1>2, StartReadSound
<1>3. CASE WriteCmp \/ RotateCmp
  BY <1>3, CmpWriterSound
<1>4. CASE Snapshot \/ ReadGc \/ EndCmpPass \/ EndDataPass \/ EndCycle \/ CompactorStops
  BY <1>4, CyclesSound
<1>5. CASE CmpPass
  <2>1. PICK n \in Nat : Segs(Msgs, cmp, n)
    BY SegTypesHas DEF Struct, Types
  <2>2. QED
    BY <1>5, <2>1, ReadEntrySound DEF CmpPass
<1>6. CASE DataPass
  <2>1. PICK n \in Nat : Segs(Msgs, data, n)
    BY SegTypesHas DEF Struct, Types
  <2>2. QED
    BY <1>6, <2>1, ReadEntrySound DEF DataPass
<1>7. CASE SwitchCmp \/ SwitchData
  BY <1>7, SwitchCmpSound, SwitchDataSound
<1>8. CASE Read
  BY <1>8, ReadSound
<1>9. CASE \E k \in Keys, e \in 1..MaxTime : CloseWindow(k, e)
  BY <1>9, CloseWindowSound
<1>10. CASE Exit \/ Boot
  BY <1>10, ExitSound, BootSound
<1>11. CASE WriteGc \/ RotateGc \/ StopGc \/ DeleteGc \/ Cancel \/ UNCHANGED vars
  <2>1. UNCHANGED <<data, cmp, dq, cq, pbq, cpt, files, pos, acked, todo, done, closed, out>>
    BY <1>11 DEF WriteGc, RotateGc, StopGc, DeleteGc, Cancel, vars, segVars, cptVars, redVars, histVars
  <2>2. QED
    BY <2>1, SoundStill
<1>12. ~Kill /\ ~CompactFails
  BY DEF Kill, CompactFails
<1>13. QED
  BY <1>1, <1>2, <1>3, <1>4, <1>5, <1>6, <1>7, <1>8, <1>9, <1>10, <1>11, <1>12
     DEF Next, WriterNext, CompactorNext, BoundReached

LEMMA InitWhole == ASSUME Init PROVE Whole
<1>1. Struct
  BY InitStruct
<1>2. \A x : ~Holds(gc, x) /\ ~Holds(cmp, x) /\ ~Holds(data, x)
  <2>1. gc = <<[ts |-> 1, es |-> <<>>, st |-> "active"]>> /\ cmp = <<[ts |-> 0, es |-> <<>>, st |-> "active"]>> /\ data = <<>>
    BY DEF Init
  <2>2. \A i \in DOMAIN gc : gc[i].es = <<>>
    BY <2>1
  <2>3. \A i \in DOMAIN cmp : cmp[i].es = <<>>
    BY <2>1
  <2>4. DOMAIN data = {}
    BY <2>1
  <2>5. QED
    BY <2>2, <2>3, <2>4, NoEntry DEF Holds, InAfter
<1>3. Ahead
  BY <1>2, NoEntry DEF Ahead, Init
<1>4. Stored /\ Fresh
  <2>1. cmp = <<[ts |-> 0, es |-> <<>>, st |-> "active"]>> /\ cq = <<>>
    BY DEF Init
  <2>2. Last(cmp).es = <<>>
    BY <2>1 DEF Last
  <2>3. QED
    BY <1>2, <2>1, <2>2, NoEntry DEF Stored, Fresh
<1>5. Safe /\ Passed /\ Late
  BY NoEntry DEF Safe, Passed, Late, Init
<1>6. Accounted
  BY DEF Accounted, Init
<1>7. Replayed
  <2>1. PICK n \in Nat : Segs(Msgs, cmp, n)
    BY <1>1, SegTypesHas DEF Struct, Types
  <2>2. \A m : ~Copied(m)
    <3>1. \A i \in DOMAIN cmp : i > 0
      BY <2>1 DEF Segs
    <3>2. QED
      BY <1>2, <3>1, NoEntry DEF Copied, Holds, InAfter, Init
  <2>3. QED
    BY <2>2, NoEntry DEF Replayed, Init
<1>8. QED
  BY <1>1, <1>3, <1>4, <1>5, <1>6, <1>7 DEF Whole, Sound

LEMMA FaultsStay == ASSUME Struct, [Next]_vars, faulty PROVE faulty'
<1>1. CASE WriterNext \/ CompactorNext
  BY <1>1 DEF WriterNext, CompactorNext, WriteData, RotateData, WriteGc, RotateGc, WriteCmp, RotateCmp, Snapshot,
     ReadGc, CmpPass, SwitchCmp, EndCmpPass, DataPass, SwitchData, EndDataPass, DeleteGc, EndCycle,
     CompactorStops, CompactFails, ReadEntry, histVars
<1>2. CASE StartRead \/ Read \/ Cancel \/ StopRead \/ StopGc \/ Exit \/ Kill \/ Boot \/ UNCHANGED vars
  BY <1>2 DEF StartRead, Read, Cancel, StopRead, StopGc, Exit, Kill, Boot, vars, histVars
<1>3. CASE \E k \in Keys, e \in 1..MaxTime : CloseWindow(k, e)
  BY <1>3 DEF CloseWindow, histVars
<1>4. QED
  BY <1>1, <1>2, <1>3 DEF Next, BoundReached

LEMMA WholeStep == ASSUME Whole, [Next]_vars PROVE Whole'
<1>1. Struct' /\ Ahead' /\ Stored' /\ Fresh'
  BY StructStep, AheadStep, StoredStep, FreshStep DEF Whole
<1>2. ~faulty' => Sound'
  <2>1. ~faulty' => ~faulty
    BY FaultsStay DEF Whole
  <2>2. QED
    BY <2>1, SoundStep DEF Whole
<1>3. QED
  BY <1>1, <1>2 DEF Whole

\* Whatever the interleaving of writers, compaction cycles, windows and shutdowns, as long as
\* no pod is killed and no file operation fails, an acked message is with the reducer or
\* finished once the replay is over: the compactor drops an entry only when its window was
\* closed, and removes a segment only when all it keeps of it is on its way to another.
THEOREM WalReplayComplete == Spec => []ReplayComplete
<1>1. Init => Whole
  BY InitWhole
<1>2. Whole /\ [Next]_vars => Whole'
  BY WholeStep
<1>3. Whole => ReplayComplete
  BY DEF Whole, Sound, Accounted, ReplayComplete
<1>4. QED
  BY <1>1, <1>2, <1>3, PTL DEF Spec

(***************************************************************************)
(* Messages are replayed in the order they were read.                      *)
(***************************************************************************)

\* The entries of the segments after lo, up to hi, rise from each to the next.
Ordered(segs, lo, hi) ==
    \A i, j \in DOMAIN segs : lo < i /\ i <= j /\ j <= hi =>
        \A p \in DOMAIN segs[i].es, q \in DOMAIN segs[j].es : i < j \/ p < q => segs[i].es[p] < segs[j].es[q]

\* m is an entry of one of the first n segments, after the first p ones of segment at.
Pending(segs, n, at, p, m) ==
    \E j \in DOMAIN segs : j <= n /\ \E q \in DOMAIN segs[j].es : m = segs[j].es[q] /\ (j = at => q > p)

\* A part of the segments, in the same order.
LEMMA OrderedMap ==
    ASSUME NEW s, NEW t, NEW n, NEW k, NEW lo, NEW hi, NEW a \in Int, NEW b \in Int, NEW f,
           Segs(Msgs, s, n), Segs(Msgs, t, k), Ordered(s, lo, hi),
           \A i \in 1..k : a < i /\ i <= b =>
              t[i].es = <<>> \/ (f[i] \in 1..n /\ lo < f[i] /\ f[i] <= hi /\ t[i].es = s[f[i]].es),
           \A i, j \in 1..k : i < j => f[i] < f[j]
    PROVE  Ordered(t, a, b)
<1>1. DOMAIN s = 1..n /\ DOMAIN t = 1..k /\ n \in Nat /\ k \in Nat
  BY DEF Segs
<1> SUFFICES ASSUME NEW i \in 1..k, NEW j \in 1..k, a < i, i <= j, j <= b,
                    NEW p \in DOMAIN t[i].es, NEW q \in DOMAIN t[j].es, i < j \/ p < q
             PROVE  t[i].es[p] < t[j].es[q]
  BY <1>1 DEF Ordered
<1>2. t[i].es # <<>> /\ t[j].es # <<>>
  OBVIOUS
<1>3. a < j /\ i <= b /\ (i < j \/ i = j)
  BY <1>1
<1>4. /\ f[i] \in 1..n /\ lo < f[i] /\ f[i] <= hi /\ t[i].es = s[f[i]].es
      /\ f[j] \in 1..n /\ lo < f[j] /\ f[j] <= hi /\ t[j].es = s[f[j]].es
  BY <1>2, <1>3
<1>5. PICK x \in 1..n : x = f[i]
  BY <1>4
<1>6. PICK y \in 1..n : y = f[j]
  BY <1>4
<1>7. (i < j => x < y) /\ (i = j => x = y)
  BY <1>5, <1>6
<1>8. x <= y /\ (x < y \/ p < q)
  BY <1>1, <1>3, <1>7
<1>9. p \in DOMAIN s[x].es /\ q \in DOMAIN s[y].es
  BY <1>4, <1>5, <1>6
<1>10. s[x].es[p] < s[y].es[q]
  BY <1>1, <1>4, <1>5, <1>6, <1>8, <1>9 DEF Ordered
<1>11. QED
  BY <1>4, <1>5, <1>6, <1>10

\* The segments in place, some of them empty.
LEMMA OrderedSame ==
    ASSUME NEW s, NEW t, NEW n, NEW k, NEW lo \in Int, NEW hi, NEW b \in Int,
           Segs(Msgs, s, n), Segs(Msgs, t, k), Ordered(s, lo, hi),
           \A i \in 1..k : lo < i /\ i <= b => t[i].es = <<>> \/ (i \in 1..n /\ i <= hi /\ t[i].es = s[i].es)
    PROVE  Ordered(t, lo, b)
<1>1. PICK f : f = [i \in 1..k |-> i]
  OBVIOUS
<1>2. \A i \in 1..k : f[i] = i
  BY <1>1
<1>3. \A i, j \in 1..k : i < j => f[i] < f[j]
  BY <1>2
<1>4. \A i \in 1..k : lo < i /\ i <= b =>
              t[i].es = <<>> \/ (f[i] \in 1..n /\ lo < f[i] /\ f[i] <= hi /\ t[i].es = s[f[i]].es)
  BY <1>2
<1>5. QED
  BY <1>3, <1>4, OrderedMap

\* One segment removed.
LEMMA OrderedRemoves ==
    ASSUME NEW s, NEW t, NEW n, NEW r, Segs(Msgs, s, n), Removes(Msgs, s, t, n, r), Ordered(s, 0, n)
    PROVE  Ordered(t, 0, n - 1)
<1>1. n \in Nat /\ r \in 1..n /\ Segs(Msgs, t, n - 1)
  BY DEF Removes
<1>2. PICK k \in Int : k = n - 1
  BY <1>1
<1>3. PICK f : f = [i \in 1..k |-> IF i < r THEN i ELSE i + 1]
  OBVIOUS
<1>4. \A i \in 1..k : f[i] \in 1..n /\ f[i] > 0 /\ f[i] <= n
  BY <1>1, <1>2, <1>3
<1>5. \A i, j \in 1..k : i < j => f[i] < f[j]
  BY <1>1, <1>2, <1>3
<1>6. \A i \in 1..k : t[i] = s[f[i]]
  BY <1>1, <1>2, <1>3 DEF Removes
<1>7. Segs(Msgs, t, k) /\ 0 \in Int
  BY <1>1, <1>2
<1>8. PICK z \in Int : z = 0 /\ Ordered(s, z, n)
  BY <1>7
<1>9. Ordered(t, z, k)
  <2>1. \A i \in 1..k : z < i /\ i <= k =>
           t[i].es = <<>> \/ (f[i] \in 1..n /\ z < f[i] /\ f[i] <= n /\ t[i].es = s[f[i]].es)
    BY <1>4, <1>6, <1>8
  <2>2. QED
    BY <1>5, <1>7, <1>8, <2>1, OrderedMap
<1>10. QED
  BY <1>2, <1>8, <1>9

\* The first segment removed.
LEMMA OrderedShift ==
    ASSUME NEW s, NEW t, NEW n, NEW lo \in Nat, NEW hi \in Nat, NEW a \in Int, NEW b \in Int,
           Segs(Msgs, s, n), n > 0, Segs(Msgs, t, n - 1),
           Ordered(s, lo, hi), \A i \in 1..(n - 1) : t[i] = s[i + 1], a + 1 >= lo, b + 1 <= hi
    PROVE  Ordered(t, a, b)
<1>1. n \in Nat
  BY DEF Segs
<1>2. PICK k \in Nat : k = n - 1
  BY <1>1
<1>3. PICK f : f = [i \in 1..k |-> i + 1]
  OBVIOUS
<1>4. \A i \in 1..k : f[i] = i + 1 /\ f[i] \in 1..n /\ (a < i => lo < f[i]) /\ (i <= b => f[i] <= hi)
  BY <1>1, <1>2, <1>3
<1>5. \A i, j \in 1..k : i < j => f[i] < f[j]
  BY <1>4
<1>6. \A i \in 1..k : t[i] = s[f[i]]
  BY <1>2, <1>4
<1>7. Segs(Msgs, t, k)
  BY <1>2
<1>8. \A i \in 1..k : a < i /\ i <= b =>
         t[i].es = <<>> \/ (f[i] \in 1..n /\ lo < f[i] /\ f[i] <= hi /\ t[i].es = s[f[i]].es)
  BY <1>4, <1>6
<1>9. QED
  BY <1>5, <1>7, <1>8, OrderedMap

\* An entry larger than those before it.
LEMMA OrderedPut ==
    ASSUME NEW s, NEW t, NEW n, NEW lo \in Nat, NEW x \in Msgs, Segs(Msgs, s, n), Puts(Msgs, s, t, n, x),
           Ordered(s, lo, n), \A m : InAfter(s, lo, m) => m < x
    PROVE  Ordered(t, lo, n)
<1>1. n \in Nat /\ n > 0 /\ Segs(Msgs, t, n) /\ (\A i \in 1..(n - 1) : t[i] = s[i])
  BY DEF Puts
<1>2. PICK y \in Seq(Msgs) : s[n].es = y /\ t[n].es = Append(y, x)
  BY DEF Puts
<1>3. PICK l \in Nat : l = Len(y) /\ DOMAIN y = 1..l
  OBVIOUS
<1>4. PICK z : z = Append(y, x)
  OBVIOUS
<1>5. DOMAIN z = 1..(l + 1) /\ (\A i \in 1..l : z[i] = y[i]) /\ z[l + 1] = x
  BY <1>3, <1>4
<1>6. DOMAIN s = 1..n /\ DOMAIN t = 1..n /\ n \in 1..n
  BY <1>1 DEF Segs
<1>7. \A i \in 1..n : i = n \/ i \in 1..(n - 1)
  BY <1>1
<1> SUFFICES ASSUME NEW i \in 1..n, NEW j \in 1..n, lo < i, i <= j, j <= n,
                    NEW p \in DOMAIN t[i].es, NEW q \in DOMAIN t[j].es, i < j \/ p < q
             PROVE  t[i].es[p] < t[j].es[q]
  BY <1>6 DEF Ordered
<1>8. CASE j # n
  <2>1. i \in 1..(n - 1) /\ j \in 1..(n - 1)
    BY <1>1, <1>8
  <2>2. t[i] = s[i] /\ t[j] = s[j]
    BY <1>1, <2>1
  <2>3. QED
    BY <1>6, <2>2 DEF Ordered
<1>9. CASE j = n /\ q \in 1..l
  <2>1. t[j].es[q] = s[n].es[q] /\ q \in DOMAIN s[n].es
    BY <1>2, <1>3, <1>4, <1>5, <1>9
  <2>2. t[i].es[p] = s[i].es[p] /\ p \in DOMAIN s[i].es
    <3>1. CASE i = n
      <4>1. p \in 1..(l + 1) /\ p < q
        BY <1>1, <1>2, <1>4, <1>5, <1>9, <3>1
      <4>2. p \in 1..l
        BY <1>9, <4>1
      <4>3. QED
        BY <1>2, <1>3, <1>4, <1>5, <3>1, <4>2
    <3>2. CASE i # n
      BY <1>1, <1>7, <3>2
    <3>3. QED
      BY <3>1, <3>2
  <2>3. QED
    BY <1>6, <1>9, <2>1, <2>2 DEF Ordered
<1>10. CASE j = n /\ q = l + 1
  <2>1. t[j].es[q] = x
    BY <1>2, <1>4, <1>5, <1>10
  <2>2. t[i].es[p] = s[i].es[p] /\ p \in DOMAIN s[i].es
    <3>1. CASE i = n
      <4>1. p \in 1..(l + 1) /\ p < q
        BY <1>1, <1>2, <1>4, <1>5, <1>10, <3>1
      <4>2. p \in 1..l
        BY <1>10, <4>1
      <4>3. QED
        BY <1>2, <1>3, <1>4, <1>5, <3>1, <4>2
    <3>2. CASE i # n
      BY <1>1, <1>7, <3>2
    <3>3. QED
      BY <3>1, <3>2
  <2>3. InAfter(s, lo, s[i].es[p])
    BY <1>6, <2>2 DEF InAfter, Range
  <2>4. QED
    BY <2>1, <2>2, <2>3
<1>11. j = n => q \in 1..l \/ q = l + 1
  BY <1>2, <1>4, <1>5
<1>12. QED
  BY <1>8, <1>9, <1>10, <1>11

LEMMA PendingHolds ==
    ASSUME NEW s, NEW n, NEW at, NEW p, NEW m, Pending(s, n, at, p, m)
    PROVE  InUpTo(s, n, m)
  BY DEF Pending, InUpTo, Range

LEMMA PendingAll ==
    ASSUME NEW s, NEW l, Segs(Msgs, s, l), NEW n, NEW at, NEW p, at = 0 \/ p = 0, NEW m, InUpTo(s, n, m)
    PROVE  Pending(s, n, at, p, m)
<1>1. PICK j \in 1..l : j <= n /\ m \in Range(s[j].es)
  BY DEF InUpTo, Segs
<1>2. s[j].es \in Seq(Msgs)
  BY SegsHas
<1>3. PICK q \in 1..Len(s[j].es) : m = s[j].es[q]
  BY <1>1, <1>2, SeqRange
<1>4. DOMAIN s = 1..l /\ DOMAIN s[j].es = 1..Len(s[j].es) /\ j # 0 /\ q > 0
  BY <1>2 DEF Segs
<1>5. QED
  BY <1>1, <1>3, <1>4 DEF Pending

LEMMA HeldIs ==
    ASSUME NEW E, NEW s, NEW n, Segs(E, s, n), NEW k, NEW m, InAfter(s, k, m) \/ InUpTo(s, k, m)
    PROVE  m \in E
<1>1. PICK i \in 1..n : m \in Range(s[i].es)
  BY DEF InAfter, InUpTo, Segs
<1>2. s[i].es \in Seq(E)
  BY SegsHas
<1>3. QED
  BY <1>1, <1>2, SeqRange

\* Messages are written and read in turn.
ReadInTurn ==
    /\ \A a \in acked : \A d \in Range(dq) : a < d
    /\ Increasing(dq)
    /\ \A u \in Unread : \A a \in acked \cup Range(dq) : a < u

DataInTurn == Ordered(data, 0, Len(data))

LEMMA WriteDataTurn == ASSUME Struct, ReadInTurn, WriteData PROVE ReadInTurn'
<1>1. PICK x \in Msgs : x = Head(dq) /\ Range(dq) = {x} \cup Range(dq') /\ acked' = acked \cup {x}
  BY WriteDataHas
<1>2. PICK n \in Nat : n = Len(dq) /\ n >= 1
  BY SeqTail DEF Struct, Types, QueueTypes, WriteData
<1>3. dq \in Seq(Msgs) /\ dq # <<>> /\ dq' = Tail(dq)
  BY DEF Struct, Types, QueueTypes, WriteData
<1>4. /\ DOMAIN dq = 1..n /\ DOMAIN dq' = 1..(n - 1) /\ x = dq[1] /\ \A i \in 1..(n - 1) : dq'[i] = dq[i + 1]
  BY <1>1, <1>2, <1>3, SeqTail
<1>5. \A i \in 1..(n - 1) : i + 1 \in 1..n /\ 1 \in 1..n /\ 1 < i + 1
  BY <1>2
<1>6. \A i, j \in 1..(n - 1) : i < j => i + 1 < j + 1
  BY <1>2
<1>7. Increasing(dq')
  BY <1>4, <1>5, <1>6 DEF ReadInTurn, Increasing
<1>8. \A d \in Range(dq') : x < d
  <2>1. \A i \in 1..(n - 1) : x < dq'[i]
    BY <1>4, <1>5 DEF ReadInTurn, Increasing
  <2>2. QED
    BY <1>4, <2>1 DEF Range
<1>9. \A a \in acked' : \A d \in Range(dq') : a < d
  BY <1>1, <1>8 DEF ReadInTurn
<1>10. acked' \cup Range(dq') = acked \cup Range(dq)
  BY <1>1
<1>11. Unread' = Unread
  BY <1>10 DEF Unread
<1>12. QED
  BY <1>7, <1>9, <1>10, <1>11 DEF ReadInTurn

\* A larger entry at the end of a rising sequence.
LEMMA IncreasingAppend ==
    ASSUME NEW S, NEW s \in Seq(S), NEW x \in S, Increasing(s), \A y \in Range(s) : y < x
    PROVE  Increasing(Append(s, x))
<1>1. PICK n \in Nat : n = Len(s) /\ DOMAIN s = 1..n
  OBVIOUS
<1>2. PICK t : t = Append(s, x)
  OBVIOUS
<1>3. DOMAIN t = 1..(n + 1) /\ (\A i \in 1..n : t[i] = s[i]) /\ t[n + 1] = x
  BY <1>1, <1>2
<1>4. \A i \in 1..(n + 1) : i = n + 1 \/ i \in 1..n
  BY <1>1
<1>5. \A i \in 1..n : s[i] < x
  BY <1>1 DEF Range
<1>6. ASSUME NEW i \in 1..(n + 1), NEW j \in 1..(n + 1), i < j PROVE t[i] < t[j]
  <2>1. i \in 1..n
    BY <1>1, <1>6
  <2>2. CASE j = n + 1
    BY <1>3, <1>5, <2>1, <2>2
  <2>3. CASE j \in 1..n
    BY <1>1, <1>3, <1>6, <2>1, <2>3 DEF Increasing
  <2>4. QED
    BY <1>4, <2>2, <2>3
<1>7. Increasing(t)
  BY <1>3, <1>6 DEF Increasing
<1>8. QED
  BY <1>2, <1>7

LEMMA ReadTurn == ASSUME Struct, ReadInTurn, Read PROVE ReadInTurn'
<1>1. PICK x \in Msgs : x = Min(Unread) /\ x \in Unread /\ \A u \in Unread : x <= u
  BY ReadIs
<1>2. dq \in Seq(Msgs) /\ dq' = Append(dq, x) /\ acked' = acked
  BY <1>1 DEF Struct, Types, QueueTypes, Read
<1>3. Range(dq') = Range(dq) \cup {x}
  BY <1>2, RangeAppend
<1>4. \A a \in acked \cup Range(dq) : a < x
  BY <1>1 DEF ReadInTurn
<1>5. Increasing(dq')
  BY <1>2, <1>4, IncreasingAppend DEF ReadInTurn
<1>6. \A u \in Unread' : u \in Unread /\ u # x
  BY <1>2, <1>3 DEF Unread
<1>7. \A u \in Unread : x \in Nat /\ u \in Nat
  BY WalAssumption DEF Unread, Msgs
<1>8. \A u \in Unread' : x < u
  BY <1>1, <1>6, <1>7
<1>9. QED
  BY <1>2, <1>3, <1>4, <1>5, <1>6, <1>8 DEF ReadInTurn

LEMMA ReadInTurnStep == ASSUME Struct, ReadInTurn, [Next]_vars PROVE ReadInTurn'
<1>1. CASE WriteData
  BY <1>1, WriteDataTurn
<1>2. CASE Read
  BY <1>2, ReadTurn
<1>3. CASE Exit \/ Kill
  <2>1. acked' = acked /\ dq' = <<>>
    BY <1>3 DEF Exit, Kill, Down
  <2>2. Range(dq') = {} /\ Increasing(dq')
    BY <2>1, NoEntry DEF Increasing
  <2>3. \A u \in Unread' : u \in Unread \/ u \in Range(dq)
    BY <2>1 DEF Unread
  <2>4. QED
    BY <2>1, <2>2, <2>3 DEF ReadInTurn
<1>4. CASE acked' = acked /\ dq' = dq
  BY <1>4 DEF ReadInTurn, Unread
<1>5. CASE RotateData \/ WriteGc \/ RotateGc \/ WriteCmp \/ RotateCmp \/ CompactorNext
  BY <1>4, <1>5 DEF RotateData, WriteGc, RotateGc, WriteCmp, RotateCmp, CompactorNext, Snapshot, ReadGc, CmpPass,
     SwitchCmp, EndCmpPass, DataPass, SwitchData, EndDataPass, DeleteGc, EndCycle, CompactorStops, CompactFails, ReadEntry
<1>6. CASE StartRead \/ Cancel \/ StopRead \/ StopGc \/ Boot \/ UNCHANGED vars
  BY <1>4, <1>6 DEF StartRead, Cancel, StopRead, StopGc, Boot, vars
<1>7. CASE \E k \in Keys, e \in 1..MaxTime : CloseWindow(k, e)
  BY <1>4, <1>7 DEF CloseWindow
<1>8. QED
  BY <1>1, <1>2, <1>3, <1>5, <1>6, <1>7 DEF Next, WriterNext, BoundReached

LEMMA WriteDataInTurn == ASSUME Struct, Stored, ReadInTurn, DataInTurn, WriteData PROVE DataInTurn'
<1>1. PICK n \in Nat : Segs(Msgs, data, n)
  BY SegTypesHas DEF Struct, Types
<1>2. PICK x \in Msgs : x = Head(dq) /\ Range(dq) = {x} \cup Range(dq')
  BY WriteDataHas
<1>3. Puts(Msgs, data, data', n, x)
  BY <1>1, <1>2, PutMoves DEF WriteData
<1>4. \A m : InAfter(data, 0, m) => m < x
  <2> SUFFICES ASSUME NEW m, InAfter(data, 0, m) PROVE m < x
    OBVIOUS
  <2>1. m \in Msgs
    BY <1>1, HeldIs
  <2>2. m \in acked
    BY <2>1 DEF Stored, Holds
  <2>3. QED
    BY <1>2, <2>2 DEF ReadInTurn
<1>5. Len(data) = n /\ Len(data') = n
  BY <1>1, <1>3 DEF Puts, Segs
<1>6. PICK z \in Nat : z = 0
  OBVIOUS
<1>7. Ordered(data', z, n)
  <2>1. Ordered(data, z, n) /\ \A m : InAfter(data, z, m) => m < x
    BY <1>4, <1>5, <1>6 DEF DataInTurn
  <2>2. QED
    BY <1>1, <1>3, <2>1, OrderedPut
<1>8. QED
  BY <1>5, <1>6, <1>7 DEF DataInTurn

\* Data segments keep their place; some may be empty.
LEMMA DataInPlace ==
    ASSUME DataInTurn, NEW n, NEW k, Segs(Msgs, data, n), Segs(Msgs, data', k),
           \A i \in 1..k : data'[i].es = <<>> \/ (i \in 1..n /\ data'[i].es = data[i].es)
    PROVE  DataInTurn'
<1>1. n \in Nat /\ k \in Nat /\ Len(data) = n /\ Len(data') = k
  BY DEF Segs
<1>2. PICK z \in Int : z = 0
  OBVIOUS
<1>3. k \in Int /\ \A i \in 1..n : i <= n
  BY <1>1
<1>4. Ordered(data', z, k)
  <2>1. Ordered(data, z, n)
    BY <1>1, <1>2 DEF DataInTurn
  <2>2. \A i \in 1..k : z < i /\ i <= k => data'[i].es = <<>> \/ (i \in 1..n /\ i <= n /\ data'[i].es = data[i].es)
    BY <1>3
  <2>3. QED
    BY <1>3, <2>1, <2>2, OrderedSame
<1>5. QED
  BY <1>1, <1>2, <1>4 DEF DataInTurn

LEMMA DataInTurnStep == ASSUME Struct, Stored, ReadInTurn, DataInTurn, [Next]_vars PROVE DataInTurn'
<1>0. PICK n \in Nat : Segs(Msgs, data, n)
  BY SegTypesHas DEF Struct, Types
<1>1. CASE WriteData
  BY <1>1, WriteDataInTurn
<1>2. CASE RotateData
  <2>1. clock' \in 0..MaxClock
    BY <1>2, WalAssumption DEF Struct, Types, SegTypes, RotateData
  <2>2. Rotates(Msgs, data, data', n, clock')
    BY <1>0, <1>2, <2>1, RotateMoves DEF RotateData
  <2>3. \A i \in 1..(n + 1) : i \in 1..n \/ i = n + 1
    OBVIOUS
  <2>4. Segs(Msgs, data', n + 1) /\ \A i \in 1..(n + 1) : data'[i].es = <<>> \/ (i \in 1..n /\ data'[i].es = data[i].es)
    BY <2>2, <2>3 DEF Rotates
  <2>5. QED
    BY <1>0, <2>4, DataInPlace
<1>3. CASE StopRead
  <2>1. OneActive(data)
    BY DEF Struct, Types, SegTypes
  <2>2. Freezes(Msgs, data, data', n) \/ data' = data
    BY <1>0, <1>3, <2>1, FreezeAny DEF StopRead
  <2>3. Segs(Msgs, data', n) /\ \A i \in 1..n : data'[i].es = <<>> \/ (i \in 1..n /\ data'[i].es = data[i].es)
    BY <1>0, <2>2 DEF Freezes
  <2>4. QED
    BY <1>0, <2>3, DataInPlace
<1>4. CASE StartRead
  <2>1. clock' \in 0..MaxClock
    BY <1>4, WalAssumption DEF Struct, Types, SegTypes, StartRead
  <2>2. Opens(Msgs, data, data', n, clock')
    BY <1>0, <1>4, <2>1, OpenMoves DEF StartRead
  <2>3. \A i \in 1..(n + 1) : i \in 1..n \/ i = n + 1
    OBVIOUS
  <2>4. Segs(Msgs, data', n + 1) /\ \A i \in 1..(n + 1) : data'[i].es = <<>> \/ (i \in 1..n /\ data'[i].es = data[i].es)
    BY <2>2, <2>3 DEF Opens
  <2>5. QED
    BY <1>0, <2>4, DataInPlace
<1>5. CASE SwitchData
  <2>1. Removes(Msgs, data, data', n, First(data))
    BY <1>0, <1>5, SwitchDataIs DEF Struct
  <2>2. Len(data) = n /\ Len(data') = n - 1
    BY <1>0, <2>1 DEF Removes, Segs
  <2>3. Ordered(data, 0, n)
    BY <2>2 DEF DataInTurn
  <2>4. Ordered(data', 0, n - 1)
    BY <1>0, <2>1, <2>3, OrderedRemoves
  <2>5. QED
    BY <2>2, <2>4 DEF DataInTurn
<1>6. CASE Exit \/ Kill
  <2>1. OneActive(data)
    BY DEF Struct, Types, SegTypes
  <2>2. Leaves(Msgs, data, data', n) \/ data' = data
    BY <1>0, <1>6, <2>1, LeaveAny DEF Exit, Kill, Down
  <2>3. \A i \in 1..n : i = n \/ i \in 1..(n - 1)
    OBVIOUS
  <2>4. Segs(Msgs, data', n) /\ \A i \in 1..n : data'[i].es = <<>> \/ (i \in 1..n /\ data'[i].es = data[i].es)
    BY <1>0, <2>2, <2>3 DEF Leaves
  <2>5. QED
    BY <1>0, <2>4, DataInPlace
<1>7. CASE data' = data
  BY <1>7 DEF DataInTurn
<1>8. CASE WriteGc \/ RotateGc \/ WriteCmp \/ RotateCmp \/ Snapshot \/ ReadGc \/ CmpPass
  BY <1>7, <1>8 DEF WriteGc, RotateGc, WriteCmp, RotateCmp, Snapshot, ReadGc, CmpPass, ReadEntry, segVars
<1>9. CASE SwitchCmp \/ EndCmpPass \/ DataPass \/ EndDataPass \/ DeleteGc \/ EndCycle \/ CompactorStops \/ CompactFails
  BY <1>7, <1>9 DEF SwitchCmp, EndCmpPass, DataPass, EndDataPass, DeleteGc, EndCycle, CompactorStops, CompactFails,
     ReadEntry, segVars
<1>10. CASE Cancel \/ StopGc \/ Boot \/ Read \/ UNCHANGED vars
  BY <1>7, <1>10 DEF Cancel, StopGc, Boot, Read, vars, segVars
<1>11. CASE \E k \in Keys, e \in 1..MaxTime : CloseWindow(k, e)
  BY <1>7, <1>11 DEF CloseWindow, segVars
<1>12. QED
  BY <1>1, <1>2, <1>3, <1>4, <1>5, <1>6, <1>8, <1>9, <1>10, <1>11 DEF Next, WriterNext, CompactorNext, BoundReached

(***************************************************************************)
(* Between two segments the compaction writer has a Rotate to do last, or  *)
(* nothing to do and an empty segment.                                     *)
(***************************************************************************)

\* No entry is counted when no segment is listed.
Idle ==
    /\ cpt = "cmp" /\ files = 0 => pos = 0
    /\ cpt = "data" /\ Listed(data) = {} => pos = 0

Between == pbq # "down" /\ cpt # "off" /\ (cpt \in {"cmp", "data"} => pos = 0)
Settled == IF cq = <<>> THEN Last(cmp).es = <<>> ELSE Last(cq) = Rotate
Tidy == Between => Settled

\* Compaction segments are listed when nothing is on its way to them.
Listing == ~lagged /\ cpt \in {"snap", "gc"} => cq = <<>>

LEMMA IdleStep == ASSUME Struct, Idle, [Next]_vars PROVE Idle'
<1>1. CASE WriteData \/ RotateData \/ StopRead
  <2>1. UNCHANGED <<cpt, files, pos>>
    BY <1>1 DEF WriteData, RotateData, StopRead, cptVars
  <2>2. cpt = "data" => Listed(data)' = Listed(data)
    BY <1>1, DataFirstKept
  <2>3. QED
    BY <2>1, <2>2 DEF Idle
<1>2. CASE CmpPass
  <2>1. cpt = "cmp" /\ Listed(cmp) # {} /\ cpt' = cpt /\ files' = files
    BY <1>2 DEF CmpPass, ReadEntry
  <2>2. files > 0
    BY <2>1, CmpFirst DEF Struct
  <2>3. QED
    BY <2>1, <2>2 DEF Idle
<1>3. CASE DataPass
  <2>1. cpt = "data" /\ Listed(data) # {} /\ UNCHANGED <<cpt, files, data>>
    BY <1>3 DEF DataPass, ReadEntry, segVars
  <2>2. Listed(data)' # {}
    BY <2>1 DEF Listed, Frozen
  <2>3. QED
    BY <2>1, <2>2 DEF Idle
<1>4. CASE pos' = 0 \/ cpt' \notin {"cmp", "data"}
  BY <1>4 DEF Idle
<1>5. CASE ReadGc \/ SwitchCmp \/ EndCmpPass \/ SwitchData \/ EndDataPass \/ Snapshot \/ EndCycle
  BY <1>4, <1>5 DEF ReadGc, SwitchCmp, EndCmpPass, SwitchData, EndDataPass, Snapshot, EndCycle
<1>6. CASE CompactorStops \/ CompactFails \/ Exit \/ Kill \/ Boot
  BY <1>4, <1>6 DEF CompactorStops, CompactFails, Exit, Kill, Down, Boot
<1>7. CASE StartRead
  <2>1. cpt' \notin {"cmp", "data"}
    BY <1>7 DEF StartRead, cptVars
  <2>2. QED
    BY <1>4, <2>1
<1>8. CASE UNCHANGED <<cpt, files, pos, data>>
  BY <1>8 DEF Idle, Listed, Frozen
<1>9. CASE WriteGc \/ RotateGc \/ WriteCmp \/ RotateCmp \/ DeleteGc
  BY <1>8, <1>9 DEF WriteGc, RotateGc, WriteCmp, RotateCmp, DeleteGc, cptVars
<1>10. CASE Read \/ Cancel \/ StopGc \/ UNCHANGED vars
  BY <1>8, <1>10 DEF Read, Cancel, StopGc, vars, segVars, cptVars
<1>11. CASE \E k \in Keys, e \in 1..MaxTime : CloseWindow(k, e)
  BY <1>8, <1>11 DEF CloseWindow, segVars, cptVars
<1>12. QED
  BY <1>1, <1>2, <1>3, <1>5, <1>6, <1>7, <1>9, <1>10, <1>11 DEF Next, WriterNext, CompactorNext, BoundReached

LEMMA ListingStep == ASSUME Struct, Listing, [Next]_vars PROVE Listing'
<1>1. CASE Snapshot
  BY <1>1 DEF Snapshot, Listing
<1>2. CASE Boot
  BY <1>2, BootHas DEF Listing
<1>3. CASE WriteCmp \/ RotateCmp
  BY <1>3 DEF WriteCmp, RotateCmp, cptVars, histVars, Listing
<1>4. CASE cpt' \notin {"snap", "gc"}
  BY <1>4 DEF Listing
<1>5. CASE ReadGc \/ CmpPass \/ SwitchCmp \/ EndCmpPass \/ DataPass \/ SwitchData \/ EndDataPass
  BY <1>4, <1>5 DEF ReadGc, CmpPass, SwitchCmp, EndCmpPass, DataPass, SwitchData, EndDataPass, ReadEntry
<1>6. CASE DeleteGc \/ EndCycle \/ CompactorStops \/ CompactFails \/ Exit \/ Kill
  BY <1>4, <1>6 DEF DeleteGc, EndCycle, CompactorStops, CompactFails, Exit, Kill, Down, cptVars
<1>7. CASE UNCHANGED <<cpt, cq, lagged>>
  BY <1>7 DEF Listing
<1>8. CASE WriteData \/ RotateData \/ WriteGc \/ RotateGc \/ StartRead \/ Read \/ Cancel \/ StopRead \/ StopGc
  BY <1>7, <1>8 DEF WriteData, RotateData, WriteGc, RotateGc, StartRead, Read, Cancel, StopRead, StopGc, cptVars, histVars
<1>9. CASE \E k \in Keys, e \in 1..MaxTime : CloseWindow(k, e)
  BY <1>7, <1>9 DEF CloseWindow, cptVars, histVars
<1>10. CASE UNCHANGED vars
  BY <1>7, <1>10 DEF vars, cptVars, histVars
<1>11. QED
  BY <1>1, <1>2, <1>3, <1>5, <1>6, <1>8, <1>9, <1>10 DEF Next, WriterNext, CompactorNext, BoundReached

\* The last entry of a queue, when an entry is added and when the first is taken.
LEMMA LastAppend ==
    ASSUME NEW S, NEW s \in Seq(S), NEW x \in S
    PROVE  Append(s, x) # <<>> /\ Last(Append(s, x)) = x
  BY DEF Last

LEMMA LastTail ==
    ASSUME NEW S, NEW s \in Seq(S), s # <<>>, Last(s) # Head(s)
    PROVE  Tail(s) # <<>> /\ Last(Tail(s)) = Last(s)
<1>1. PICK n \in Nat : n = Len(s) /\ n >= 1
  OBVIOUS
<1>2. n > 1
  BY <1>1 DEF Last
<1>3. PICK t \in Seq(S) : t = Tail(s)
  <2>1. Tail(s) \in Seq(S)
    OBVIOUS
  <2>2. QED
    BY <2>1, Zenon
<1>4. Len(t) = n - 1 /\ \A i \in 1..(n - 1) : t[i] = s[i + 1]
  BY <1>1, <1>3, SeqTail
<1>5. n - 1 \in 1..(n - 1) /\ (n - 1) + 1 = n
  BY <1>2
<1>6. t # <<>> /\ t[n - 1] = s[n]
  BY <1>2, <1>4, <1>5
<1>7. Last(t) = Last(s)
  BY <1>1, <1>4, <1>6 DEF Last
<1>8. QED
  BY <1>3, <1>6, <1>7

LEMMA CmpWriterTidy == ASSUME Struct, Tidy, WriteCmp \/ RotateCmp PROVE Tidy'
<1>1. PICK n \in Nat : Segs(Msgs, cmp, n)
  BY SegTypesHas DEF Struct, Types
<1> SUFFICES ASSUME Between' PROVE Settled'
  BY DEF Tidy
<1>0. UNCHANGED <<pbq, cpt, pos>> /\ Settled
  BY DEF WriteCmp, RotateCmp, cptVars, Tidy, Between
<1>2. cq \in Seq(Msgs \cup {Rotate}) /\ cq # <<>> /\ UNCHANGED <<pbq, cpt, pos>>
  BY <1>0 DEF Struct, Types, QueueTypes, WriteCmp, RotateCmp, NonEmpty, Settled
<1>3. Last(cq) = Rotate
  BY <1>0, <1>2 DEF Settled
<1>4. Len(cmp) = n
  BY <1>1 DEF Segs
<1>5. CASE RotateCmp
  BY <1>2, <1>3, <1>5 DEF RotateCmp, Settled
<1>6. CASE WriteCmp /\ Head(cq) # Rotate
  <2>1. cq' # <<>> /\ Last(cq') = Rotate
    BY <1>2, <1>3, <1>6, LastTail DEF WriteCmp
  <2>2. QED
    BY <2>1 DEF Settled
<1>7. CASE WriteCmp /\ Head(cq) = Rotate
  <2>1. cq' # <<>> => Last(cq') = Rotate
    <3>1. cq' = Tail(cq)
      BY <1>7 DEF WriteCmp
    <3>2. PICK k \in Nat : k = Len(cq) /\ Len(Tail(cq)) = k - 1
      BY <1>2, SeqTail
    <3>3. ASSUME cq' # <<>> PROVE Last(cq') = Rotate
      <4>1. PICK t \in Seq(Msgs \cup {Rotate}) : t = Tail(cq)
        <5>1. Tail(cq) \in Seq(Msgs \cup {Rotate})
          BY <1>2, SeqTail
        <5>2. QED
          BY <5>1, Zenon
      <4>2. Len(t) = k - 1 /\ t # <<>> /\ \A i \in 1..(k - 1) : t[i] = cq[i + 1]
        BY <1>2, <3>1, <3>2, <3>3, <4>1, SeqTail
      <4>3. k - 1 \in 1..(k - 1) /\ (k - 1) + 1 = k
        BY <3>2, <4>2
      <4>4. t[k - 1] = cq[k]
        BY <4>2, <4>3
      <4>5. QED
        BY <1>3, <3>1, <3>2, <4>1, <4>2, <4>4 DEF Last
    <3>4. QED
      BY <3>3
  <2>2. Last(cmp').es = <<>>
    <3>1. CASE Rotates(Msgs, cmp, cmp', n, 0)
      <4>1. Len(cmp') = n + 1 /\ cmp'[n + 1].es = <<>>
        BY <3>1 DEF Rotates, Segs
      <4>2. QED
        BY <4>1 DEF Last
    <3>2. CASE cmp' = cmp
      <4>1. ~NonEmpty(cmp)
        <5>1. NonEmpty(cmp) => cmp' = Open(Freeze(cmp), 0)
          BY <1>7 DEF WriteCmp
        <5>2. NonEmpty(cmp) => Rotates(Msgs, cmp, cmp', n, 0)
          <6>1. 0 \in 0..MaxClock
            BY WalAssumption
          <6>2. QED
            BY <1>1, <5>1, <6>1, RotateMoves
        <5>3. NonEmpty(cmp) => Len(cmp') = n + 1
          BY <5>2 DEF Rotates, Segs
        <5>4. QED
          BY <1>4, <3>2, <5>3
      <4>2. Active(cmp)
        BY <1>7 DEF WriteCmp
      <4>3. QED
        BY <3>2, <4>1, <4>2 DEF NonEmpty
    <3>3. QED
      BY <1>1, <1>7, <3>1, <3>2, CmpWriterIs DEF Struct
  <2>3. QED
    BY <2>1, <2>2 DEF Settled
<1>8. QED
  BY <1>5, <1>6, <1>7

LEMMA TidyStep == ASSUME Struct, Idle, Tidy, [Next]_vars PROVE Tidy'
<1>1. CASE WriteCmp \/ RotateCmp
  BY <1>1, CmpWriterTidy
<1>2. CASE CmpPass \/ DataPass
  <2>1. pos' = pos + 1 /\ pos \in Nat /\ cpt' \in {"cmp", "data"}
    BY <1>2 DEF CmpPass, DataPass, ReadEntry, Struct, Types, CptTypes
  <2>2. QED
    BY <2>1 DEF Tidy, Between
<1>3. CASE SwitchCmp \/ SwitchData
  <2>1. cq \in Seq(Msgs \cup {Rotate}) /\ cq' = Append(cq, Rotate)
    BY <1>3 DEF Struct, Types, QueueTypes, SwitchCmp, SwitchData
  <2>2. PICK r \in Msgs \cup {Rotate} : r = Rotate
    OBVIOUS
  <2>3. cq' # <<>> /\ Last(cq') = Rotate
    BY <2>1, <2>2, LastAppend
  <2>4. QED
    BY <2>3 DEF Tidy, Settled
<1>4. ASSUME UNCHANGED <<cmp, cq>>, Between' => Between PROVE Tidy'
  BY <1>4 DEF Tidy, Settled
<1>5. CASE EndCmpPass \/ EndDataPass
  <2>1. CASE EndCmpPass
    <3>1. cpt = "cmp" /\ Listed(cmp) = {}
      BY <2>1 DEF EndCmpPass
    <3>2. files = 0
      BY <3>1, CmpFirst DEF Struct, Types, CptTypes
    <3>3. pos = 0
      BY <3>1, <3>2 DEF Idle
    <3>4. UNCHANGED <<cmp, cq, pbq>>
      BY <2>1 DEF EndCmpPass, segVars
    <3>5. QED
      BY <1>4, <3>1, <3>3, <3>4 DEF Between
  <2>2. CASE EndDataPass
    <3>1. cpt = "data" /\ pos = 0
      BY <2>2 DEF EndDataPass, Idle
    <3>2. UNCHANGED <<cmp, cq, pbq>>
      BY <2>2 DEF EndDataPass, segVars
    <3>3. QED
      BY <1>4, <3>1, <3>2 DEF Between
  <2>3. QED
    BY <1>5, <2>1, <2>2
<1>6. CASE Snapshot \/ ReadGc \/ EndCycle
  <2>1. UNCHANGED <<cmp, cq, pbq>> /\ cpt \notin {"cmp", "data", "off"}
    BY <1>6 DEF Snapshot, ReadGc, EndCycle, segVars
  <2>2. QED
    BY <1>4, <2>1 DEF Between
<1>7. CASE CompactorStops \/ CompactFails \/ Exit \/ Kill
  BY <1>7 DEF CompactorStops, CompactFails, Exit, Kill, Down, Tidy, Between
<1>8. CASE Boot
  <2>1. PICK n \in Nat : Segs(Msgs, cmp, n)
    BY SegTypesHas DEF Struct, Types
  <2>2. 0 \in 0..MaxClock
    BY WalAssumption
  <2>3. Opens(Msgs, cmp, cmp', n, 0)
    BY <1>8, <2>1, <2>2, OpenMoves DEF Boot
  <2>4. Len(cmp') = n + 1 /\ cmp'[n + 1].es = <<>>
    BY <2>3 DEF Opens, Segs
  <2>5. QED
    BY <1>8, <2>4, BootHas DEF Tidy, Settled, Last
<1>9. CASE StartRead
  <2>1. UNCHANGED <<cmp, cq, cpt, pos>> /\ pbq = "boot"
    BY <1>9 DEF StartRead, cptVars
  <2>2. QED
    BY <1>4, <2>1 DEF Between
<1>10. CASE StopRead
  <2>1. UNCHANGED <<cmp, cq, cpt, pos>> /\ pbq = "read"
    BY <1>10 DEF StopRead, cptVars
  <2>2. QED
    BY <1>4, <2>1 DEF Between
<1>11. CASE UNCHANGED <<cmp, cq, pbq, cpt, pos>>
  BY <1>4, <1>11 DEF Between
<1>12. CASE WriteData \/ RotateData \/ WriteGc \/ RotateGc \/ DeleteGc \/ Read \/ Cancel \/ StopGc
  BY <1>11, <1>12 DEF WriteData, RotateData, WriteGc, RotateGc, DeleteGc, Read, Cancel, StopGc, cptVars, segVars
<1>13. CASE \E k \in Keys, e \in 1..MaxTime : CloseWindow(k, e)
  BY <1>11, <1>13 DEF CloseWindow, cptVars, segVars
<1>14. CASE UNCHANGED vars
  BY <1>11, <1>14 DEF vars, segVars, cptVars
<1>15. QED
  BY <1>1, <1>2, <1>3, <1>5, <1>6, <1>7, <1>8, <1>9, <1>10, <1>12, <1>13, <1>14
     DEF Next, WriterNext, CompactorNext, BoundReached

(***************************************************************************)
(* The order of what is copied, and of what a pass has still to read.      *)
(***************************************************************************)

\* The data segment a pass is at.
At == IF cpt = "data" /\ Listed(data) # {} THEN First(data) ELSE 0
CmpPending(x) == Pending(cmp, Old, IF cpt = "cmp" THEN 1 ELSE 0, pos, x)
DataPending(x) == Pending(data, Len(data), At, pos, x)
Awaited(x) == CmpPending(x) \/ DataPending(x)

Rising(s) == \A i, j \in DOMAIN s : i < j /\ s[i] # Rotate /\ s[j] # Rotate => s[i] < s[j]

CmpInTurn ==
    /\ Ordered(cmp, 0, Old) /\ Ordered(cmp, Old, Len(cmp))
    /\ Rising(cq)
    /\ \A m, x \in Msgs : InAfter(cmp, Old, m) /\ x \in Range(cq) => m < x

CopiesFirst ==
    /\ \A m, x \in Msgs : Copied(m) /\ Awaited(x) => m < x
    /\ \A m, x \in Msgs : CmpPending(m) /\ DataPending(x) => m < x

OutInTurn ==
    /\ Increasing(out)
    /\ pbq = "boot" => \A m \in Range(out), x \in Msgs : Awaited(x) => m < x

Order == CmpInTurn /\ CopiesFirst /\ OutInTurn

LEMMA OrderKept ==
    ASSUME Order, CmpInTurn', out' = out \/ out' = <<>>, pbq' = "boot" => pbq = "boot",
           \A x \in Msgs : /\ Copied(x)' => Copied(x)
                           /\ CmpPending(x)' => CmpPending(x)
                           /\ DataPending(x)' => DataPending(x)
    PROVE  Order'
<1>1. CopiesFirst'
  BY DEF Order, CopiesFirst, Awaited
<1>2. Increasing(out')
  BY DEF Order, OutInTurn, Increasing
<1>3. Range(out') \subseteq Range(out)
  BY NoEntry
<1>4. \A x \in Msgs : Awaited(x)' => Awaited(x)
  BY DEF Awaited
<1>5. OutInTurn'
  BY <1>2, <1>3, <1>4 DEF Order, OutInTurn
<1>6. QED
  BY <1>1, <1>5 DEF Order

LEMMA CmpStill ==
    ASSUME UNCHANGED <<cmp, cq>>, Old' = Old
    PROVE  /\ CmpInTurn => CmpInTurn'
           /\ \A m : Copied(m)' <=> Copied(m)
  BY DEF CmpInTurn, Copied

\* What is pending is held; at the start of a pass all that is held is pending.
LEMMA PendingHeld ==
    ASSUME NEW s, NEW n, Segs(Msgs, s, n), NEW k, NEW at, NEW p, NEW m, Pending(s, k, at, p, m)
    PROVE  Holds(s, m) /\ m \in Msgs /\ InUpTo(s, k, m)
<1>1. InUpTo(s, k, m)
  BY PendingHolds
<1>2. Holds(s, m)
  <2>1. PICK i \in 1..n : m \in Range(s[i].es)
    BY <1>1 DEF InUpTo, Segs
  <2>2. i > 0 /\ i \in DOMAIN s
    BY DEF Segs
  <2>3. QED
    BY <2>1, <2>2 DEF Holds, InAfter
<1>3. QED
  BY <1>1, <1>2, HeldIs

LEMMA HeldPending ==
    ASSUME NEW s, NEW n, Segs(Msgs, s, n), NEW at, NEW p, at = 0 \/ p = 0, NEW m, Holds(s, m)
    PROVE  Pending(s, n, at, p, m)
<1>1. PICK i \in 1..n : m \in Range(s[i].es)
  BY DEF Holds, InAfter, Segs
<1>2. i <= n /\ i \in DOMAIN s
  BY DEF Segs
<1>3. InUpTo(s, n, m)
  BY <1>1, <1>2 DEF InUpTo
<1>4. QED
  BY <1>3, PendingAll

\* Each segment of t is empty or one of s, which is read no further.
LEMMA PendingFrom ==
    ASSUME NEW s, NEW t, NEW n, NEW k, Segs(Msgs, s, n), Segs(Msgs, t, k), NEW f,
           NEW b, NEW at, NEW p \in Nat, NEW a, NEW au, NEW u \in Nat, NEW m, Pending(t, a, au, u, m),
           \A j \in 1..k : j <= a =>
              t[j].es = <<>> \/ (/\ f[j] \in 1..n /\ f[j] <= b /\ t[j].es = s[f[j]].es
                                 /\ f[j] = at => j = au /\ u >= p)
    PROVE  Pending(s, b, at, p, m)
<1>1. DOMAIN s = 1..n /\ DOMAIN t = 1..k
  BY DEF Segs
<1>0. PICK j \in 1..k : j <= a /\ \E q \in DOMAIN t[j].es : m = t[j].es[q] /\ (j = au => q > u)
  BY <1>1 DEF Pending
<1>2. PICK q \in DOMAIN t[j].es : j <= a /\ m = t[j].es[q] /\ (j = au => q > u)
  BY <1>0
<1>3. /\ f[j] \in 1..n /\ f[j] <= b /\ t[j].es = s[f[j]].es
      /\ f[j] = at => j = au /\ u >= p
  BY <1>2
<1>4. t[j].es \in Seq(Msgs)
  BY SegsHas
<1>5. q \in Nat
  BY <1>2, <1>4
<1>6. f[j] = at => q > p
  BY <1>2, <1>3, <1>5
<1>7. QED
  BY <1>1, <1>2, <1>3, <1>6 DEF Pending

LEMMA PendingSame ==
    ASSUME NEW s, NEW t, NEW n, NEW k, Segs(Msgs, s, n), Segs(Msgs, t, k),
           NEW b, NEW at, NEW p \in Nat, NEW a, NEW u \in Nat, u >= p \/ at = 0, NEW m, Pending(t, a, at, u, m),
           \A j \in 1..k : j <= a => t[j].es = <<>> \/ (j \in 1..n /\ j <= b /\ t[j].es = s[j].es)
    PROVE  Pending(s, b, at, p, m)
<1>1. DOMAIN s = 1..n /\ DOMAIN t = 1..k
  BY DEF Segs
<1>2. PICK j \in 1..k : j <= a /\ \E q \in DOMAIN t[j].es : m = t[j].es[q] /\ (j = at => q > u)
  BY <1>1 DEF Pending
<1>3. PICK q \in DOMAIN t[j].es : m = t[j].es[q] /\ (j = at => q > u)
  BY <1>2
<1>4. t[j].es \in Seq(Msgs)
  BY SegsHas
<1>5. q \in Nat /\ j # 0
  BY <1>3, <1>4
<1>6. j \in 1..n /\ j <= b /\ t[j].es = s[j].es
  BY <1>2, <1>3
<1>7. j = at => q > p
  BY <1>3, <1>5
<1>8. QED
  BY <1>1, <1>3, <1>6, <1>7 DEF Pending

LEMMA PendingPut ==
    ASSUME NEW s, NEW t, NEW n, NEW x \in Msgs, Segs(Msgs, s, n), Puts(Msgs, s, t, n, x),
           NEW at, NEW p, NEW m, Pending(t, n, at, p, m)
    PROVE  Pending(s, n, at, p, m) \/ m = x
<1>1. n \in Nat /\ n > 0 /\ Segs(Msgs, t, n) /\ (\A i \in 1..(n - 1) : t[i] = s[i])
  BY DEF Puts
<1>2. PICK y \in Seq(Msgs) : s[n].es = y /\ t[n].es = Append(y, x)
  BY DEF Puts
<1>3. DOMAIN s = 1..n /\ DOMAIN t = 1..n
  BY <1>1 DEF Segs
<1>0. PICK j \in 1..n : \E q \in DOMAIN t[j].es : m = t[j].es[q] /\ (j = at => q > p)
  BY <1>3 DEF Pending
<1>4. PICK q \in DOMAIN t[j].es : m = t[j].es[q] /\ (j = at => q > p)
  BY <1>0
<1>5. j <= n /\ (j = n \/ j \in 1..(n - 1))
  BY <1>1
<1>6. CASE j # n
  BY <1>1, <1>3, <1>4, <1>5, <1>6 DEF Pending
<1>7. CASE j = n
  <2>1. PICK l \in Nat : l = Len(y) /\ DOMAIN y = 1..l
    OBVIOUS
  <2>2. PICK z : z = Append(y, x)
    OBVIOUS
  <2>3. DOMAIN z = 1..(l + 1) /\ (\A i \in 1..l : z[i] = y[i]) /\ z[l + 1] = x
    BY <2>1, <2>2
  <2>4. q \in 1..l \/ q = l + 1
    BY <1>2, <1>4, <1>7, <2>1, <2>2, <2>3
  <2>5. CASE q = l + 1
    BY <1>2, <1>4, <1>7, <2>2, <2>3, <2>5
  <2>6. CASE q \in 1..l
    <3>1. m = s[n].es[q] /\ q \in DOMAIN s[n].es
      BY <1>2, <1>4, <1>7, <2>1, <2>2, <2>3, <2>6
    <3>2. QED
      BY <1>3, <1>4, <1>5, <1>7, <3>1 DEF Pending
  <2>7. QED
    BY <2>4, <2>5, <2>6
<1>8. QED
  BY <1>6, <1>7

LEMMA RisingTail ==
    ASSUME NEW S, NEW s \in Seq(S), s # <<>>, Rising(s)
    PROVE  /\ Rising(Tail(s)) /\ Range(Tail(s)) \subseteq Range(s)
           /\ Head(s) # Rotate => \A y \in Range(Tail(s)) : y # Rotate => Head(s) < y
<1>1. PICK n \in Nat : n = Len(s) /\ n >= 1
  BY SeqTail
<1>2. PICK t : t = Tail(s)
  OBVIOUS
<1>3. DOMAIN s = 1..n /\ DOMAIN t = 1..(n - 1) /\ Head(s) = s[1] /\ \A i \in 1..(n - 1) : t[i] = s[i + 1]
  BY <1>1, <1>2, SeqTail
<1>4. \A i \in 1..(n - 1) : i + 1 \in 1..n /\ 1 \in 1..n /\ 1 < i + 1
  BY <1>1
<1>5. \A i, j \in 1..(n - 1) : i < j => i + 1 < j + 1
  BY <1>1
<1>6. Rising(t)
  BY <1>3, <1>4, <1>5 DEF Rising
<1>7. ASSUME Head(s) # Rotate, NEW y \in Range(t), y # Rotate PROVE Head(s) < y
  <2>1. PICK i \in 1..(n - 1) : y = s[i + 1]
    BY <1>3, <1>7 DEF Range
  <2>2. QED
    BY <1>3, <1>4, <1>7, <2>1 DEF Rising
<1>8. Range(t) \subseteq Range(s)
  BY <1>2, SeqTail
<1>9. QED
  BY <1>2, <1>6, <1>7, <1>8

LEMMA RisingAppend ==
    ASSUME NEW S, NEW s \in Seq(S), NEW x \in S, Rising(s), x = Rotate \/ \A y \in Range(s) : y # Rotate => y < x
    PROVE  Rising(Append(s, x))
<1>1. PICK n \in Nat : n = Len(s) /\ DOMAIN s = 1..n
  OBVIOUS
<1>2. PICK t : t = Append(s, x)
  OBVIOUS
<1>3. DOMAIN t = 1..(n + 1) /\ (\A i \in 1..n : t[i] = s[i]) /\ t[n + 1] = x
  BY <1>1, <1>2
<1>4. \A i \in 1..(n + 1) : i = n + 1 \/ i \in 1..n
  BY <1>1
<1>5. x # Rotate => \A i \in 1..n : s[i] # Rotate => s[i] < x
  BY <1>1 DEF Range
<1>6. ASSUME NEW i \in 1..(n + 1), NEW j \in 1..(n + 1), i < j, t[i] # Rotate, t[j] # Rotate PROVE t[i] < t[j]
  <2>1. i \in 1..n
    BY <1>1, <1>6
  <2>2. CASE j = n + 1
    BY <1>3, <1>5, <1>6, <2>1, <2>2
  <2>3. CASE j \in 1..n
    BY <1>1, <1>3, <1>6, <2>1, <2>3 DEF Rising
  <2>4. QED
    BY <1>4, <2>2, <2>3
<1>7. Rising(t)
  BY <1>3, <1>6 DEF Rising
<1>8. QED
  BY <1>2, <1>7

\* The next entry of the queue is larger than those of the copies, smaller than the rest.
LEMMA CmpWriterOrder ==
    ASSUME Struct, Order, cpt \notin {"snap", "gc"}, WriteCmp \/ RotateCmp
    PROVE  Order'
<1>1. PICK n \in Nat : Segs(Msgs, cmp, n)
  BY SegTypesHas DEF Struct, Types
<1>2. /\ Active(cmp) /\ pbq # "down" /\ (WriteCmp => cq # <<>>)
      /\ \/ /\ WriteCmp /\ Head(cq) # Rotate
            /\ \E x \in Msgs : x = Head(cq) /\ Puts(Msgs, cmp, cmp', n, x)
         \/ Rotates(Msgs, cmp, cmp', n, 0) /\ (RotateCmp \/ (WriteCmp /\ Head(cq) = Rotate))
         \/ cmp' = cmp /\ WriteCmp /\ Head(cq) = Rotate
  BY <1>1, CmpWriterIs DEF Struct
<1>3. PICK o \in Nat : o = Old /\ Old' = o /\ o < n
  BY <1>1, <1>2, OldIs, CmpWriterHas
<1>4. \A x \in Msgs : Copied(x)' <=> Copied(x)
  BY CmpWriterHas
<1>5. UNCHANGED <<data, pbq, cpt, files, pos, out>>
  BY DEF WriteCmp, RotateCmp, cptVars, histVars
<1>6. \A x : DataPending(x)' <=> DataPending(x)
  <2>1. At' = At
    BY <1>5 DEF At, First, Listed, Frozen
  <2>2. QED
    BY <1>5, <2>1 DEF DataPending
<1>7. cq \in Seq(Msgs \cup {Rotate}) /\ pos \in Nat
  BY DEF Struct, Types, QueueTypes, CptTypes
<1>8. Rising(cq') /\ Range(cq') \subseteq Range(cq)
  <2>1. cq' = cq \/ cq' = Tail(cq)
    BY DEF WriteCmp, RotateCmp
  <2>2. CASE WriteCmp
    BY <1>2, <1>7, <2>1, <2>2, RisingTail DEF Order, CmpInTurn
  <2>3. CASE RotateCmp
    BY <2>3 DEF RotateCmp, Order, CmpInTurn
  <2>4. QED
    BY <2>2, <2>3
<1>9. PICK z \in Int : z = 0
  OBVIOUS
<1>10. Ordered(cmp, z, o) /\ Ordered(cmp, o, n) /\ \A m, x \in Msgs : InAfter(cmp, o, m) /\ x \in Range(cq) => m < x
  BY <1>1, <1>3, <1>9 DEF Order, CmpInTurn, Segs
<1>11. PICK a : a = IF cpt = "cmp" THEN 1 ELSE 0
  OBVIOUS
<1>12. ASSUME NEW k \in Nat, Segs(Msgs, cmp', k), \A j \in 1..k : j <= o => j \in 1..n /\ cmp'[j].es = cmp[j].es
       PROVE  Ordered(cmp', z, o) /\ \A x \in Msgs : CmpPending(x)' => CmpPending(x)
  <2>1. Ordered(cmp', z, o)
    <3>1. \A j \in 1..k : z < j /\ j <= o => cmp'[j].es = <<>> \/ (j \in 1..n /\ j <= o /\ cmp'[j].es = cmp[j].es)
      BY <1>12
    <3>2. QED
      BY <1>1, <1>3, <1>9, <1>10, <1>12, <3>1, OrderedSame
  <2>2. ASSUME NEW x \in Msgs, Pending(cmp', o, a, pos, x) PROVE Pending(cmp, o, a, pos, x)
    <3>1. \A j \in 1..k : j <= o => cmp'[j].es = <<>> \/ (j \in 1..n /\ j <= o /\ cmp'[j].es = cmp[j].es)
      BY <1>12
    <3>2. pos >= pos
      BY <1>7
    <3>3. QED
      BY <1>1, <1>7, <1>12, <2>2, <3>1, <3>2, PendingSame
  <2>3. QED
    BY <1>3, <1>5, <1>11, <2>1, <2>2 DEF CmpPending
<1>13. CASE WriteCmp /\ Head(cq) # Rotate
  <2>1. PICK x \in Msgs : x = Head(cq) /\ Puts(Msgs, cmp, cmp', n, x)
    BY <1>2, <1>13 DEF RotateCmp, WriteCmp
  <2>2. Segs(Msgs, cmp', n) /\ \A i \in 1..(n - 1) : cmp'[i] = cmp[i]
    BY <2>1 DEF Puts
  <2>3. \A j \in 1..n : j <= o => j \in 1..n /\ cmp'[j].es = cmp[j].es
    <3>1. \A j \in 1..n : j <= o => j \in 1..(n - 1)
      BY <1>3
    <3>2. QED
      BY <2>2, <3>1
  <2>4. Ordered(cmp', z, o) /\ \A y \in Msgs : CmpPending(y)' => CmpPending(y)
    BY <1>12, <2>2, <2>3
  <2>5. cq' = Tail(cq) /\ x \in Range(cq)
    BY <1>2, <1>7, <1>13, <2>1, SeqTail DEF WriteCmp
  <2>6. \A m : InAfter(cmp', o, m) <=> InAfter(cmp, o, m) \/ m = x
    BY <1>1, <1>3, <2>1, PutsHas
  <2>7. Ordered(cmp', o, n)
    <3>1. \A m : InAfter(cmp, o, m) => m < x
      BY <1>1, <1>10, <2>5, HeldIs
    <3>2. QED
      BY <1>1, <1>10, <2>1, <3>1, OrderedPut
  <2>8. \A m, y \in Msgs : InAfter(cmp', o, m) /\ y \in Range(cq') => m < y
    <3>1. \A y \in Msgs : y \in Range(cq') => x < y
      BY <1>2, <1>7, <1>13, <2>1, <2>5, RisingTail, MsgsNotRotate DEF Order, CmpInTurn
    <3>2. QED
      BY <1>8, <1>10, <2>6, <3>1
  <2>9. Len(cmp') = n
    BY <2>2 DEF Segs
  <2>10. CmpInTurn'
    BY <1>3, <1>8, <1>9, <2>4, <2>7, <2>8, <2>9 DEF CmpInTurn
  <2>11. QED
    BY <1>4, <1>5, <1>6, <2>4, <2>10, OrderKept
<1>14. CASE Rotates(Msgs, cmp, cmp', n, 0) \/ cmp' = cmp
  <2>1. PICK k \in Nat : Segs(Msgs, cmp', k) /\ k >= n /\ \A j \in 1..k : (j \in 1..n /\ cmp'[j].es = cmp[j].es) \/ (j > n /\ cmp'[j].es = <<>>)
    <3>1. CASE Rotates(Msgs, cmp, cmp', n, 0)
      <4>1. \A j \in 1..(n + 1) : j \in 1..n \/ (j > n /\ j = n + 1)
        OBVIOUS
      <4>2. Segs(Msgs, cmp', n + 1) /\ n + 1 \in Nat /\ n + 1 >= n
        BY <3>1 DEF Rotates
      <4>3. \A j \in 1..(n + 1) : (j \in 1..n /\ cmp'[j].es = cmp[j].es) \/ (j > n /\ cmp'[j].es = <<>>)
        BY <3>1, <4>1 DEF Rotates
      <4>4. QED
        BY <4>2, <4>3
    <3>2. CASE cmp' = cmp
      BY <1>1, <3>2
    <3>3. QED
      BY <1>14, <3>1, <3>2
  <2>2. \A j \in 1..k : j <= o => j \in 1..n /\ cmp'[j].es = cmp[j].es
    BY <1>3, <2>1
  <2>3. Ordered(cmp', z, o) /\ \A y \in Msgs : CmpPending(y)' => CmpPending(y)
    BY <1>12, <2>1, <2>2
  <2>4. Ordered(cmp', o, k)
    <3>1. \A j \in 1..k : o < j /\ j <= k => cmp'[j].es = <<>> \/ (j \in 1..n /\ j <= n /\ cmp'[j].es = cmp[j].es)
      BY <2>1
    <3>2. o \in Int /\ k \in Int
      OBVIOUS
    <3>3. QED
      BY <1>1, <1>10, <2>1, <3>1, <3>2, OrderedSame
  <2>5. \A m : InAfter(cmp', o, m) => InAfter(cmp, o, m)
    <3>1. DOMAIN cmp' = 1..k /\ DOMAIN cmp = 1..n
      BY <1>1, <2>1 DEF Segs
    <3>2. QED
      BY <2>1, <3>1, NoEntry DEF InAfter
  <2>6. Len(cmp') = k
    BY <2>1 DEF Segs
  <2>7. CmpInTurn'
    BY <1>3, <1>8, <1>9, <1>10, <2>3, <2>4, <2>5, <2>6 DEF CmpInTurn
  <2>8. QED
    BY <1>4, <1>5, <1>6, <2>3, <2>7, OrderKept
<1>15. QED
  BY <1>2, <1>13, <1>14

\* The entry after the p read ones is pending, and smaller than those pending after it.
LEMMA PendingNext ==
    ASSUME NEW s, NEW n, Segs(Msgs, s, n), NEW h \in Nat, Ordered(s, 0, h), NEW f \in 1..n, f <= h,
           \A j \in 1..n : j < f => s[j].es = <<>>,
           NEW p \in Nat, p + 1 \in 1..Len(s[f].es), NEW m, m = s[f].es[p + 1]
    PROVE  /\ Pending(s, h, f, p, m)
           /\ \A x : Pending(s, h, f, p + 1, x) => Pending(s, h, f, p, x) /\ m < x
<1>1. DOMAIN s = 1..n /\ n \in Nat
  BY DEF Segs
<1>2. s[f].es \in Seq(Msgs) /\ DOMAIN s[f].es = 1..Len(s[f].es)
  BY SegsHas
<1>3. p + 1 \in DOMAIN s[f].es /\ p + 1 > p
  BY <1>2
<1>4. Pending(s, h, f, p, m)
  BY <1>1, <1>3 DEF Pending
<1>5. ASSUME NEW x, Pending(s, h, f, p + 1, x) PROVE Pending(s, h, f, p, x) /\ m < x
  <2>1. PICK j \in 1..n : j <= h /\ \E q \in DOMAIN s[j].es : x = s[j].es[q] /\ (j = f => q > p + 1)
    BY <1>1, <1>5 DEF Pending
  <2>2. PICK q \in DOMAIN s[j].es : x = s[j].es[q] /\ (j = f => q > p + 1)
    BY <2>1
  <2>3. s[j].es \in Seq(Msgs)
    BY SegsHas
  <2>4. q \in Nat
    BY <2>2, <2>3
  <2>5. j = f => q > p
    BY <2>2, <2>4
  <2>6. Pending(s, h, f, p, x)
    BY <1>1, <2>1, <2>2, <2>5 DEF Pending
  <2>7. ~(j < f)
    BY <2>2
  <2>8. f <= j /\ (f < j \/ p + 1 < q) /\ 0 < f
    BY <2>2, <2>7
  <2>9. s[f].es[p + 1] < s[j].es[q]
    BY <1>1, <1>3, <2>1, <2>8 DEF Ordered
  <2>10. QED
    BY <2>2, <2>6, <2>9
<1>6. QED
  BY <1>4, <1>5

\* An entry is read in its turn.
LEMMA ReadEntryOrder ==
    ASSUME Struct, Order, NEW segs, NEW n, Segs(Msgs, segs, n), ReadEntry(segs),
           NEW m, m = segs[First(segs)].es[pos'], Awaited(m),
           \A x \in Msgs : (CmpPending(x)' => CmpPending(x)) /\ (DataPending(x)' => DataPending(x)),
           \A x \in Msgs : Awaited(x)' => m < x
    PROVE  Order'
<1>1. m \in Msgs
  BY ReadEntryHas
<1>2. UNCHANGED <<cmp, pbq, cpt, files>>
  BY DEF ReadEntry, segVars
<1>3. Old' = Old
  BY <1>2 DEF Old
<1>4. cq \in Seq(Msgs \cup {Rotate}) /\ out \in Seq(Msgs)
  BY DEF Struct, Types, QueueTypes, RestTypes
<1>5. \A x \in Msgs : Awaited(x)' => Awaited(x)
  BY DEF Awaited
<1>6. CASE ShouldRetain(m)
  <2>1. /\ cq' = Append(cq, m)
        /\ pbq = "boot" => out' = Append(out, m)
        /\ pbq # "boot" => out' = out
    BY <1>6 DEF ReadEntry
  <2>2. m \in Msgs \cup {Rotate}
    BY <1>1
  <2>3. Range(cq') = Range(cq) \cup {m}
    BY <1>4, <2>1, <2>2, RangeAppend
  <2>4. \A y \in Msgs : Copied(y) => y < m
    BY <1>1 DEF Order, CopiesFirst
  <2>5. Rising(cq')
    <3>1. \A y \in Range(cq) : y # Rotate => y \in Msgs
      BY <1>4, SeqRange
    <3>2. \A y \in Range(cq) : y # Rotate => y < m
      BY <2>4, <3>1 DEF Copied
    <3>3. Rising(cq)
      BY DEF Order, CmpInTurn
    <3>4. QED
      BY <1>4, <2>1, <2>2, <3>2, <3>3, RisingAppend
  <2>6. \A y, x \in Msgs : InAfter(cmp', Old', y) /\ x \in Range(cq') => y < x
    <3>1. \A y \in Msgs : InAfter(cmp, Old, y) => y < m
      BY <2>4 DEF Copied
    <3>2. QED
      BY <1>2, <1>3, <2>3, <3>1 DEF Order, CmpInTurn
  <2>7. CmpInTurn'
    BY <1>2, <1>3, <2>5, <2>6 DEF Order, CmpInTurn
  <2>8. \A y \in Msgs : Copied(y)' => Copied(y) \/ y = m
    BY <1>2, <1>3, <2>3 DEF Copied
  <2>9. CopiesFirst'
    <3>1. \A y, x \in Msgs : Copied(y)' /\ Awaited(x)' => y < x
      BY <1>5, <2>8 DEF Order, CopiesFirst
    <3>2. QED
      BY <3>1 DEF Order, CopiesFirst
  <2>10. OutInTurn'
    <3>1. CASE pbq = "boot"
      <4>1. out' = Append(out, m)
        BY <2>1, <3>1
      <4>2. Range(out') = Range(out) \cup {m}
        BY <1>1, <1>4, <4>1, RangeAppend
      <4>3. \A y \in Range(out) : y < m
        BY <1>1, <3>1 DEF Order, OutInTurn
      <4>4. Increasing(out')
        BY <1>1, <1>4, <4>1, <4>3, IncreasingAppend DEF Order, OutInTurn
      <4>5. \A y \in Range(out'), x \in Msgs : Awaited(x)' => y < x
        BY <1>5, <3>1, <4>2 DEF Order, OutInTurn
      <4>6. QED
        BY <4>4, <4>5 DEF OutInTurn
    <3>2. CASE pbq # "boot"
      BY <1>2, <2>1, <3>2 DEF Order, OutInTurn
    <3>3. QED
      BY <3>1, <3>2
  <2>11. QED
    BY <2>7, <2>9, <2>10 DEF Order
<1>7. CASE ~ShouldRetain(m)
  <2>1. UNCHANGED <<cq, out>>
    BY <1>7 DEF ReadEntry
  <2>2. CmpInTurn' /\ \A x : Copied(x)' <=> Copied(x)
    BY <1>2, <1>3, <2>1, CmpStill DEF Order
  <2>3. QED
    BY <1>2, <2>1, <2>2, OrderKept
<1>8. QED
  BY <1>6, <1>7

LEMMA CmpPassOrder == ASSUME Struct, Order, CmpPass PROVE Order'
<1>1. PICK n \in Nat : Segs(Msgs, cmp, n)
  BY SegTypesHas DEF Struct, Types
<1>2. cpt = "cmp" /\ ReadEntry(cmp) /\ pos \in Nat
  BY DEF CmpPass, Struct, Types, CptTypes
<1>3. PICK m : m = cmp[First(cmp)].es[pos']
  OBVIOUS
<1>4. Listed(cmp) # {} /\ pos' = pos + 1 /\ pos' \in 1..Len(cmp[First(cmp)].es)
  BY <1>1, <1>2, ReadEntryIs
<1>5. First(cmp) = 1 /\ files > 0 /\ files \in Nat /\ 1 \in 1..n
  BY <1>1, <1>2, <1>4, CmpFirst, FirstIs DEF Struct, Types, CptTypes
<1>6. Old = files /\ Old' = files /\ UNCHANGED <<cmp, data, cpt, files>>
  BY <1>2 DEF Old, ReadEntry, segVars
<1>7. PICK f \in 1..n : f = 1
  BY <1>5
<1>8. PICK h \in Nat : h = files /\ f <= h
  BY <1>5, <1>7
<1>9. Ordered(cmp, 0, h)
  BY <1>6, <1>8 DEF Order, CmpInTurn
<1>10. /\ Pending(cmp, h, f, pos, m)
       /\ \A x : Pending(cmp, h, f, pos + 1, x) => Pending(cmp, h, f, pos, x) /\ m < x
  <2>1. \A j \in 1..n : j < f => cmp[j].es = <<>>
    BY <1>7
  <2>2. m = cmp[f].es[pos + 1] /\ pos + 1 \in 1..Len(cmp[f].es)
    BY <1>3, <1>4, <1>5, <1>7
  <2>3. QED
    BY <1>1, <1>2, <1>8, <1>9, <2>1, <2>2, PendingNext
<1>11. CmpPending(m) /\ \A x : CmpPending(x)' => CmpPending(x) /\ m < x
  BY <1>2, <1>4, <1>6, <1>7, <1>8, <1>10 DEF CmpPending
<1>12. \A x : DataPending(x)' => DataPending(x)
  <2>1. At = 0 /\ At' = 0
    BY <1>2, <1>6 DEF At
  <2>2. PICK z : z = 0 /\ At = z /\ At' = z
    BY <2>1
  <2>3. PICK d \in Nat : Segs(Msgs, data, d)
    BY SegTypesHas DEF Struct, Types
  <2>4. Len(data) = d
    BY <2>3 DEF Segs
  <2>5. PICK u \in Nat : u = pos'
    BY <1>2, <1>4
  <2>6. ASSUME NEW x, Pending(data, d, z, u, x) PROVE Pending(data, d, z, pos, x)
    <3>1. \A j \in 1..d : j <= d => data[j].es = <<>> \/ (j \in 1..d /\ j <= d /\ data[j].es = data[j].es)
      OBVIOUS
    <3>2. QED
      BY <1>2, <2>2, <2>3, <2>6, <3>1, PendingSame
  <2>7. QED
    BY <1>6, <2>2, <2>4, <2>5, <2>6 DEF DataPending
<1>13. m \in Msgs
  BY <1>1, <1>2, <1>3, ReadEntryHas
<1>14. \A x \in Msgs : Awaited(x)' => m < x
  BY <1>11, <1>12, <1>13 DEF Awaited, Order, CopiesFirst
<1>15. Awaited(m)
  BY <1>11 DEF Awaited
<1>16. QED
  BY <1>1, <1>2, <1>3, <1>11, <1>12, <1>14, <1>15, ReadEntryOrder

LEMMA DataPassOrder == ASSUME Struct, Order, DataInTurn, DataPass PROVE Order'
<1>1. PICK n \in Nat : Segs(Msgs, data, n)
  BY SegTypesHas DEF Struct, Types
<1>2. cpt = "data" /\ ReadEntry(data) /\ pos \in Nat
  BY DEF DataPass, Struct, Types, CptTypes
<1>3. PICK m : m = data[First(data)].es[pos']
  OBVIOUS
<1>4. Listed(data) # {} /\ pos' = pos + 1 /\ pos' \in 1..Len(data[First(data)].es)
  BY <1>1, <1>2, ReadEntryIs
<1>5. PICK f \in 1..n : f = First(data) /\ f <= files /\ \A i \in Listed(data) : f <= i
  BY <1>1, <1>4, FirstIs
<1>6. UNCHANGED <<cmp, data, cpt, files>> /\ Len(data) = n
  BY <1>1, <1>2 DEF ReadEntry, segVars, Segs
<1>7. At = f /\ At' = f
  BY <1>2, <1>4, <1>5, <1>6 DEF At, First, Listed, Frozen
<1>8. \A j \in 1..n : j < f => data[j].es = <<>>
  <2> SUFFICES ASSUME NEW j \in 1..n, j < f PROVE data[j].es = <<>>
    OBVIOUS
  <2>1. files \in Nat /\ j \in 1..files /\ j <= files
    BY <1>5 DEF Struct, Types, CptTypes
  <2>2. data[j].st # "active"
    BY <1>2, <2>1 DEF Struct, Pass
  <2>3. j \notin Listed(data)
    BY <1>5
  <2>4. data[j].st # "frozen"
    BY <1>1, <2>1, <2>3 DEF Listed, Frozen, Segs
  <2>5. data[j].st = "left"
    BY <1>1, <2>2, <2>4, SegsHas DEF States
  <2>6. QED
    BY <1>1, <2>5 DEF Struct, Shape, Segs
<1>9. /\ Pending(data, n, f, pos, m)
      /\ \A x : Pending(data, n, f, pos + 1, x) => Pending(data, n, f, pos, x) /\ m < x
  <2>1. Ordered(data, 0, n) /\ f <= n
    BY <1>6 DEF DataInTurn
  <2>2. m = data[f].es[pos + 1] /\ pos + 1 \in 1..Len(data[f].es)
    BY <1>3, <1>4, <1>5
  <2>3. QED
    BY <1>1, <1>2, <1>8, <2>1, <2>2, PendingNext
<1>10. DataPending(m) /\ \A x : DataPending(x)' => DataPending(x) /\ m < x
  BY <1>4, <1>6, <1>7, <1>9 DEF DataPending
<1>11. \A x : ~CmpPending(x)'
  <2>1. Old' = 0
    BY <1>2, <1>6 DEF Old
  <2>2. PICK k \in Nat : Segs(Msgs, cmp, k)
    BY SegTypesHas DEF Struct, Types
  <2>3. \A j \in DOMAIN cmp : ~(j <= 0)
    BY <2>2 DEF Segs
  <2>4. QED
    BY <1>6, <2>1, <2>3 DEF CmpPending, Pending
<1>12. \A x \in Msgs : Awaited(x)' => m < x
  BY <1>10, <1>11 DEF Awaited
<1>13. Awaited(m)
  BY <1>10 DEF Awaited
<1>14. QED
  BY <1>1, <1>2, <1>3, <1>10, <1>11, <1>12, <1>13, ReadEntryOrder

LEMMA NonePending ==
    ASSUME NEW s, NEW n, Segs(Msgs, s, n), NEW at, NEW p, NEW m
    PROVE  ~Pending(s, 0, at, p, m)
<1>1. \A j \in DOMAIN s : ~(j <= 0)
  BY DEF Segs
<1>2. QED
  BY <1>1 DEF Pending

\* A step of the cycle before a pass or after it.
LEMMA CycleOrder ==
    ASSUME Struct, Order, UNCHANGED <<data, cmp, cq, out, pbq>>, Old' = Old, Old = 0 \/ cpt # "cmp", At = 0
    PROVE  Order'
<1>1. CmpInTurn' /\ \A x : Copied(x)' <=> Copied(x)
  BY CmpStill DEF Order
<1>2. ASSUME NEW x \in Msgs, CmpPending(x)' PROVE CmpPending(x)
  <2>1. PICK n \in Nat : Segs(Msgs, cmp, n)
    BY SegTypesHas DEF Struct, Types
  <2>2. PICK a : Pending(cmp, Old, a, pos', x)
    BY <1>2 DEF CmpPending
  <2>3. Old # 0
    BY <2>1, <2>2, NonePending
  <2>4. InUpTo(cmp, Old, x)
    BY <2>2, PendingHolds
  <2>5. PICK z : z = 0
    OBVIOUS
  <2>6. Pending(cmp, Old, z, pos, x)
    BY <2>1, <2>4, <2>5, PendingAll
  <2>7. QED
    BY <2>3, <2>5, <2>6 DEF CmpPending
<1>3. ASSUME NEW x \in Msgs, DataPending(x)' PROVE DataPending(x)
  <2>1. PICK n \in Nat : Segs(Msgs, data, n)
    BY SegTypesHas DEF Struct, Types
  <2>2. Len(data) = n
    BY <2>1 DEF Segs
  <2>3. PICK a : Pending(data, n, a, pos', x)
    BY <1>3, <2>2 DEF DataPending
  <2>4. Holds(data, x)
    BY <2>1, <2>3, PendingHeld
  <2>5. Pending(data, n, At, pos, x)
    BY <2>1, <2>4, HeldPending
  <2>6. QED
    BY <2>2, <2>5 DEF DataPending
<1>4. QED
  BY <1>1, <1>2, <1>3, OrderKept

\* The copies of the last cycle are what the next one reads first.
LEMMA SnapshotOrder == ASSUME Struct, Order, Tidy, Snapshot, ~lagged' PROVE Order'
<1>1. UNCHANGED <<data, cmp, cq, out, pbq, pos>> /\ cpt' = "gc" /\ cq = <<>> /\ cpt \in {"snap", "wait"}
  BY DEF Snapshot, segVars
<1>2. At = 0 /\ At' = 0
  BY <1>1 DEF At
<1>3. CASE cpt = "snap"
  <2>1. Old' = Old
    BY <1>1, <1>3 DEF Old
  <2>2. QED
    BY <1>1, <1>2, <1>3, <2>1, CycleOrder
<1>4. CASE cpt = "wait"
  <2>1. PICK n \in Nat : Segs(Msgs, cmp, n)
    BY SegTypesHas DEF Struct, Types
  <2>2. pbq # "boot" /\ pbq # "down" /\ n > 0 /\ Len(cmp) = n
    BY <1>4, <2>1, SegsHas DEF Snapshot, Struct, Shape, Segs
  <2>3. Old = 0 /\ Old' = n - 1
    BY <1>1, <1>4, <2>2 DEF Old
  <2>4. cmp[n].es = <<>>
    BY <1>1, <1>4, <2>2 DEF Tidy, Between, Settled, Last
  <2>5. PICK z \in Int : z = 0 /\ Ordered(cmp, z, n)
    BY <2>2, <2>3 DEF Order, CmpInTurn
  <2>6. PICK o \in Nat : o = n - 1
    BY <2>2
  <2>7. Ordered(cmp, z, o)
    <3>1. \A j \in 1..n : z < j /\ j <= o => cmp[j].es = <<>> \/ (j \in 1..n /\ j <= n /\ cmp[j].es = cmp[j].es)
      OBVIOUS
    <3>2. QED
      BY <2>1, <2>5, <3>1, OrderedSame
  <2>8. \A m : ~InAfter(cmp, o, m)
    <3>1. \A j \in DOMAIN cmp : j > o => j = n
      BY <2>1, <2>6 DEF Segs
    <3>2. QED
      BY <2>4, <3>1, NoEntry DEF InAfter
  <2>9. Ordered(cmp, o, n)
    <3>1. \A i, j \in DOMAIN cmp : o < i /\ i <= j /\ j <= n => i = n
      BY <2>1, <2>6 DEF Segs
    <3>2. DOMAIN cmp[n].es = {}
      BY <2>4
    <3>3. QED
      BY <3>1, <3>2 DEF Ordered
  <2>10. \A m : ~Copied(m)'
    BY <1>1, <2>3, <2>6, <2>8, NoEntry DEF Copied
  <2>11. CmpInTurn'
    BY <1>1, <2>2, <2>3, <2>5, <2>6, <2>7, <2>8, <2>9 DEF CmpInTurn, Order
  <2>12. \A m \in Msgs : CmpPending(m)' => Copied(m)
    <3> SUFFICES ASSUME NEW m \in Msgs, CmpPending(m)' PROVE Copied(m)
      OBVIOUS
    <3>1. PICK a : Pending(cmp, o, a, pos, m)
      BY <1>1, <2>3, <2>6 DEF CmpPending
    <3>2. Holds(cmp, m)
      BY <2>1, <3>1, PendingHeld
    <3>3. QED
      BY <2>3, <3>2 DEF Copied, Holds
  <2>13. \A x : DataPending(x)' <=> DataPending(x)
    BY <1>1, <1>2 DEF DataPending
  <2>14. CopiesFirst'
    BY <2>10, <2>12, <2>13 DEF CopiesFirst, Order, Awaited
  <2>15. OutInTurn'
    BY <1>1, <2>2 DEF OutInTurn, Order
  <2>16. QED
    BY <2>11, <2>14, <2>15 DEF Order
<1>5. QED
  BY <1>1, <1>3, <1>4

LEMMA CyclesOrder ==
    ASSUME Struct, Order, ReadGc \/ EndCmpPass \/ EndDataPass \/ EndCycle \/ CompactorStops
    PROVE  Order'
<1>1. UNCHANGED <<data, cmp, cq, out, pbq>>
  BY DEF ReadGc, EndCmpPass, EndDataPass, EndCycle, CompactorStops, segVars, histVars
<1>2. At = 0
  BY DEF At, ReadGc, EndCmpPass, EndDataPass, EndCycle, CompactorStops
<1>3. Old' = Old /\ (Old = 0 \/ cpt # "cmp")
  <2>1. CASE ReadGc
    <3>1. PICK n \in Nat : Segs(Msgs, cmp, n)
      BY SegTypesHas DEF Struct, Types
    <3>2. cpt = "gc" /\ cpt' = "cmp" /\ files' = LastFrozen(cmp) /\ pbq # "down"
      BY <2>1 DEF ReadGc, Struct, Shape
    <3>3. n > 0 /\ cmp[n].st = "active" /\ Len(cmp) = n /\ DOMAIN cmp = 1..n
      BY <3>1, <3>2, SegsHas DEF Struct, Shape, Segs
    <3>4. \A i \in 1..(n - 1) : i \in Frozen(cmp)
      BY <3>2, <3>3 DEF Frozen, Struct, Shape
    <3>5. /\ LastFrozen(cmp) \in 0..n /\ \A i \in Frozen(cmp) : i <= LastFrozen(cmp)
          /\ LastFrozen(cmp) > 0 => cmp[LastFrozen(cmp)].st = "frozen"
      BY <3>1, LastFrozenIs
    <3>6. LastFrozen(cmp) # n
      BY <3>3, <3>5
    <3>7. n - 1 > 0 => n - 1 <= LastFrozen(cmp)
      BY <3>1, <3>4, <3>5
    <3>8. LastFrozen(cmp) = n - 1
      BY <3>3, <3>5, <3>6, <3>7
    <3>9. QED
      BY <1>1, <3>2, <3>3, <3>8 DEF Old
  <2>2. CASE EndCmpPass
    <3>1. cpt = "cmp" /\ Listed(cmp) = {} /\ cpt' = "data"
      BY <2>2 DEF EndCmpPass
    <3>2. files = 0
      BY <3>1, CmpFirst DEF Struct, Types, CptTypes
    <3>3. QED
      BY <3>1, <3>2 DEF Old
  <2>3. CASE EndDataPass \/ EndCycle \/ CompactorStops
    BY <2>3 DEF EndDataPass, EndCycle, CompactorStops, Old
  <2>4. QED
    BY <2>1, <2>2, <2>3
<1>4. QED
  BY <1>1, <1>2, <1>3, CycleOrder

LEMMA SwitchCmpOrder == ASSUME Struct, Order, SwitchCmp PROVE Order'
<1>1. PICK n \in Nat : Segs(Msgs, cmp, n)
  BY SegTypesHas DEF Struct, Types
<1>2. /\ files \in 1..(n - 1) /\ First(cmp) = 1 /\ pos = Len(cmp[1].es)
      /\ Segs(Msgs, cmp', n - 1) /\ n > 1 /\ \A i \in 1..(n - 1) : cmp'[i] = cmp[i + 1]
  BY <1>1, SwitchCmpIs DEF Struct
<1>3. cpt = "cmp" /\ UNCHANGED <<data, pbq, cpt, out>> /\ files' = files - 1 /\ pos' = 0 /\ cq' = Append(cq, Rotate)
  BY DEF SwitchCmp, histVars
<1>4. PICK o \in Nat : o = files /\ Old = o /\ Old' = o - 1 /\ o >= 1 /\ o <= n
  BY <1>1, <1>2, <1>3 DEF Old
<1>5. PICK k \in Nat : k = n - 1
  BY <1>2
<1>6. PICK u \in Nat : u = o - 1
  BY <1>4
<1>7. Segs(Msgs, cmp', k) /\ Len(cmp') = k /\ Len(cmp) = n /\ \A i \in 1..k : cmp'[i] = cmp[i + 1] /\ i + 1 \in 1..n
  BY <1>1, <1>2, <1>5 DEF Segs
<1>8. Ordered(cmp, 0, o) /\ Ordered(cmp, o, n)
  BY <1>4, <1>7 DEF Order, CmpInTurn
<1>9. Ordered(cmp', 0, u)
  <2>1. PICK z \in Nat : z = 0
    OBVIOUS
  <2>2. z + 1 >= z /\ u + 1 <= o /\ z \in Int /\ u \in Int /\ Ordered(cmp, z, o)
    BY <1>6, <1>8, <2>1
  <2>3. Segs(Msgs, cmp', n - 1) /\ n > 0 /\ \A i \in 1..(n - 1) : cmp'[i] = cmp[i + 1]
    BY <1>2
  <2>4. Ordered(cmp', z, u)
    BY <1>1, <2>2, <2>3, OrderedShift
  <2>5. QED
    BY <2>1, <2>4
<1>10. Ordered(cmp', u, k)
  <2>1. u + 1 >= o /\ k + 1 <= n /\ u \in Int /\ k \in Int /\ Ordered(cmp, o, n)
    BY <1>5, <1>6, <1>8
  <2>2. Segs(Msgs, cmp', n - 1) /\ n > 0 /\ \A i \in 1..(n - 1) : cmp'[i] = cmp[i + 1]
    BY <1>2
  <2>3. QED
    BY <1>1, <2>1, <2>2, OrderedShift
<1>11. Rising(cq')
  <2>1. cq \in Seq(Msgs \cup {Rotate}) /\ Rising(cq)
    BY DEF Struct, Types, QueueTypes, Order, CmpInTurn
  <2>2. PICK r \in Msgs \cup {Rotate} : r = Rotate
    OBVIOUS
  <2>3. QED
    BY <1>3, <2>1, <2>2, RisingAppend
<1>12. /\ \A m \in Msgs : m \in Range(cq') <=> m \in Range(cq)
       /\ \A m \in Msgs : Copied(m)' <=> Copied(m)
  BY SwitchCmpHas
<1>13. \A m : InAfter(cmp', u, m) <=> InAfter(cmp, o, m)
  <2>1. o \in 1..n
    BY <1>4
  <2>2. QED
    BY <1>1, <1>2, <1>6, <2>1, ShiftHas
<1>14. CmpInTurn'
  BY <1>4, <1>6, <1>7, <1>9, <1>10, <1>11, <1>12, <1>13 DEF Order, CmpInTurn
<1>15. \A x : CmpPending(x)' => CmpPending(x)
  <2> SUFFICES ASSUME NEW x, CmpPending(x)' PROVE CmpPending(x)
    OBVIOUS
  <2>1. PICK w \in Nat : w = 0
    OBVIOUS
  <2>2. PICK at : at = 1 /\ Pending(cmp', u, at, w, x)
    BY <1>3, <1>4, <1>6, <2>1 DEF CmpPending
  <2>3. PICK f : f = [i \in 1..k |-> i + 1]
    OBVIOUS
  <2>4. \A j \in 1..k : j <= u => /\ f[j] \in 1..n /\ f[j] <= o /\ cmp'[j].es = cmp[f[j]].es
                                  /\ f[j] # at
    BY <1>6, <1>7, <2>2, <2>3
  <2>5. pos \in Nat /\ Segs(Msgs, cmp', k) /\ Pending(cmp', u, at, w, x)
    BY <1>7, <2>2 DEF Struct, Types, CptTypes
  <2>6. Pending(cmp, o, at, pos, x)
    BY <1>1, <2>4, <2>5, PendingFrom
  <2>7. QED
    BY <1>3, <1>4, <2>2, <2>6 DEF CmpPending
<1>16. \A x : DataPending(x)' => DataPending(x)
  <2> SUFFICES ASSUME NEW x, DataPending(x)' PROVE DataPending(x)
    OBVIOUS
  <2>1. PICK d \in Nat : Segs(Msgs, data, d)
    BY SegTypesHas DEF Struct, Types
  <2>2. Len(data) = d /\ At = 0
    BY <1>3, <2>1 DEF Segs, At
  <2>3. PICK a : Pending(data, d, a, pos', x)
    BY <1>3, <2>2 DEF DataPending
  <2>4. Holds(data, x)
    BY <2>1, <2>3, PendingHeld
  <2>5. Pending(data, d, At, pos, x)
    BY <2>1, <2>2, <2>4, HeldPending
  <2>6. QED
    BY <2>2, <2>5 DEF DataPending
<1>17. QED
  BY <1>3, <1>12, <1>14, <1>15, <1>16, OrderKept

LEMMA SwitchDataOrder == ASSUME Struct, Order, SwitchData PROVE Order'
<1>1. PICK n \in Nat : Segs(Msgs, data, n)
  BY SegTypesHas DEF Struct, Types
<1>2. First(data) \in 1..n /\ Removes(Msgs, data, data', n, First(data))
  BY <1>1, SwitchDataIs DEF Struct
<1>3. cpt = "data" /\ Listed(data) # {} /\ UNCHANGED <<cmp, pbq, cpt, out>> /\ pos' = 0 /\ cq' = Append(cq, Rotate)
  BY DEF SwitchData, histVars
<1>4. Old = 0 /\ Old' = 0
  BY <1>3 DEF Old
<1>5. PICK r \in 1..n : r = First(data) /\ At = r
  BY <1>2, <1>3 DEF At
<1>6. PICK k \in Nat : k = n - 1 /\ Segs(Msgs, data', k) /\ Len(data') = k /\ Len(data) = n
  BY <1>1, <1>2 DEF Removes, Segs
<1>7. \A i \in 1..k : (i < r => data'[i] = data[i]) /\ (i >= r => data'[i] = data[i + 1])
  BY <1>2, <1>5, <1>6 DEF Removes
<1>8. Rising(cq')
  <2>1. cq \in Seq(Msgs \cup {Rotate}) /\ Rising(cq)
    BY DEF Struct, Types, QueueTypes, Order, CmpInTurn
  <2>2. PICK x \in Msgs \cup {Rotate} : x = Rotate
    OBVIOUS
  <2>3. QED
    BY <1>3, <2>1, <2>2, RisingAppend
<1>9. /\ \A m \in Msgs : m \in Range(cq') <=> m \in Range(cq)
      /\ \A m \in Msgs : Copied(m)' <=> Copied(m)
  BY SwitchDataHas
<1>10. CmpInTurn'
  BY <1>3, <1>4, <1>8, <1>9 DEF Order, CmpInTurn
<1>11. \A x : ~CmpPending(x)'
  <2>1. PICK c \in Nat : Segs(Msgs, cmp, c)
    BY SegTypesHas DEF Struct, Types
  <2>2. QED
    BY <1>3, <1>4, <2>1, NonePending DEF CmpPending
<1>12. \A x : DataPending(x)' => DataPending(x)
  <2> SUFFICES ASSUME NEW x, DataPending(x)' PROVE DataPending(x)
    OBVIOUS
  <2>1. PICK w \in Nat : w = 0
    OBVIOUS
  <2>2. PICK a : Pending(data', k, a, w, x)
    BY <1>3, <1>6, <2>1 DEF DataPending
  <2>3. PICK f : f = [i \in 1..k |-> IF i < r THEN i ELSE i + 1]
    OBVIOUS
  <2>4. \A j \in 1..k : f[j] \in 1..n /\ f[j] <= n /\ f[j] # r
    BY <1>6, <2>3
  <2>5. \A j \in 1..k : data'[j] = data[f[j]]
    BY <1>7, <2>3
  <2>6. pos \in Nat
    BY DEF Struct, Types, CptTypes
  <2>7. \A j \in 1..k : j <= k => /\ f[j] \in 1..n /\ f[j] <= n /\ data'[j].es = data[f[j]].es /\ f[j] # r
    BY <2>4, <2>5
  <2>8. Pending(data, n, r, pos, x)
    BY <1>1, <1>6, <2>1, <2>2, <2>6, <2>7, PendingFrom
  <2>9. QED
    BY <1>5, <1>6, <2>8 DEF DataPending
<1>13. QED
  BY <1>3, <1>9, <1>10, <1>11, <1>12, OrderKept

\* A message that is written is larger than all that are stored.
LEMMA WriteDataOrder == ASSUME Struct, Stored, ReadInTurn, Order, WriteData PROVE Order'
<1>1. PICK n \in Nat : Segs(Msgs, data, n)
  BY SegTypesHas DEF Struct, Types
<1>2. PICK x \in Msgs : x = Head(dq) /\ Range(dq) = {x} \cup Range(dq')
  BY WriteDataHas
<1>3. Puts(Msgs, data, data', n, x)
  BY <1>1, <1>2, PutMoves DEF WriteData
<1>4. UNCHANGED <<cmp, cq, out, pbq, cpt, files, pos>>
  BY DEF WriteData, cptVars, histVars
<1>5. Old' = Old
  BY <1>4 DEF Old
<1>6. CmpInTurn' /\ \A m : Copied(m)' <=> Copied(m)
  BY <1>4, <1>5, CmpStill DEF Order
<1>7. \A m : CmpPending(m)' <=> CmpPending(m)
  BY <1>4, <1>5 DEF CmpPending
<1>8. At' = At
  <2>1. cpt = "data" => Listed(data)' = Listed(data) /\ First(data)' = First(data)
    BY DataFirstKept
  <2>2. QED
    BY <1>4, <2>1 DEF At
<1>9. \A m : DataPending(m)' => DataPending(m) \/ m = x
  <2>1. Len(data) = n /\ Len(data') = n
    BY <1>1, <1>3 DEF Puts, Segs
  <2>2. \A m : Pending(data', n, At, pos, m) => Pending(data, n, At, pos, m) \/ m = x
    BY <1>1, <1>3, PendingPut
  <2>3. QED
    BY <1>4, <1>8, <2>1, <2>2 DEF DataPending
<1>10. \A m \in Msgs : Copied(m) \/ CmpPending(m) => m < x
  <2> SUFFICES ASSUME NEW m \in Msgs, Copied(m) \/ CmpPending(m) PROVE m < x
    OBVIOUS
  <2>1. PICK c \in Nat : Segs(Msgs, cmp, c)
    BY SegTypesHas DEF Struct, Types
  <2>2. CmpPending(m) => Holds(cmp, m)
    BY <2>1, PendingHeld DEF CmpPending
  <2>3. Copied(m) => m \in Range(cq) \/ Holds(cmp, m)
    <3>1. InAfter(cmp, Old, m) => Holds(cmp, m)
      <4>1. \A i \in DOMAIN cmp : i > 0
        BY <2>1 DEF Segs
      <4>2. QED
        BY <4>1 DEF InAfter, Holds
    <3>2. QED
      BY <3>1 DEF Copied
  <2>4. m \in acked
    BY <2>2, <2>3 DEF Stored
  <2>5. QED
    BY <1>2, <2>4 DEF ReadInTurn
<1>11. pbq # "boot"
  BY DEF WriteData, Struct, Shape
<1>12. CopiesFirst'
  BY <1>6, <1>7, <1>9, <1>10 DEF Order, CopiesFirst, Awaited
<1>13. OutInTurn'
  BY <1>4, <1>11 DEF Order, OutInTurn
<1>14. QED
  BY <1>6, <1>12, <1>13 DEF Order

LEMMA DataWriterOrder == ASSUME Struct, Order, RotateData \/ StopRead \/ StartRead PROVE Order'
<1>1. PICK n \in Nat : Segs(Msgs, data, n)
  BY SegTypesHas DEF Struct, Types
<1>2. UNCHANGED <<cmp, cq, out, cpt, files, pos>> /\ (pbq' = "boot" => pbq = "boot")
  BY DEF RotateData, StopRead, StartRead, cptVars, histVars
<1>3. Old' = Old
  BY <1>2 DEF Old
<1>4. CmpInTurn' /\ \A m : Copied(m)' <=> Copied(m)
  BY <1>2, <1>3, CmpStill DEF Order
<1>5. \A m : CmpPending(m)' <=> CmpPending(m)
  BY <1>2, <1>3 DEF CmpPending
<1>6. At' = At
  <2>1. CASE StartRead
    BY <1>2, <2>1 DEF StartRead, At
  <2>2. CASE RotateData \/ StopRead
    <3>1. cpt = "data" => Listed(data)' = Listed(data) /\ First(data)' = First(data)
      BY <2>2, DataFirstKept
    <3>2. QED
      BY <1>2, <3>1 DEF At
  <2>3. QED
    BY <2>1, <2>2
<1>7. PICK k \in Nat : Segs(Msgs, data', k) /\ \A j \in 1..k : (j \in 1..n /\ data'[j].es = data[j].es) \/ data'[j].es = <<>>
  <2>1. \A j \in 1..(n + 1) : j \in 1..n \/ j = n + 1
    OBVIOUS
  <2>2. n + 1 \in Nat
    OBVIOUS
  <2>3. CASE RotateData
    <3>1. clock' \in 0..MaxClock
      BY <2>3, WalAssumption DEF Struct, Types, SegTypes, RotateData
    <3>2. Rotates(Msgs, data, data', n, clock')
      BY <1>1, <2>3, <3>1, RotateMoves DEF RotateData
    <3>3. Segs(Msgs, data', n + 1) /\ \A j \in 1..(n + 1) : (j \in 1..n /\ data'[j].es = data[j].es) \/ data'[j].es = <<>>
      BY <2>1, <3>2 DEF Rotates
    <3>4. QED
      BY <2>2, <3>3
  <2>4. CASE StopRead
    <3>1. OneActive(data)
      BY DEF Struct, Types, SegTypes
    <3>2. Freezes(Msgs, data, data', n) \/ data' = data
      BY <1>1, <2>4, <3>1, FreezeAny DEF StopRead
    <3>3. Segs(Msgs, data', n) /\ \A j \in 1..n : (j \in 1..n /\ data'[j].es = data[j].es) \/ data'[j].es = <<>>
      BY <1>1, <3>2 DEF Freezes
    <3>4. QED
      BY <3>3
  <2>5. CASE StartRead
    <3>1. clock' \in 0..MaxClock
      BY <2>5, WalAssumption DEF Struct, Types, SegTypes, StartRead
    <3>2. Opens(Msgs, data, data', n, clock')
      BY <1>1, <2>5, <3>1, OpenMoves DEF StartRead
    <3>3. Segs(Msgs, data', n + 1) /\ \A j \in 1..(n + 1) : (j \in 1..n /\ data'[j].es = data[j].es) \/ data'[j].es = <<>>
      BY <2>1, <3>2 DEF Opens
    <3>4. QED
      BY <2>2, <3>3
  <2>6. QED
    BY <2>3, <2>4, <2>5
<1>8. \A m : DataPending(m)' => DataPending(m)
  <2> SUFFICES ASSUME NEW m, DataPending(m)' PROVE DataPending(m)
    OBVIOUS
  <2>1. Len(data) = n /\ Len(data') = k /\ pos \in Nat
    BY <1>1, <1>7 DEF Segs, Struct, Types, CptTypes
  <2>2. PICK a : a = At /\ Pending(data', k, a, pos, m)
    BY <1>2, <1>6, <2>1 DEF DataPending
  <2>3. \A j \in 1..k : j <= k => data'[j].es = <<>> \/ (j \in 1..n /\ j <= n /\ data'[j].es = data[j].es)
    BY <1>7
  <2>4. pos >= pos
    BY <2>1
  <2>5. Pending(data, n, a, pos, m)
    BY <1>1, <1>7, <2>1, <2>2, <2>3, <2>4, PendingSame
  <2>6. QED
    BY <2>1, <2>2, <2>5 DEF DataPending
<1>9. QED
  BY <1>2, <1>4, <1>5, <1>8, OrderKept

LEMMA ExitOrder == ASSUME Struct, Order, Exit PROVE Order'
<1>1. PICK n \in Nat : Segs(Msgs, cmp, n)
  BY SegTypesHas DEF Struct, Types
<1>2. /\ cpt = "off" /\ pbq = "drain" /\ cmp' = Forget(Freeze(cmp))
      /\ pbq' = "down" /\ cpt' = "off" /\ cq' = <<>> /\ out' = <<>>
  BY DEF Exit, Down
<1>3. Old = 0 /\ Old' = 0 /\ At = 0 /\ At' = 0
  BY <1>2 DEF Old, At
<1>4. PICK k \in Nat : Segs(Msgs, cmp', k) /\ \A j \in 1..k : j \in 1..n /\ cmp'[j].es = cmp[j].es
  <2>1. Active(cmp) /\ OneActive(cmp) /\ Len(cmp) = n /\ n > 0
    BY <1>1, <1>2, SegsHas DEF Struct, Shape, Types, SegTypes, Segs
  <2>2. \A i \in 1..(n - 1) : cmp[i].st = "frozen"
    BY <1>2, <2>1 DEF Struct, Shape
  <2>3. Freezes(Msgs, cmp, cmp', n) \/ Forgets(Msgs, cmp, cmp', n)
    BY <1>1, <1>2, <2>1, <2>2, FreezeForget
  <2>4. CASE Freezes(Msgs, cmp, cmp', n)
    <3>1. Segs(Msgs, cmp', n) /\ \A j \in 1..n : j \in 1..n /\ cmp'[j].es = cmp[j].es
      BY <2>4 DEF Freezes
    <3>2. QED
      BY <3>1
  <2>5. CASE Forgets(Msgs, cmp, cmp', n)
    <3>1. n - 1 \in Nat
      BY <2>1
    <3>2. Segs(Msgs, cmp', n - 1) /\ \A j \in 1..(n - 1) : j \in 1..n /\ cmp'[j].es = cmp[j].es
      BY <2>5 DEF Forgets
    <3>3. QED
      BY <3>1, <3>2
  <2>6. QED
    BY <2>3, <2>4, <2>5
<1>5. Ordered(cmp', 0, Len(cmp'))
  <2>1. PICK z \in Int : z = 0
    OBVIOUS
  <2>2. Ordered(cmp, z, n) /\ Len(cmp') = k /\ k \in Int
    BY <1>1, <1>3, <1>4, <2>1 DEF Order, CmpInTurn, Segs
  <2>3. \A j \in 1..k : z < j /\ j <= k => cmp'[j].es = <<>> \/ (j \in 1..n /\ j <= n /\ cmp'[j].es = cmp[j].es)
    BY <1>4
  <2>4. Ordered(cmp', z, k)
    BY <1>1, <1>4, <2>2, <2>3, OrderedSame
  <2>5. QED
    BY <2>1, <2>2, <2>4
<1>6. Ordered(cmp', 0, 0)
  <2>1. \A i, j \in DOMAIN cmp' : ~(0 < i /\ i <= j /\ j <= 0)
    BY <1>4 DEF Segs
  <2>2. QED
    BY <2>1 DEF Ordered
<1>7. Rising(cq') /\ \A x : x \notin Range(cq')
  BY <1>2, NoEntry DEF Rising
<1>8. CmpInTurn'
  BY <1>3, <1>5, <1>6, <1>7 DEF CmpInTurn
<1>9. \A m : (Holds(data', m) => Holds(data, m)) /\ (Holds(cmp', m) => Holds(cmp, m))
  BY DownHas
<1>10. \A m : Copied(m)' => Copied(m)
  BY <1>3, <1>7, <1>9 DEF Copied, Holds
<1>11. \A m : ~CmpPending(m)'
  BY <1>3, <1>4, NonePending DEF CmpPending
<1>12. \A m : DataPending(m)' => DataPending(m)
  <2> SUFFICES ASSUME NEW m, DataPending(m)' PROVE DataPending(m)
    OBVIOUS
  <2>1. PICK d \in Nat : Segs(Msgs, data, d)
    BY SegTypesHas DEF Struct, Types
  <2>2. PICK e \in Nat : Segs(Msgs, data', e)
    <3>1. data' \in Seq(Segment(Msgs))
      BY DownTypes DEF Struct, Types, SegTypes
    <3>2. QED
      BY <3>1, SegsIs
  <2>3. Holds(data', m)
    BY <2>2, PendingHeld DEF DataPending
  <2>4. Holds(data, m) /\ Len(data) = d
    BY <1>9, <2>1, <2>3 DEF Segs
  <2>5. Pending(data, d, At, pos, m)
    BY <1>3, <2>1, <2>4, HeldPending
  <2>6. QED
    BY <2>4, <2>5 DEF DataPending
<1>13. QED
  BY <1>2, <1>8, <1>10, <1>11, <1>12, OrderKept

\* At boot all compaction segments are to be read before the data segments.
LEMMA BootOrder == ASSUME Struct, Order, Boot PROVE Order'
<1>1. PICK n \in Nat : Segs(Msgs, cmp, n)
  BY SegTypesHas DEF Struct, Types
<1>2. 0 \in 0..MaxClock
  BY WalAssumption
<1>3. Opens(Msgs, cmp, cmp', n, 0)
  BY <1>1, <1>2, OpenMoves DEF Boot
<1>4. /\ cpt = "off" /\ cpt' = "snap" /\ out = <<>> /\ out' = out /\ cq' = <<>> /\ UNCHANGED <<data, pos>>
  BY BootHas DEF Boot, Struct, Shape, histVars
<1>5. Segs(Msgs, cmp', n + 1) /\ Len(cmp') = n + 1 /\ Len(cmp) = n
  BY <1>1, <1>3 DEF Opens, Segs
<1>6. Old = 0 /\ Old' = n /\ At = 0 /\ At' = 0
  BY <1>4, <1>5 DEF Old, At
<1>7. \A j \in 1..(n + 1) : (j \in 1..n /\ cmp'[j].es = cmp[j].es) \/ (j = n + 1 /\ cmp'[j].es = <<>>)
  <2>1. \A j \in 1..(n + 1) : j \in 1..n \/ j = n + 1
    OBVIOUS
  <2>2. QED
    BY <1>3, <2>1 DEF Opens
<1>8. Ordered(cmp', 0, n)
  <2>1. PICK z \in Int : z = 0 /\ Ordered(cmp, z, n)
    BY <1>5, <1>6 DEF Order, CmpInTurn
  <2>2. PICK k \in Nat : k = n + 1
    OBVIOUS
  <2>3. Segs(Msgs, cmp', k) /\ n \in Int
    BY <1>5, <2>2
  <2>4. \A j \in 1..k : z < j /\ j <= n => cmp'[j].es = <<>> \/ (j \in 1..n /\ j <= n /\ cmp'[j].es = cmp[j].es)
    BY <1>7, <2>2
  <2>5. Ordered(cmp', z, n)
    BY <1>1, <2>1, <2>3, <2>4, OrderedSame
  <2>6. QED
    BY <2>1, <2>5
<1>9. Ordered(cmp', n, n + 1)
  <2>1. \A i, j \in DOMAIN cmp' : n < i /\ i <= j /\ j <= n + 1 => i = n + 1
    BY <1>5 DEF Segs
  <2>2. n + 1 \in 1..(n + 1) /\ n + 1 \notin 1..n
    OBVIOUS
  <2>3. cmp'[n + 1].es = <<>>
    BY <1>7, <2>2
  <2>4. DOMAIN cmp'[n + 1].es = {}
    BY <2>3
  <2>5. QED
    BY <2>1, <2>4 DEF Ordered
<1>10. Rising(cq') /\ \A x : x \notin Range(cq')
  BY <1>4, NoEntry DEF Rising
<1>11. CmpInTurn'
  BY <1>5, <1>6, <1>8, <1>9, <1>10 DEF CmpInTurn
<1>12. \A m : ~Copied(m)'
  BY BootHas
<1>13. \A m : CmpPending(m)' => Copied(m)
  <2> SUFFICES ASSUME NEW m, CmpPending(m)' PROVE Copied(m)
    OBVIOUS
  <2>1. PICK k \in Nat : k = n + 1
    OBVIOUS
  <2>2. Segs(Msgs, cmp', k)
    BY <1>5, <2>1
  <2>3. Holds(cmp', m)
    BY <2>2, PendingHeld DEF CmpPending
  <2>4. Holds(cmp, m)
    BY <2>3, BootHas
  <2>5. QED
    BY <1>6, <2>4 DEF Copied, Holds
<1>14. \A m : DataPending(m)' <=> DataPending(m)
  BY <1>4, <1>6 DEF DataPending
<1>15. CopiesFirst'
  BY <1>12, <1>13, <1>14 DEF CopiesFirst, Order, Awaited
<1>16. OutInTurn'
  BY <1>4, NoEntry DEF OutInTurn, Increasing
<1>17. QED
  BY <1>11, <1>15, <1>16 DEF Order

LEMMA OrderStill ==
    ASSUME Order, UNCHANGED <<data, cmp, cq, pbq, cpt, files, pos, out>>
    PROVE  Order'
<1>1. Old' = Old /\ At' = At
  BY DEF Old, At, First, Listed, Frozen
<1>2. CmpInTurn' /\ \A m : Copied(m)' <=> Copied(m)
  BY <1>1, CmpStill DEF Order
<1>3. \A m : (CmpPending(m)' <=> CmpPending(m)) /\ (DataPending(m)' <=> DataPending(m))
  BY <1>1 DEF CmpPending, DataPending
<1>4. QED
  BY <1>2, <1>3, OrderKept

LEMMA OrderStep ==
    ASSUME Struct, Stored, ReadInTurn, DataInTurn, Tidy, Listing, Order, [Next]_vars, ~lagged, ~lagged', ~faulty'
    PROVE  Order'
<1>1. CASE WriteData
  BY <1>1, WriteDataOrder
<1>2. CASE RotateData \/ StopRead \/ StartRead
  BY <1>2, DataWriterOrder
<1>3. CASE WriteCmp \/ RotateCmp
  <2>1. PICK n \in Nat : Segs(Msgs, cmp, n)
    BY SegTypesHas DEF Struct, Types
  <2>2. pbq # "down"
    BY <1>3, <2>1, CmpWriterIs DEF Struct
  <2>3. cpt \in {"snap", "gc"} => cq = <<>> /\ Last(cmp).es = <<>>
    BY <2>2 DEF Listing, Tidy, Between, Settled
  <2>4. cpt \notin {"snap", "gc"}
    BY <1>3, <2>3 DEF WriteCmp, RotateCmp, NonEmpty
  <2>5. QED
    BY <1>3, <2>4, CmpWriterOrder
<1>4. CASE Snapshot
  BY <1>4, SnapshotOrder
<1>5. CASE ReadGc \/ EndCmpPass \/ EndDataPass \/ EndCycle \/ CompactorStops
  BY <1>5, CyclesOrder
<1>6. CASE CmpPass \/ DataPass
  BY <1>6, CmpPassOrder, DataPassOrder
<1>7. CASE SwitchCmp \/ SwitchData
  BY <1>7, SwitchCmpOrder, SwitchDataOrder
<1>8. CASE Exit \/ Boot
  BY <1>8, ExitOrder, BootOrder
<1>9. CASE WriteGc \/ RotateGc \/ StopGc \/ DeleteGc \/ Cancel \/ Read \/ UNCHANGED vars
  <2>1. UNCHANGED <<data, cmp, cq, pbq, cpt, files, pos, out>>
    BY <1>9 DEF WriteGc, RotateGc, StopGc, DeleteGc, Cancel, Read, vars, segVars, cptVars, histVars
  <2>2. QED
    BY <2>1, OrderStill
<1>10. CASE \E k \in Keys, e \in 1..MaxTime : CloseWindow(k, e)
  <2>1. UNCHANGED <<data, cmp, cq, pbq, cpt, files, pos, out>>
    BY <1>10 DEF CloseWindow, segVars, cptVars, histVars
  <2>2. QED
    BY <2>1, OrderStill
<1>11. ~Kill /\ ~CompactFails
  BY DEF Kill, CompactFails
<1>12. QED
  BY <1>1, <1>2, <1>3, <1>4, <1>5, <1>6, <1>7, <1>8, <1>9, <1>10, <1>11
     DEF Next, WriterNext, CompactorNext, BoundReached

LEMMA LaggedStays == ASSUME Struct, [Next]_vars, lagged PROVE lagged'
<1>1. CASE WriterNext \/ CompactorNext
  BY <1>1 DEF WriterNext, CompactorNext, WriteData, RotateData, WriteGc, RotateGc, WriteCmp, RotateCmp, Snapshot,
     ReadGc, CmpPass, SwitchCmp, EndCmpPass, DataPass, SwitchData, EndDataPass, DeleteGc, EndCycle,
     CompactorStops, CompactFails, ReadEntry, histVars
<1>2. CASE StartRead \/ Read \/ Cancel \/ StopRead \/ StopGc \/ Exit \/ Kill \/ Boot \/ UNCHANGED vars
  BY <1>2 DEF StartRead, Read, Cancel, StopRead, StopGc, Exit, Kill, Down, Boot, vars, histVars
<1>3. CASE \E k \in Keys, e \in 1..MaxTime : CloseWindow(k, e)
  BY <1>3 DEF CloseWindow, histVars
<1>4. QED
  BY <1>1, <1>2, <1>3 DEF Next, BoundReached

\* The strengthened invariant of a run in which no cycle overtakes the compaction writer.
InTurn ==
    /\ Struct /\ Stored /\ ReadInTurn /\ DataInTurn
    /\ Idle /\ Tidy /\ Listing
    /\ ~faulty /\ ~lagged => Order

LEMMA InitInTurn == ASSUME Init PROVE InTurn
<1>1. Struct /\ Stored
  BY InitWhole DEF Whole
<1>2. /\ data = <<>> /\ dq = <<>> /\ cq = <<>> /\ out = <<>> /\ acked = {} /\ cpt = "snap" /\ pbq = "boot"
      /\ cmp = <<[ts |-> 0, es |-> <<>>, st |-> "active"]>>
  BY DEF Init
<1>3. Len(cmp) = 1 /\ DOMAIN cmp = {1} /\ cmp[1].es = <<>> /\ DOMAIN data = {}
  BY <1>2
<1>4. \A s : s = <<>> => Range(s) = {} /\ DOMAIN s = {}
  BY NoEntry
<1>5. ReadInTurn
  BY <1>2, <1>4 DEF ReadInTurn, Increasing
<1>6. DataInTurn
  BY <1>3 DEF DataInTurn, Ordered
<1>7. Idle /\ Listing
  BY <1>2 DEF Idle, Listing
<1>8. Tidy
  BY <1>2, <1>3 DEF Tidy, Settled, Last
<1>9. Old = 0
  BY <1>2, <1>3 DEF Old
<1>10. DOMAIN cmp[1].es = {} /\ Range(cmp[1].es) = {}
  BY <1>3, <1>4
<1>11. \A m : ~Copied(m) /\ ~InAfter(cmp, Old, m)
  BY <1>2, <1>3, <1>4, <1>10 DEF Copied, InAfter
<1>12. \A m : ~CmpPending(m) /\ ~DataPending(m)
  BY <1>3, <1>10 DEF CmpPending, DataPending, Pending
<1>13. CmpInTurn
  <2>1. \A lo, hi : Ordered(cmp, lo, hi)
    BY <1>3, <1>10 DEF Ordered
  <2>2. Rising(cq)
    BY <1>2, <1>4 DEF Rising
  <2>3. QED
    BY <1>11, <2>1, <2>2 DEF CmpInTurn
<1>14. CopiesFirst /\ OutInTurn
  BY <1>2, <1>4, <1>11, <1>12 DEF CopiesFirst, OutInTurn, Increasing
<1>15. QED
  BY <1>1, <1>5, <1>6, <1>7, <1>8, <1>13, <1>14 DEF InTurn, Order

LEMMA InTurnStep == ASSUME InTurn, [Next]_vars PROVE InTurn'
<1>1. Struct' /\ Stored' /\ ReadInTurn' /\ DataInTurn'
  BY StructStep, StoredStep, ReadInTurnStep, DataInTurnStep DEF InTurn
<1>2. Idle' /\ Tidy' /\ Listing'
  BY IdleStep, TidyStep, ListingStep DEF InTurn
<1>3. ~faulty' /\ ~lagged' => Order'
  <2>1. (~faulty' => ~faulty) /\ (~lagged' => ~lagged)
    BY FaultsStay, LaggedStays DEF InTurn
  <2>2. QED
    BY <2>1, OrderStep DEF InTurn
<1>4. QED
  BY <1>1, <1>2, <1>3 DEF InTurn

\* As long as no cycle starts before the compaction writer has done what the one before it
\* sent, and no pod is killed and no file operation fails, what is replayed after a boot is
\* replayed in the order in which it was read from the ISB, each message once: the copies
\* always precede what a pass has still to read, and compaction segments precede data
\* segments, through any number of cycles and restarts.
THEOREM WalReplayInOrder == Spec => []ReplayInOrder
<1>1. Init => InTurn
  BY InitInTurn
<1>2. InTurn /\ [Next]_vars => InTurn'
  BY InTurnStep
<1>3. InTurn => ReplayInOrder
  BY DEF InTurn, Order, OutInTurn, Increasing, ReplayInOrder
<1>4. QED
  BY <1>1, <1>2, <1>3, PTL DEF Spec

(***************************************************************************)
(* What a step does to the data and to the GC segments.                    *)
(***************************************************************************)

LEMMA DataMoves ==
    ASSUME Struct, [Next]_vars, NEW n, Segs(Msgs, data, n)
    PROVE  \/ UNCHANGED data
           \/ WriteData /\ \E x \in Msgs : x = Head(dq) /\ Puts(Msgs, data, data', n, x)
           \/ RotateData /\ Rotates(Msgs, data, data', n, clock + 1) /\ clock' = clock + 1
           \/ StartRead /\ Opens(Msgs, data, data', n, clock + 1) /\ clock' = clock + 1
           \/ StopRead /\ Freezes(Msgs, data, data', n)
           \/ SwitchData /\ Removes(Msgs, data, data', n, First(data)) /\ First(data) \in Listed(data)
           \/ (Exit \/ Kill) /\ Leaves(Msgs, data, data', n)
<1>0. OneActive(data) /\ clock \in 0..MaxClock
  BY DEF Struct, Types, SegTypes
<1>1. CASE WriteData
  <2>1. dq \in Seq(Msgs) /\ dq # <<>>
    BY <1>1 DEF Struct, Types, QueueTypes, WriteData
  <2>2. PICK x \in Msgs : x = Head(dq)
    BY <2>1, SeqTail
  <2>3. Puts(Msgs, data, data', n, x)
    BY <1>1, <2>2, PutMoves DEF WriteData
  <2>4. QED
    BY <1>1, <2>2, <2>3
<1>2. CASE RotateData
  <2>1. clock' \in 0..MaxClock /\ clock' = clock + 1
    BY <1>0, <1>2, WalAssumption DEF RotateData
  <2>2. Rotates(Msgs, data, data', n, clock')
    BY <1>2, <2>1, RotateMoves DEF RotateData
  <2>3. QED
    BY <1>2, <2>1, <2>2
<1>3. CASE StartRead
  <2>1. clock' \in 0..MaxClock /\ clock' = clock + 1
    BY <1>0, <1>3, WalAssumption DEF StartRead
  <2>2. Opens(Msgs, data, data', n, clock')
    BY <1>3, <2>1, OpenMoves DEF StartRead
  <2>3. QED
    BY <1>3, <2>1, <2>2
<1>4. CASE StopRead
  BY <1>0, <1>4, FreezeAny DEF StopRead
<1>5. CASE SwitchData
  <2>1. Removes(Msgs, data, data', n, First(data))
    BY <1>5, SwitchDataIs DEF Struct
  <2>2. Listed(data) # {}
    BY <1>5 DEF SwitchData
  <2>3. First(data) \in Listed(data)
    BY <2>2, FirstIs DEF Listed, Frozen, Segs
  <2>4. QED
    BY <1>5, <2>1, <2>3
<1>6. CASE Exit \/ Kill
  BY <1>0, <1>6, LeaveAny DEF Exit, Kill, Down
<1>7. CASE WriteGc \/ RotateGc \/ WriteCmp \/ RotateCmp \/ StopGc \/ DeleteGc \/ SwitchCmp \/ Boot
  BY <1>7 DEF WriteGc, RotateGc, WriteCmp, RotateCmp, StopGc, DeleteGc, SwitchCmp, Boot
<1>8. CASE CmpPass \/ DataPass \/ Snapshot \/ ReadGc \/ EndCmpPass \/ EndDataPass
  BY <1>8 DEF CmpPass, DataPass, ReadEntry, Snapshot, ReadGc, EndCmpPass, EndDataPass, segVars
<1>9. CASE EndCycle \/ CompactorStops \/ CompactFails
  BY <1>9 DEF EndCycle, CompactorStops, CompactFails, segVars
<1>10. CASE Read \/ Cancel \/ UNCHANGED vars \/ \E k \in Keys, e \in 1..MaxTime : CloseWindow(k, e)
  BY <1>10 DEF Read, Cancel, CloseWindow, segVars, vars
<1>11. QED
  BY <1>1, <1>2, <1>3, <1>4, <1>5, <1>6, <1>7, <1>8, <1>9, <1>10 DEF Next, WriterNext, CompactorNext, BoundReached

\* The event a step writes covers messages of its key before its end that were written.
Fits(x) == \A m \in x.covers : m \in acked /\ Key[m] = x.key /\ Et[m] < x.end

LEMMA WriteGcIs ==
    ASSUME Struct, WriteGc, NEW n, Segs(Event, gc, n)
    PROVE  \E x \in Event : /\ Puts(Event, gc, gc', n, x) /\ Fits(x)
                            /\ x.key = Head(gq).key /\ x.end = Head(gq).end
<1>1. gq \in Seq([key : Keys, end : 1..MaxTime]) /\ gq # <<>>
  BY DEF Struct, Types, QueueTypes, WriteGc
<1>2. PICK e \in [key : Keys, end : 1..MaxTime] : e = Head(gq)
  BY <1>1, SeqTail
<1> DEFINE C == {m \in acked \cap done : Key[m] = e.key /\ Et[m] < e.end}
<1>3. C \subseteq Msgs
  BY DEF Struct, Types, RestTypes
<1>4. PICK x \in Event : x = [key |-> e.key, end |-> e.end, covers |-> C]
  BY <1>2, <1>3 DEF Event
<1>5. gc' = Put(gc, x) /\ Active(gc)
  BY <1>2, <1>4 DEF WriteGc
<1>6. Puts(Event, gc, gc', n, x)
  BY <1>5, PutMoves
<1>7. Fits(x)
  BY <1>4 DEF Fits
<1>8. QED
  BY <1>2, <1>4, <1>6, <1>7

LEMMA GcMoves ==
    ASSUME Struct, [Next]_vars, NEW n, Segs(Event, gc, n)
    PROVE  \/ UNCHANGED gc
           \/ WriteGc
           \/ RotateGc /\ Rotates(Event, gc, gc', n, clock + 1) /\ clock' = clock + 1
           \/ Boot /\ Opens(Event, gc, gc', n, clock + 1) /\ clock' = clock + 1
           \/ StopGc /\ Freezes(Event, gc, gc', n)
           \/ DeleteGc /\ Removes(Event, gc, gc', n, Min(ToDelete))
           \/ (Exit \/ Kill) /\ Leaves(Event, gc, gc', n)
<1>0. OneActive(gc) /\ clock \in 0..MaxClock
  BY DEF Struct, Types, SegTypes
<1>1. CASE RotateGc
  <2>1. clock' \in 0..MaxClock /\ clock' = clock + 1
    BY <1>0, <1>1, WalAssumption DEF RotateGc
  <2>2. Rotates(Event, gc, gc', n, clock')
    BY <1>1, <2>1, RotateMoves DEF RotateGc
  <2>3. QED
    BY <1>1, <2>1, <2>2
<1>2. CASE Boot
  <2>1. clock' \in 0..MaxClock /\ clock' = clock + 1
    BY <1>0, <1>2, WalAssumption DEF Boot
  <2>2. Opens(Event, gc, gc', n, clock')
    BY <1>2, <2>1, OpenMoves DEF Boot
  <2>3. QED
    BY <1>2, <2>1, <2>2
<1>3. CASE StopGc
  BY <1>3, FreezeMoves DEF StopGc
<1>4. CASE DeleteGc
  BY <1>4, DeleteIs
<1>5. CASE Exit \/ Kill
  BY <1>0, <1>5, LeaveAny DEF Exit, Kill, Down
<1>6. CASE WriteData \/ RotateData \/ WriteCmp \/ RotateCmp \/ SwitchCmp \/ SwitchData \/ StartRead \/ StopRead
  BY <1>6 DEF WriteData, RotateData, WriteCmp, RotateCmp, SwitchCmp, SwitchData, StartRead, StopRead
<1>7. CASE CmpPass \/ DataPass \/ Snapshot \/ ReadGc \/ EndCmpPass \/ EndDataPass
  BY <1>7 DEF CmpPass, DataPass, ReadEntry, Snapshot, ReadGc, EndCmpPass, EndDataPass, segVars
<1>8. CASE EndCycle \/ CompactorStops \/ CompactFails
  BY <1>8 DEF EndCycle, CompactorStops, CompactFails, segVars
<1>9. CASE Read \/ Cancel \/ UNCHANGED vars \/ \E k \in Keys, e \in 1..MaxTime : CloseWindow(k, e)
  BY <1>9 DEF Read, Cancel, CloseWindow, segVars, vars
<1>10. QED
  BY <1>1, <1>2, <1>3, <1>4, <1>5, <1>6, <1>7, <1>8, <1>9 DEF Next, WriterNext, CompactorNext, BoundReached

\* A segment with entries was there before, or the step wrote to it.
Came(s, t) == \A i \in DOMAIN t : t[i].es = <<>> \/ \E k \in DOMAIN s : t[i].ts = s[k].ts /\ t[i].es = s[k].es
\* A create time was there before, or is a new one.
Dated(s, t) == \A i \in DOMAIN t : t[i].ts = clock + 1 \/ \E k \in DOMAIN s : t[i].ts = s[k].ts

LEMMA SegsCome ==
    ASSUME NEW E, NEW s, NEW t, NEW n, Segs(E, s, n),
           \/ t = s \/ Rotates(E, s, t, n, clock + 1) \/ Opens(E, s, t, n, clock + 1)
           \/ Freezes(E, s, t, n) \/ Leaves(E, s, t, n) \/ \E r : Removes(E, s, t, n, r)
    PROVE  Came(s, t) /\ Dated(s, t)
<1>0. n \in Nat /\ DOMAIN s = 1..n
  BY DEF Segs
<1>1. CASE t = s
  BY <1>1 DEF Came, Dated
<1>2. CASE Rotates(E, s, t, n, clock + 1)
  <2>1. DOMAIN t = 1..(n + 1) /\ \A i \in 1..(n + 1) : i = n + 1 \/ i \in 1..n
    BY <1>0, <1>2 DEF Rotates, Segs
  <2>2. QED
    BY <1>0, <1>2, <2>1 DEF Rotates, Came, Dated
<1>3. CASE Opens(E, s, t, n, clock + 1)
  <2>1. DOMAIN t = 1..(n + 1) /\ \A i \in 1..(n + 1) : i = n + 1 \/ i \in 1..n
    BY <1>0, <1>3 DEF Opens, Segs
  <2>2. QED
    BY <1>0, <1>3, <2>1 DEF Opens, Came, Dated
<1>4. CASE Freezes(E, s, t, n)
  <2>1. DOMAIN t = 1..n
    BY <1>4 DEF Freezes, Segs
  <2>2. QED
    BY <1>0, <1>4, <2>1 DEF Freezes, Came, Dated
<1>5. CASE Leaves(E, s, t, n)
  <2>1. DOMAIN t = 1..n /\ \A i \in 1..n : i = n \/ i \in 1..(n - 1)
    BY <1>0, <1>5 DEF Leaves, Segs
  <2>2. QED
    BY <1>0, <1>5, <2>1 DEF Leaves, Came, Dated
<1>6. CASE \E r : Removes(E, s, t, n, r)
  <2>1. PICK r : Removes(E, s, t, n, r)
    BY <1>6
  <2>2. DOMAIN t = 1..(n - 1) /\ r \in 1..n
    BY <2>1 DEF Removes, Segs
  <2>3. \A i \in 1..(n - 1) : i \in 1..n /\ i + 1 \in 1..n /\ (i < r \/ i >= r)
    BY <1>0, <2>2
  <2>4. \A i \in 1..(n - 1) : t[i] = s[i] \/ t[i] = s[i + 1]
    BY <2>1, <2>3 DEF Removes
  <2>5. QED
    BY <1>0, <2>2, <2>3, <2>4 DEF Came, Dated
<1>7. QED
  BY <1>1, <1>2, <1>3, <1>4, <1>5, <1>6

(***************************************************************************)
(* Create times.                                                           *)
(***************************************************************************)

\* The create times rise, and none is after c.
Rise(segs, c) ==
    /\ \A i, j \in DOMAIN segs : i < j => segs[i].ts < segs[j].ts
    /\ \A i \in DOMAIN segs : segs[i].ts <= c

Times ==
    /\ Rise(data, clock) /\ Rise(gc, clock)
    /\ newest <= clock /\ \A t \in scanned : t <= clock

LEMMA RiseSame ==
    ASSUME NEW E, NEW s, NEW t, NEW n, Segs(E, s, n), Segs(E, t, n), \A i \in 1..n : t[i].ts = s[i].ts,
           NEW c \in Nat, Rise(s, c), NEW d \in Nat, c <= d
    PROVE  Rise(t, d)
<1>1. DOMAIN s = 1..n /\ DOMAIN t = 1..n
  BY DEF Segs
<1>2. \A i, j \in 1..n : i < j => t[i].ts < t[j].ts
  BY <1>1 DEF Rise
<1>3. ASSUME NEW i \in 1..n PROVE t[i].ts <= d
  <2>1. s[i].ts <= c /\ s[i].ts \in Nat
    BY <1>1, SegsHas DEF Rise
  <2>2. QED
    BY <2>1
<1>4. QED
  BY <1>1, <1>2, <1>3 DEF Rise

LEMMA RiseMore ==
    ASSUME NEW E, NEW s, NEW t, NEW n \in Nat, Segs(E, s, n), Segs(E, t, n + 1), \A i \in 1..n : t[i].ts = s[i].ts,
           NEW c \in Nat, Rise(s, c), t[n + 1].ts = c + 1
    PROVE  Rise(t, c + 1)
<1>1. DOMAIN s = 1..n /\ DOMAIN t = 1..(n + 1) /\ \A i \in 1..(n + 1) : i = n + 1 \/ i \in 1..n
  BY DEF Segs
<1>2. \A i \in 1..n : t[i].ts <= c /\ t[i].ts \in 0..MaxClock
  <2>1. \A i \in 1..n : s[i].ts <= c
    BY <1>1 DEF Rise
  <2>2. \A i \in 1..n : s[i].ts \in 0..MaxClock
    BY SegsHas
  <2>3. QED
    BY <2>1, <2>2
<1>3. \A i \in 1..n : t[i].ts < c + 1
  BY <1>2
<1>4. \A i, j \in 1..n : i < j => t[i].ts < t[j].ts
  BY <1>1 DEF Rise
<1>5. ASSUME NEW i \in 1..(n + 1), NEW j \in 1..(n + 1), i < j PROVE t[i].ts < t[j].ts
  <2>1. i \in 1..n
    BY <1>5
  <2>2. CASE j = n + 1
    BY <1>3, <2>1, <2>2
  <2>3. CASE j \in 1..n
    BY <1>4, <1>5, <2>1, <2>3
  <2>4. QED
    BY <1>1, <2>2, <2>3
<1>6. ASSUME NEW i \in 1..(n + 1) PROVE t[i].ts <= c + 1
  BY <1>1, <1>2
<1>7. QED
  BY <1>1, <1>5, <1>6 DEF Rise

LEMMA RiseLess ==
    ASSUME NEW E, NEW s, NEW t, NEW n, NEW r, Segs(E, s, n), Removes(E, s, t, n, r), NEW c, Rise(s, c)
    PROVE  Rise(t, c)
<1>1. DOMAIN s = 1..n /\ DOMAIN t = 1..(n - 1) /\ n \in Nat /\ r \in 1..n
  BY DEF Segs, Removes
<1>2. \A i \in 1..(n - 1) : i \in 1..n /\ i + 1 \in 1..n /\ (i < r \/ i >= r)
  BY <1>1
<1>3. \A i \in 1..(n - 1) : (i < r => t[i] = s[i]) /\ (i >= r => t[i] = s[i + 1])
  BY DEF Removes
<1>4. ASSUME NEW i \in 1..(n - 1), NEW j \in 1..(n - 1), i < j PROVE t[i].ts < t[j].ts
  <2>1. PICK a, b \in 1..n : t[i] = s[a] /\ t[j] = s[b] /\ a < b
    <3>1. CASE j < r
      <4>1. i < r
        BY <1>1, <1>4, <3>1
      <4>2. QED
        BY <1>2, <1>3, <1>4, <3>1, <4>1
    <3>2. CASE j >= r /\ i < r
      <4>1. i < j + 1
        BY <1>4
      <4>2. QED
        BY <1>2, <1>3, <3>2, <4>1
    <3>3. CASE j >= r /\ i >= r
      <4>1. i + 1 < j + 1
        BY <1>4
      <4>2. QED
        BY <1>2, <1>3, <3>3, <4>1
    <3>4. QED
      BY <1>2, <3>1, <3>2, <3>3
  <2>2. QED
    BY <1>1, <2>1 DEF Rise
<1>5. ASSUME NEW i \in 1..(n - 1) PROVE t[i].ts <= c
  BY <1>1, <1>2, <1>3 DEF Rise
<1>6. QED
  BY <1>1, <1>4, <1>5 DEF Rise

\* All that the moves of segments do to create times.
LEMMA RiseKept ==
    ASSUME NEW E, NEW s, NEW t, NEW n, Segs(E, s, n), NEW c \in Nat, Rise(s, c), NEW d \in Nat, c <= d,
           \/ t = s \/ (\E x : Puts(E, s, t, n, x)) \/ Freezes(E, s, t, n) \/ Leaves(E, s, t, n)
           \/ (Rotates(E, s, t, n, c + 1) /\ d = c + 1) \/ (Opens(E, s, t, n, c + 1) /\ d = c + 1)
           \/ \E r : Removes(E, s, t, n, r)
    PROVE  Rise(t, d)
<1>0. n \in Nat
  BY DEF Segs
<1>1. CASE t = s \/ Freezes(E, s, t, n) \/ Leaves(E, s, t, n)
  <2>1. Segs(E, t, n) /\ \A i \in 1..n : t[i].ts = s[i].ts
    BY <1>1 DEF Freezes, Leaves
  <2>2. QED
    BY <2>1, RiseSame
<1>2. CASE \E x : Puts(E, s, t, n, x)
  <2>1. Segs(E, t, n) /\ n > 0 /\ t[n].ts = s[n].ts /\ \A i \in 1..(n - 1) : t[i] = s[i]
    BY <1>2 DEF Puts
  <2>2. \A i \in 1..n : i = n \/ i \in 1..(n - 1)
    BY <1>0
  <2>3. \A i \in 1..n : t[i].ts = s[i].ts
    BY <2>1, <2>2
  <2>4. QED
    BY <2>1, <2>3, RiseSame
<1>3. CASE Rotates(E, s, t, n, c + 1) /\ d = c + 1
  <2>1. Segs(E, t, n + 1) /\ t[n + 1].ts = c + 1 /\ \A i \in 1..n : t[i].ts = s[i].ts
    BY <1>3 DEF Rotates
  <2>2. QED
    BY <1>0, <1>3, <2>1, RiseMore
<1>4. CASE Opens(E, s, t, n, c + 1) /\ d = c + 1
  <2>1. Segs(E, t, n + 1) /\ t[n + 1].ts = c + 1 /\ \A i \in 1..n : t[i].ts = s[i].ts
    BY <1>4 DEF Opens
  <2>2. QED
    BY <1>0, <1>4, <2>1, RiseMore
<1>5. CASE \E r : Removes(E, s, t, n, r)
  <2>1. PICK r : Removes(E, s, t, n, r)
    BY <1>5
  <2>2. Rise(t, c)
    BY <2>1, RiseLess
  <2>3. Segs(E, t, n - 1)
    BY <2>1 DEF Removes
  <2>4. QED
    BY <2>2, <2>3, RiseSame
<1>6. QED
  BY <1>1, <1>2, <1>3, <1>4, <1>5

LEMMA ClockRises == ASSUME Struct, [Next]_vars PROVE clock' \in Nat /\ clock \in Nat /\ clock <= clock'
<1>0. clock \in Nat
  BY WalAssumption DEF Struct, Types, SegTypes
<1>1. ASSUME RotateData \/ RotateGc \/ StartRead \/ Boot PROVE clock' = clock + 1
  BY <1>1 DEF RotateData, RotateGc, StartRead, Boot
<1>2. ASSUME WriteData \/ WriteGc \/ WriteCmp \/ RotateCmp \/ StopRead \/ StopGc \/ DeleteGc \/ SwitchCmp \/ SwitchData PROVE clock' = clock
  BY <1>2 DEF WriteData, WriteGc, WriteCmp, RotateCmp, StopRead, StopGc, DeleteGc, SwitchCmp, SwitchData
<1>3. ASSUME CmpPass \/ DataPass \/ Snapshot \/ ReadGc \/ EndCmpPass \/ EndDataPass \/ EndCycle PROVE clock' = clock
  BY <1>3 DEF CmpPass, DataPass, ReadEntry, Snapshot, ReadGc, EndCmpPass, EndDataPass, EndCycle, segVars
<1>4. ASSUME CompactorStops \/ CompactFails \/ Exit \/ Kill PROVE clock' = clock
  BY <1>4 DEF CompactorStops, CompactFails, Exit, Kill, Down, segVars
<1>5. ASSUME Read \/ Cancel \/ UNCHANGED vars \/ \E k \in Keys, e \in 1..MaxTime : CloseWindow(k, e) PROVE clock' = clock
  BY <1>5 DEF Read, Cancel, CloseWindow, segVars, vars
<1>6. clock' = clock \/ clock' = clock + 1
  BY <1>1, <1>2, <1>3, <1>4, <1>5 DEF Next, WriterNext, CompactorNext, BoundReached
<1>7. QED
  BY <1>0, <1>6

LEMMA TimesStep == ASSUME Struct, Times, [Next]_vars PROVE Times'
<1>1. PICK d \in Nat : Segs(Msgs, data, d)
  BY SegTypesHas DEF Struct, Types
<1>2. PICK g \in Nat : Segs(Event, gc, g)
  BY SegTypesHas DEF Struct, Types
<1>3. clock' \in Nat /\ clock \in Nat /\ clock <= clock'
  BY ClockRises
<1>4. Rise(data, clock) /\ Rise(gc, clock)
  BY DEF Times
<1>5. Rise(data', clock')
  <2>1. \/ data' = data \/ (\E x : Puts(Msgs, data, data', d, x)) \/ Freezes(Msgs, data, data', d) \/ Leaves(Msgs, data, data', d)
        \/ (Rotates(Msgs, data, data', d, clock + 1) /\ clock' = clock + 1)
        \/ (Opens(Msgs, data, data', d, clock + 1) /\ clock' = clock + 1)
        \/ \E r : Removes(Msgs, data, data', d, r)
    <3>1. CASE WriteData /\ \E x \in Msgs : x = Head(dq) /\ Puts(Msgs, data, data', d, x)
      BY <3>1
    <3>2. CASE SwitchData /\ Removes(Msgs, data, data', d, First(data)) /\ First(data) \in Listed(data)
      BY <3>2
    <3>3. QED
      BY <1>1, <3>1, <3>2, DataMoves
  <2>2. QED
    BY <1>1, <1>3, <1>4, <2>1, RiseKept
<1>6. Rise(gc', clock')
  <2>1. WriteGc => \E x \in Event : Puts(Event, gc, gc', g, x)
    BY <1>2, WriteGcIs
  <2>2. \/ gc' = gc \/ (\E x : Puts(Event, gc, gc', g, x)) \/ Freezes(Event, gc, gc', g) \/ Leaves(Event, gc, gc', g)
        \/ (Rotates(Event, gc, gc', g, clock + 1) /\ clock' = clock + 1)
        \/ (Opens(Event, gc, gc', g, clock + 1) /\ clock' = clock + 1)
        \/ \E r : Removes(Event, gc, gc', g, r)
    <3>1. CASE WriteGc
      BY <2>1, <3>1
    <3>2. CASE DeleteGc /\ Removes(Event, gc, gc', g, Min(ToDelete))
      BY <3>2
    <3>3. QED
      BY <1>2, <3>1, <3>2, GcMoves
  <2>3. QED
    BY <1>2, <1>3, <1>4, <2>2, RiseKept
<1>7. newest' <= clock' /\ \A t \in scanned' : t <= clock'
  <2>0. newest <= clock /\ (\A t \in scanned : t <= clock) /\ newest \in Int /\ scanned \subseteq Nat
    BY WalAssumption DEF Times, Struct, Types, CptTypes
  <2>1. newest <= clock' /\ \A t \in scanned : t <= clock'
    BY <1>3, <2>0
  <2>2. CASE Snapshot
    <3>1. UNCHANGED <<clock, scanned>>
      BY <2>2 DEF Snapshot, segVars
    <3>2. newest' <= clock
      <4>1. CASE data = <<>>
        BY <1>3, <2>2, <4>1 DEF Snapshot
      <4>2. CASE data # <<>>
        <5>1. d \in DOMAIN data /\ newest' = data[d].ts
          <6>1. Len(data) = d /\ DOMAIN data = 1..d
            BY <1>1 DEF Segs
          <6>2. d # 0
            BY <1>1, <4>2, SegsHas
          <6>3. QED
            BY <2>2, <4>2, <6>1, <6>2 DEF Snapshot, Last
        <5>2. QED
          BY <1>4, <5>1 DEF Rise
      <4>3. QED
        BY <4>1, <4>2
    <3>3. QED
      BY <2>0, <3>1, <3>2
  <2>3. CASE ReadGc
    <3>1. UNCHANGED <<clock, newest>> /\ scanned' = {gc[i].ts : i \in Frozen(gc)}
      BY <2>3 DEF ReadGc, segVars
    <3>2. \A i \in Frozen(gc) : gc[i].ts <= clock
      BY <1>4 DEF Frozen, Rise
    <3>3. QED
      BY <2>0, <3>1, <3>2
  <2>4. CASE EndCycle \/ Exit \/ Kill
    BY <1>3, <2>4 DEF EndCycle, Exit, Kill, Down
  <2>5. CASE WriteData \/ RotateData \/ WriteGc \/ RotateGc \/ WriteCmp \/ RotateCmp \/ StopRead \/ StopGc \/ DeleteGc
    BY <2>1, <2>5 DEF WriteData, RotateData, WriteGc, RotateGc, WriteCmp, RotateCmp, StopRead, StopGc, DeleteGc, cptVars
  <2>6. CASE CmpPass \/ DataPass \/ SwitchCmp \/ SwitchData \/ EndCmpPass \/ EndDataPass \/ CompactorStops \/ CompactFails
    BY <2>1, <2>6 DEF CmpPass, DataPass, ReadEntry, SwitchCmp, SwitchData, EndCmpPass, EndDataPass, CompactorStops, CompactFails
  <2>7. CASE StartRead \/ Boot \/ Read \/ Cancel \/ UNCHANGED vars \/ \E k \in Keys, e \in 1..MaxTime : CloseWindow(k, e)
    BY <2>1, <2>7 DEF StartRead, Boot, Read, Cancel, CloseWindow, cptVars, vars
  <2>8. QED
    BY <2>2, <2>3, <2>4, <2>5, <2>6, <2>7 DEF Next, WriterNext, CompactorNext, BoundReached
<1>8. QED
  BY <1>5, <1>6, <1>7 DEF Times

LEMMA DataComes == ASSUME Struct, [Next]_vars PROVE WriteData \/ (Came(data, data') /\ Dated(data, data'))
<1>1. PICK n \in Nat : Segs(Msgs, data, n)
  BY SegTypesHas DEF Struct, Types
<1>2. CASE SwitchData /\ Removes(Msgs, data, data', n, First(data)) /\ First(data) \in Listed(data)
  <2>1. \E r : Removes(Msgs, data, data', n, r)
    BY <1>2
  <2>2. QED
    BY <1>1, <2>1, SegsCome
<1>3. QED
  BY <1>1, <1>2, DataMoves, SegsCome

LEMMA GcComes == ASSUME Struct, [Next]_vars PROVE WriteGc \/ (Came(gc, gc') /\ Dated(gc, gc'))
<1>1. PICK n \in Nat : Segs(Event, gc, n)
  BY SegTypesHas DEF Struct, Types
<1>2. CASE DeleteGc /\ Removes(Event, gc, gc', n, Min(ToDelete))
  <2>1. \E r : Removes(Event, gc, gc', n, r)
    BY <1>2
  <2>2. QED
    BY <1>1, <2>1, SegsCome
<1>3. QED
  BY <1>1, <1>2, GcMoves, SegsCome

(***************************************************************************)
(* What the events of the GC segments cover.                               *)
(***************************************************************************)

Covered(g, m) == \E x \in Range(g.es) : m \in x.covers

Events ==
    /\ \A i \in DOMAIN gc : \A x \in Range(gc[i].es) : Fits(x)
    /\ retired \subseteq acked

LEMMA JustRetiredHas ==
    ASSUME Struct, NEW n, Segs(Event, gc, n), n > 0
    PROVE  n \in DOMAIN gc /\ JustRetired = {m \in Msgs : Covered(gc[n], m)}
<1>1. Len(gc) = n /\ DOMAIN gc = 1..n /\ n \in 1..n
  BY DEF Segs
<1>2. gc[n].es \in Seq(Event)
  BY <1>1, SegsHas
<1>3. JustRetired = UNION {gc[n].es[i].covers : i \in DOMAIN gc[n].es}
  BY <1>1 DEF JustRetired, Last
<1>4. \A m : m \in JustRetired <=> Covered(gc[n], m)
  BY <1>3 DEF Covered, Range
<1>5. \A m : Covered(gc[n], m) => m \in Msgs
  <2>1. Range(gc[n].es) \subseteq Event
    BY <1>2, SeqRange
  <2>2. QED
    BY <2>1 DEF Covered, Event
<1>6. QED
  BY <1>1, <1>4, <1>5

\* The last GC segment of a writer that has written.
LEMMA RetiringIs ==
    ASSUME Struct, RotateGc \/ StopGc, NEW n, Segs(Event, gc, n)
    PROVE  n > 0 /\ gc[n].st = "active" /\ retired' = retired \cup {m \in Msgs : Covered(gc[n], m)}
<1>1. NonEmpty(gc) /\ retired' = retired \cup JustRetired
  BY DEF RotateGc, StopGc
<1>2. n > 0 /\ gc[n].st = "active"
  BY <1>1, SegsHas
<1>3. QED
  BY <1>1, <1>2, JustRetiredHas

LEMMA AckedGrows == ASSUME [Next]_vars PROVE acked \subseteq acked'
<1>1. CASE WriteData
  BY <1>1 DEF WriteData
<1>2. CASE RotateData \/ WriteGc \/ RotateGc \/ WriteCmp \/ RotateCmp \/ StopRead \/ StopGc \/ DeleteGc \/ SwitchCmp \/ SwitchData
  BY <1>2 DEF RotateData, WriteGc, RotateGc, WriteCmp, RotateCmp, StopRead, StopGc, DeleteGc, SwitchCmp, SwitchData
<1>3. CASE CmpPass \/ DataPass \/ Snapshot \/ ReadGc \/ EndCmpPass \/ EndDataPass \/ EndCycle
  BY <1>3 DEF CmpPass, DataPass, ReadEntry, Snapshot, ReadGc, EndCmpPass, EndDataPass, EndCycle
<1>4. CASE CompactorStops \/ CompactFails \/ Exit \/ Kill \/ StartRead \/ Boot
  BY <1>4 DEF CompactorStops, CompactFails, Exit, Kill, Down, StartRead, Boot
<1>5. CASE Read \/ Cancel \/ UNCHANGED vars \/ \E k \in Keys, e \in 1..MaxTime : CloseWindow(k, e)
  BY <1>5 DEF Read, Cancel, CloseWindow, vars
<1>6. QED
  BY <1>1, <1>2, <1>3, <1>4, <1>5 DEF Next, WriterNext, CompactorNext, BoundReached

LEMMA RetiredMoves == ASSUME [Next]_vars PROVE RotateGc \/ StopGc \/ retired' = retired
<1>2. CASE WriteData \/ RotateData \/ WriteGc \/ WriteCmp \/ RotateCmp \/ StopRead \/ DeleteGc \/ SwitchCmp \/ SwitchData
  BY <1>2 DEF WriteData, RotateData, WriteGc, WriteCmp, RotateCmp, StopRead, DeleteGc, SwitchCmp, SwitchData, histVars
<1>3. CASE CmpPass \/ DataPass \/ Snapshot \/ ReadGc \/ EndCmpPass \/ EndDataPass \/ EndCycle
  BY <1>3 DEF CmpPass, DataPass, ReadEntry, Snapshot, ReadGc, EndCmpPass, EndDataPass, EndCycle, histVars
<1>4. CASE CompactorStops \/ CompactFails \/ Exit \/ Kill \/ StartRead \/ Boot
  BY <1>4 DEF CompactorStops, CompactFails, Exit, Kill, Down, StartRead, Boot, histVars
<1>5. CASE Read \/ Cancel \/ UNCHANGED vars \/ \E k \in Keys, e \in 1..MaxTime : CloseWindow(k, e)
  BY <1>5 DEF Read, Cancel, CloseWindow, vars, histVars
<1>6. QED
  BY <1>2, <1>3, <1>4, <1>5 DEF Next, WriterNext, CompactorNext, BoundReached

LEMMA EventsStep == ASSUME Struct, Events, [Next]_vars PROVE Events'
<1>1. PICK n \in Nat : Segs(Event, gc, n)
  BY SegTypesHas DEF Struct, Types
<1>2. acked \subseteq acked'
  BY AckedGrows
<1>3. \A x : Fits(x) => Fits(x)'
  BY <1>2 DEF Fits
<1>4. \A i \in DOMAIN gc : \A x \in Range(gc[i].es) : Fits(x)
  BY DEF Events
<1>5. \A i \in DOMAIN gc' : \A x \in Range(gc'[i].es) : Fits(x)
  <2>1. CASE Came(gc, gc')
    BY <1>4, <2>1, NoEntry DEF Came
  <2>2. CASE WriteGc
    <3>1. PICK e \in Event : Puts(Event, gc, gc', n, e) /\ Fits(e)
      BY <1>1, <2>2, WriteGcIs
    <3>2. /\ n > 0 /\ DOMAIN gc' = 1..n /\ DOMAIN gc = 1..n /\ (\A i \in 1..(n - 1) : gc'[i] = gc[i])
          /\ \A i \in 1..n : i = n \/ i \in 1..(n - 1)
      BY <1>1, <3>1 DEF Puts, Segs
    <3>3. PICK y \in Seq(Event) : gc[n].es = y /\ gc'[n].es = Append(y, e)
      BY <3>1 DEF Puts
    <3>4. Range(gc'[n].es) = Range(gc[n].es) \cup {e}
      BY <3>3, RangeAppend
    <3>5. n \in 1..n
      BY <3>2
    <3>6. QED
      BY <1>4, <3>1, <3>2, <3>4, <3>5
  <2>3. QED
    BY <2>1, <2>2, GcComes
<1>6. retired' \subseteq acked'
  <2>1. retired \subseteq acked
    BY DEF Events
  <2>2. CASE RotateGc \/ StopGc
    <3>1. n > 0 /\ retired' = retired \cup {m \in Msgs : Covered(gc[n], m)}
      BY <1>1, <2>2, RetiringIs
    <3>2. n \in DOMAIN gc
      BY <1>1, <3>1 DEF Segs
    <3>3. \A m : Covered(gc[n], m) => m \in acked
      BY <1>4, <3>2 DEF Covered, Fits
    <3>4. QED
      BY <1>2, <2>1, <3>1, <3>3
  <2>3. CASE retired' = retired
    BY <1>2, <2>1, <2>3
  <2>4. QED
    BY <2>2, <2>3, RetiredMoves
<1>7. QED
  BY <1>3, <1>5, <1>6 DEF Events

\* What an event covers was written to data segments older than the next GC segment.
Before ==
    \A i, k \in DOMAIN gc, j \in DOMAIN data : \A m \in Msgs :
        gc[i].ts < gc[k].ts /\ Covered(gc[i], m) /\ m \in Range(data[j].es) => data[j].ts < gc[k].ts

\* A message that is written is covered by no event yet.
LEMMA WriteDataNew ==
    ASSUME Struct, ReadInTurn, WriteData
    PROVE  Head(dq) \in Msgs /\ Head(dq) \notin acked
<1>1. PICK x \in Msgs : x = Head(dq) /\ Range(dq) = {x} \cup Range(dq')
  BY WriteDataHas
<1>2. x \notin acked
  <2>1. x \in Range(dq) /\ ~(x < x)
    BY <1>1, MsgsNotRotate
  <2>2. QED
    BY <2>1 DEF ReadInTurn
<1>3. QED
  BY <1>1, <1>2

LEMMA BeforeKept ==
    ASSUME Struct, Times, Before, Came(data, data'), Came(gc, gc'), Dated(gc, gc')
    PROVE  Before'
<1>1. PICK d \in Nat : Segs(Msgs, data, d)
  BY SegTypesHas DEF Struct, Types
<1>2. SUFFICES ASSUME NEW i \in DOMAIN gc', NEW k \in DOMAIN gc', NEW j \in DOMAIN data', NEW m \in Msgs,
                      gc'[i].ts < gc'[k].ts, Covered(gc'[i], m), m \in Range(data'[j].es)
               PROVE  data'[j].ts < gc'[k].ts
  BY DEF Before, Covered
<1>3. PICK a \in DOMAIN gc : gc'[i].ts = gc[a].ts /\ gc'[i].es = gc[a].es
  BY <1>2, NoEntry DEF Came, Covered
<1>4. PICK b \in DOMAIN data : data'[j].ts = data[b].ts /\ data'[j].es = data[b].es
  BY <1>2, NoEntry DEF Came
<1>5. Covered(gc[a], m) /\ m \in Range(data[b].es)
  BY <1>2, <1>3, <1>4 DEF Covered
<1>6. CASE gc'[k].ts = clock + 1
  <2>1. data[b].ts <= clock
    BY DEF Times, Rise
  <2>2. data[b].ts \in Nat
    <3>1. b \in 1..d
      BY <1>1 DEF Segs
    <3>2. QED
      BY <1>1, <3>1, SegsHas
  <2>3. clock \in Nat
    BY WalAssumption DEF Struct, Types, SegTypes
  <2>4. QED
    BY <1>4, <1>6, <2>1, <2>2, <2>3
<1>7. CASE \E c \in DOMAIN gc : gc'[k].ts = gc[c].ts
  BY <1>2, <1>3, <1>4, <1>5, <1>7 DEF Before
<1>8. QED
  BY <1>6, <1>7 DEF Dated

LEMMA BeforeStep == ASSUME Struct, Times, Events, ReadInTurn, Before, [Next]_vars PROVE Before'
<1>1. PICK d \in Nat : Segs(Msgs, data, d)
  BY SegTypesHas DEF Struct, Types
<1>2. PICK g \in Nat : Segs(Event, gc, g)
  BY SegTypesHas DEF Struct, Types
<1>3. CASE WriteData
  <2>1. PICK x \in Msgs : x = Head(dq) /\ x \notin acked /\ Puts(Msgs, data, data', d, x)
    BY <1>1, <1>3, WriteDataNew, PutMoves DEF WriteData
  <2>2. /\ d > 0 /\ DOMAIN data = 1..d /\ DOMAIN data' = 1..d /\ (\A j \in 1..(d - 1) : data'[j] = data[j])
        /\ (\A j \in 1..d : j = d \/ j \in 1..(d - 1)) /\ data'[d].ts = data[d].ts
    BY <1>1, <2>1 DEF Puts, Segs
  <2>3. PICK y \in Seq(Msgs) : data[d].es = y /\ data'[d].es = Append(y, x)
    BY <2>1 DEF Puts
  <2>4. Range(data'[d].es) = Range(data[d].es) \cup {x}
    BY <2>3, RangeAppend
  <2>5. \A j \in DOMAIN data' : /\ j \in DOMAIN data /\ data'[j].ts = data[j].ts
                                /\ \A m : m \in Range(data'[j].es) => m \in Range(data[j].es) \/ m = x
    BY <2>2, <2>4
  <2>6. \A i \in DOMAIN gc : ~Covered(gc[i], x)
    BY <2>1 DEF Events, Covered, Fits
  <2>7. gc' = gc
    BY <1>3 DEF WriteData
  <2>8. SUFFICES ASSUME NEW i \in DOMAIN gc, NEW k \in DOMAIN gc, NEW j \in DOMAIN data', NEW m \in Msgs,
                        gc[i].ts < gc[k].ts, Covered(gc[i], m), m \in Range(data'[j].es)
                 PROVE  data'[j].ts < gc[k].ts
    BY <2>7 DEF Before, Covered
  <2>9. m \in Range(data[j].es) /\ j \in DOMAIN data /\ data'[j].ts = data[j].ts
    BY <2>5, <2>6, <2>8
  <2>10. data[j].ts < gc[k].ts
    BY <2>8, <2>9 DEF Before
  <2>11. QED
    BY <2>9, <2>10
<1>4. CASE WriteGc
  <2>1. PICK e \in Event : Puts(Event, gc, gc', g, e)
    BY <1>2, <1>4, WriteGcIs
  <2>2. /\ g > 0 /\ DOMAIN gc = 1..g /\ DOMAIN gc' = 1..g /\ (\A j \in 1..(g - 1) : gc'[j] = gc[j])
        /\ (\A j \in 1..g : j = g \/ j \in 1..(g - 1)) /\ gc'[g].ts = gc[g].ts
    BY <1>2, <2>1 DEF Puts, Segs
  <2>3. \A j \in DOMAIN gc' : j \in DOMAIN gc /\ gc'[j].ts = gc[j].ts /\ (j # g => gc'[j] = gc[j])
    BY <2>2
  <2>4. \A k \in DOMAIN gc : ~(gc[g].ts < gc[k].ts)
    <3>1. SUFFICES ASSUME NEW k \in 1..g, gc[g].ts < gc[k].ts PROVE FALSE
      BY <2>2
    <3>2. k # g
      <4>1. gc[g].ts \in Nat
        BY <1>2, <2>2, SegsHas
      <4>2. QED
        BY <3>1, <4>1
    <3>3. k < g
      BY <3>2
    <3>4. gc[k].ts < gc[g].ts
      BY <2>2, <3>3 DEF Times, Rise
    <3>5. gc[g].ts \in Nat /\ gc[k].ts \in Nat
      BY <1>2, <2>2, SegsHas
    <3>6. QED
      BY <3>1, <3>4, <3>5
  <2>5. data' = data
    BY <1>4 DEF WriteGc
  <2>6. SUFFICES ASSUME NEW i \in DOMAIN gc', NEW k \in DOMAIN gc', NEW j \in DOMAIN data, NEW m \in Msgs,
                        gc'[i].ts < gc'[k].ts, Covered(gc'[i], m), m \in Range(data[j].es)
                 PROVE  data[j].ts < gc'[k].ts
    BY <2>5 DEF Before, Covered
  <2>7. i # g /\ gc'[i] = gc[i] /\ i \in DOMAIN gc /\ k \in DOMAIN gc /\ gc'[k].ts = gc[k].ts
    BY <2>3, <2>4, <2>6
  <2>8. data[j].ts < gc[k].ts
    BY <2>6, <2>7 DEF Before
  <2>9. QED
    BY <2>7, <2>8
<1>5. CASE ~WriteData /\ ~WriteGc
  BY <1>5, DataComes, GcComes, BeforeKept
<1>6. QED
  BY <1>3, <1>4, <1>5

\* What the compactor has scanned is in oldest.
Within(g) == \A x \in Range(g.es) : x.end <= oldest[x.key]
Scan == \A i \in DOMAIN gc : gc[i].ts \in scanned => gc[i].st = "frozen" /\ Within(gc[i])

\* The cycle does not change what it knows, unless it starts or ends.
LEMMA CycleKnows ==
    ASSUME [Next]_vars
    PROVE  ReadGc \/ UNCHANGED <<scanned, oldest>> \/ (scanned' = {} /\ (EndCycle \/ Exit \/ Kill))
<1>1. CASE EndCycle \/ Exit \/ Kill
  BY <1>1 DEF EndCycle, Exit, Kill, Down
<1>2. CASE WriteData \/ RotateData \/ WriteGc \/ RotateGc \/ WriteCmp \/ RotateCmp \/ StopRead \/ StopGc \/ DeleteGc
  BY <1>2 DEF WriteData, RotateData, WriteGc, RotateGc, WriteCmp, RotateCmp, StopRead, StopGc, DeleteGc, cptVars
<1>3. CASE CmpPass \/ DataPass \/ SwitchCmp \/ SwitchData \/ EndCmpPass \/ EndDataPass
  BY <1>3 DEF CmpPass, DataPass, ReadEntry, SwitchCmp, SwitchData, EndCmpPass, EndDataPass
<1>4. CASE Snapshot \/ CompactorStops \/ CompactFails \/ StartRead \/ Boot
  BY <1>4 DEF Snapshot, CompactorStops, CompactFails, StartRead, Boot, cptVars
<1>5. CASE Read \/ Cancel \/ UNCHANGED vars \/ \E k \in Keys, e \in 1..MaxTime : CloseWindow(k, e)
  BY <1>5 DEF Read, Cancel, CloseWindow, cptVars, vars
<1>6. QED
  BY <1>1, <1>2, <1>3, <1>4, <1>5 DEF Next, WriterNext, CompactorNext, BoundReached

\* The ends of the frozen events are in the map that ReadGc builds.
LEMMA ReadGcWithin ==
    ASSUME Struct, ReadGc
    PROVE  \A i \in Frozen(gc) : \A x \in Range(gc[i].es) : x \in Event /\ x.end <= oldest'[x.key]
<1>1. SUFFICES ASSUME NEW i \in Frozen(gc), NEW x \in Range(gc[i].es) PROVE x \in Event /\ x.end <= oldest'[x.key]
  OBVIOUS
<1>2. SegTypes
  BY DEF Struct, Types
<1>3. x \in Entries(gc)
  BY DEF Entries
<1>4. x \in Event
  BY <1>2, <1>3, EventsAre
<1>5. x.key \in Keys
  BY <1>4 DEF Event
<1>6. x.end \in GcEnds(x.key)
  BY <1>3 DEF GcEnds
<1>7. oldest'[x.key] = Max(GcEnds(x.key))
  BY <1>5, <1>6 DEF ReadGc, GcEnds
<1>8. QED
  BY <1>2, <1>4, <1>5, <1>6, <1>7, OldestIs

LEMMA ScanStep == ASSUME Struct, Times, Scan, [Next]_vars PROVE Scan'
<1>1. PICK g \in Nat : Segs(Event, gc, g)
  BY SegTypesHas DEF Struct, Types
<1>2. DOMAIN gc = 1..g
  BY <1>1 DEF Segs
<1>3. CASE scanned' = {}
  BY <1>3 DEF Scan
<1>4. CASE ReadGc
  <2>1. gc' = gc /\ scanned' = {gc[i].ts : i \in Frozen(gc)}
    BY <1>4 DEF ReadGc, segVars
  <2>2. SUFFICES ASSUME NEW i \in 1..g, gc[i].ts \in scanned' PROVE gc[i].st = "frozen" /\ Within(gc[i])'
    BY <1>2, <2>1 DEF Scan, Within
  <2>3. PICK k \in Frozen(gc) : gc[i].ts = gc[k].ts
    BY <2>1, <2>2
  <2>4. k \in 1..g /\ gc[k].st = "frozen"
    BY <1>2, <2>3 DEF Frozen
  <2>5. i = k
    <3>1. gc[i].ts \in Nat
      BY <1>1, SegsHas
    <3>2. ~(i < k) /\ ~(k < i)
      BY <1>2, <2>3, <2>4, <3>1 DEF Times, Rise
    <3>3. QED
      BY <2>4, <3>2
  <2>6. \A x \in Range(gc[i].es) : x.end <= oldest'[x.key]
    BY <1>4, <2>3, <2>5, ReadGcWithin
  <2>7. QED
    BY <2>1, <2>4, <2>5, <2>6 DEF Within
<1>5. CASE UNCHANGED <<scanned, oldest>>
  <2>1. SUFFICES ASSUME NEW i \in DOMAIN gc', gc'[i].ts \in scanned PROVE gc'[i].st = "frozen" /\ Within(gc'[i])
    BY <1>5 DEF Scan, Within
  <2>2. \A k \in 1..g : gc[k].ts \in scanned => gc[k].st = "frozen" /\ Within(gc[k])
    BY <1>2 DEF Scan
  <2>3. clock + 1 \notin scanned
    <3>1. clock \in Nat
      BY WalAssumption DEF Struct, Types, SegTypes
    <3>2. QED
      BY <3>1 DEF Times
  <2>4. CASE UNCHANGED gc
    BY <1>2, <2>1, <2>2, <2>4
  <2>5. CASE WriteGc
    <3>1. PICK e \in Event : Puts(Event, gc, gc', g, e)
      BY <1>1, <2>5, WriteGcIs
    <3>2. /\ g > 0 /\ DOMAIN gc' = 1..g /\ (\A j \in 1..(g - 1) : gc'[j] = gc[j] /\ j \in 1..g)
          /\ (\A j \in 1..g : j = g \/ j \in 1..(g - 1)) /\ gc'[g].ts = gc[g].ts /\ gc[g].st = "active" /\ g \in 1..g
      BY <3>1 DEF Puts, Segs
    <3>3. i # g
      BY <2>1, <2>2, <3>2
    <3>4. QED
      BY <2>1, <2>2, <3>2, <3>3
  <2>6. CASE Rotates(Event, gc, gc', g, clock + 1)
    <3>1. /\ g > 0 /\ DOMAIN gc' = 1..(g + 1) /\ (\A j \in 1..(g - 1) : gc'[j] = gc[j] /\ j \in 1..g)
          /\ (\A j \in 1..(g + 1) : j = g + 1 \/ j = g \/ j \in 1..(g - 1)) /\ gc[g].st = "active" /\ g \in 1..g
          /\ gc'[g].ts = gc[g].ts /\ gc'[g + 1].ts = clock + 1
      BY <2>6 DEF Rotates, Segs
    <3>2. i \in 1..(g - 1)
      BY <2>1, <2>2, <2>3, <3>1
    <3>3. QED
      BY <2>1, <2>2, <3>1, <3>2
  <2>7. CASE Opens(Event, gc, gc', g, clock + 1)
    <3>1. /\ DOMAIN gc' = 1..(g + 1) /\ (\A j \in 1..g : gc'[j] = gc[j])
          /\ (\A j \in 1..(g + 1) : j = g + 1 \/ j \in 1..g) /\ gc'[g + 1].ts = clock + 1
      BY <2>7 DEF Opens, Segs
    <3>2. i \in 1..g
      BY <2>1, <2>3, <3>1
    <3>3. QED
      BY <2>1, <2>2, <3>1, <3>2
  <2>8. CASE Freezes(Event, gc, gc', g)
    <3>1. /\ g > 0 /\ DOMAIN gc' = 1..g /\ (\A j \in 1..(g - 1) : gc'[j] = gc[j] /\ j \in 1..g)
          /\ (\A j \in 1..g : j = g \/ j \in 1..(g - 1)) /\ gc[g].st = "active" /\ g \in 1..g /\ gc'[g].ts = gc[g].ts
      BY <2>8 DEF Freezes, Segs
    <3>2. i \in 1..(g - 1)
      BY <2>1, <2>2, <3>1
    <3>3. QED
      BY <2>1, <2>2, <3>1, <3>2
  <2>9. CASE Leaves(Event, gc, gc', g)
    <3>1. /\ g > 0 /\ DOMAIN gc' = 1..g /\ (\A j \in 1..(g - 1) : gc'[j] = gc[j] /\ j \in 1..g)
          /\ (\A j \in 1..g : j = g \/ j \in 1..(g - 1)) /\ gc[g].st = "active" /\ g \in 1..g /\ gc'[g].ts = gc[g].ts
      BY <2>9 DEF Leaves, Segs
    <3>2. i \in 1..(g - 1)
      BY <2>1, <2>2, <3>1
    <3>3. QED
      BY <2>1, <2>2, <3>1, <3>2
  <2>10. CASE DeleteGc /\ Removes(Event, gc, gc', g, Min(ToDelete))
    <3>1. PICK r \in 1..g : Removes(Event, gc, gc', g, r)
      BY <2>10 DEF Removes
    <3>2. /\ DOMAIN gc' = 1..(g - 1) /\ \A j \in 1..(g - 1) : j \in 1..g /\ j + 1 \in 1..g /\ (j < r \/ j >= r)
      BY <3>1 DEF Removes, Segs
    <3>3. gc'[i] = gc[i] \/ gc'[i] = gc[i + 1]
      BY <2>1, <3>1, <3>2 DEF Removes
    <3>4. QED
      BY <2>1, <2>2, <3>2, <3>3
  <2>11. QED
    BY <1>1, <2>4, <2>5, <2>6, <2>7, <2>8, <2>9, <2>10, GcMoves
<1>6. QED
  BY <1>3, <1>4, <1>5, CycleKnows

LEMMA CptMoves ==
    ASSUME [Next]_vars
    PROVE  \/ Snapshot \/ ReadGc \/ EndCmpPass \/ EndDataPass \/ SwitchCmp \/ SwitchData
           \/ cpt' \in {"snap", "wait", "off"}
           \/ UNCHANGED <<cpt, newest, files>>
<1>1. CASE EndCycle \/ CompactorStops \/ CompactFails \/ Exit \/ Kill \/ Boot
  BY <1>1 DEF EndCycle, CompactorStops, CompactFails, Exit, Kill, Down, Boot
<1>2. CASE WriteData \/ RotateData \/ WriteGc \/ RotateGc \/ WriteCmp \/ RotateCmp \/ StopRead \/ StopGc \/ DeleteGc
  BY <1>2 DEF WriteData, RotateData, WriteGc, RotateGc, WriteCmp, RotateCmp, StopRead, StopGc, DeleteGc, cptVars
<1>3. CASE CmpPass \/ DataPass
  BY <1>3 DEF CmpPass, DataPass, ReadEntry
<1>4. CASE StartRead \/ Read \/ Cancel \/ UNCHANGED vars \/ \E k \in Keys, e \in 1..MaxTime : CloseWindow(k, e)
  BY <1>4 DEF StartRead, Read, Cancel, CloseWindow, cptVars, vars
<1>5. QED
  BY <1>1, <1>2, <1>3, <1>4 DEF Next, WriterNext, CompactorNext, BoundReached

\* A data segment older than newest is frozen when the cycle starts, listed by its pass, and
\* gone, or left behind by a pod, when GC segments are deleted.
Gate ==
    \A j \in DOMAIN data : data[j].ts < newest =>
        /\ cpt \in {"gc", "cmp", "data", "delete"} => data[j].st # "active"
        /\ cpt = "data" /\ data[j].st = "frozen" => j <= files
        /\ cpt = "delete" => data[j].st = "left"

\* A cycle goes on.
LEMMA CycleGate == ASSUME Struct, Times, Gate, [Next]_vars, UNCHANGED data PROVE Gate'
<1>1. PICK d \in Nat : Segs(Msgs, data, d)
  BY SegTypesHas DEF Struct, Types
<1>2. DOMAIN data = 1..d /\ Len(data) = d
  BY <1>1 DEF Segs
<1>3. CASE Snapshot
  <2>1. cpt' = "gc" /\ (data # <<>> => newest' = data[d].ts) /\ (data = <<>> => d = 0)
    BY <1>1, <1>2, <1>3, SegsHas DEF Snapshot, Last
  <2>2. SUFFICES ASSUME NEW j \in 1..d, data[j].ts < newest' PROVE data[j].st # "active"
    BY <1>2, <2>1 DEF Gate
  <2>3. newest' = data[d].ts /\ d \in 1..d
    BY <2>1
  <2>4. j # d
    <3>1. data[d].ts \in Nat
      BY <1>1, <2>3, SegsHas
    <3>2. QED
      BY <2>2, <2>3, <3>1
  <2>5. OneActive(data)
    BY DEF Struct, Types, SegTypes
  <2>6. QED
    BY <1>2, <2>4, <2>5 DEF OneActive
<1>4. CASE ReadGc
  <2>1. cpt = "gc" /\ cpt' = "cmp" /\ newest' = newest
    BY <1>4 DEF ReadGc
  <2>2. QED
    BY <2>1 DEF Gate
<1>5. CASE EndCmpPass
  <2>1. cpt = "cmp" /\ cpt' = "data" /\ newest' = newest /\ files' = LastFrozen(data)
    BY <1>5 DEF EndCmpPass
  <2>2. \A i \in Frozen(data) : i <= LastFrozen(data)
    BY <1>1, LastFrozenIs
  <2>3. QED
    BY <2>1, <2>2 DEF Gate, Frozen
<1>6. CASE EndDataPass
  <2>1. cpt = "data" /\ cpt' = "delete" /\ newest' = newest /\ Listed(data) = {}
    BY <1>6 DEF EndDataPass
  <2>2. \A j \in 1..d : data[j].st \in States
    BY <1>1, SegsHas
  <2>3. ASSUME NEW j \in 1..d, data[j].ts < newest PROVE data[j].st = "left"
    <3>1. data[j].st # "active" /\ (data[j].st = "frozen" => j <= files)
      BY <1>2, <2>1, <2>3 DEF Gate
    <3>2. data[j].st = "frozen" => j \in Listed(data)
      BY <1>2, <3>1 DEF Listed, Frozen
    <3>3. QED
      BY <2>1, <2>2, <3>1, <3>2 DEF States
  <2>4. QED
    BY <1>2, <2>1, <2>3 DEF Gate
<1>7. CASE SwitchCmp
  <2>1. cpt = "cmp" /\ cpt' = "cmp" /\ newest' = newest
    BY <1>7 DEF SwitchCmp
  <2>2. QED
    BY <2>1 DEF Gate
<1>8. CASE SwitchData
  <2>1. PICK r \in 1..d : Removes(Msgs, data, data', d, r)
    BY <1>1, <1>8, SwitchDataIs DEF Struct
  <2>2. Len(data') = d - 1
    BY <2>1 DEF Removes, Segs
  <2>3. QED
    BY <1>2, <2>2
<1>9. CASE cpt' \in {"snap", "wait", "off"}
  BY <1>9 DEF Gate
<1>10. CASE UNCHANGED <<cpt, newest, files>>
  BY <1>10 DEF Gate
<1>11. QED
  BY <1>3, <1>4, <1>5, <1>6, <1>7, <1>8, <1>9, <1>10, CptMoves

\* The data writer goes on in segments that are not older than newest.
LEMMA DataWriterGate ==
    ASSUME Struct, Times, Gate, UNCHANGED <<cpt, newest, files>>, NEW d, Segs(Msgs, data, d),
           \/ \E x : Puts(Msgs, data, data', d, x)
           \/ Rotates(Msgs, data, data', d, clock + 1) \/ Opens(Msgs, data, data', d, clock + 1)
           \/ Freezes(Msgs, data, data', d)
    PROVE  Gate'
<1>1. DOMAIN data = 1..d /\ d \in Nat
  BY DEF Segs
<1>2. ~(clock + 1 < newest)
  <2>1. newest <= clock /\ newest \in Int /\ clock \in Nat
    BY WalAssumption DEF Times, Struct, Types, CptTypes, SegTypes
  <2>2. QED
    BY <2>1
<1>3. \A j \in DOMAIN data' : \/ data'[j].ts = clock + 1
                              \/ j \in 1..d /\ data'[j] = data[j]
                              \/ j \in 1..d /\ data[j].st = "active" /\ data'[j].ts = data[j].ts /\ j = d
  <2>1. CASE \E x : Puts(Msgs, data, data', d, x)
    <3>1. /\ d > 0 /\ DOMAIN data' = 1..d /\ (\A j \in 1..(d - 1) : data'[j] = data[j])
          /\ (\A j \in 1..d : j = d \/ j \in 1..(d - 1)) /\ data'[d].ts = data[d].ts /\ data[d].st = "active"
      BY <1>1, <2>1 DEF Puts, Segs
    <3>2. QED
      BY <3>1
  <2>2. CASE Rotates(Msgs, data, data', d, clock + 1)
    <3>1. /\ d > 0 /\ DOMAIN data' = 1..(d + 1) /\ (\A j \in 1..(d - 1) : data'[j] = data[j])
          /\ (\A j \in 1..(d + 1) : j = d + 1 \/ j = d \/ j \in 1..(d - 1)) /\ data[d].st = "active"
          /\ data'[d].ts = data[d].ts /\ data'[d + 1].ts = clock + 1 /\ d \in 1..d /\ \A j \in 1..(d - 1) : j \in 1..d
      BY <1>1, <2>2 DEF Rotates, Segs
    <3>2. QED
      BY <3>1
  <2>3. CASE Opens(Msgs, data, data', d, clock + 1)
    <3>1. /\ DOMAIN data' = 1..(d + 1) /\ (\A j \in 1..d : data'[j] = data[j])
          /\ (\A j \in 1..(d + 1) : j = d + 1 \/ j \in 1..d) /\ data'[d + 1].ts = clock + 1
      BY <1>1, <2>3 DEF Opens, Segs
    <3>2. QED
      BY <3>1
  <2>4. CASE Freezes(Msgs, data, data', d)
    <3>1. /\ d > 0 /\ DOMAIN data' = 1..d /\ (\A j \in 1..(d - 1) : data'[j] = data[j])
          /\ (\A j \in 1..d : j = d \/ j \in 1..(d - 1)) /\ data'[d].ts = data[d].ts /\ data[d].st = "active" /\ d \in 1..d
      BY <1>1, <2>4 DEF Freezes, Segs
    <3>2. QED
      BY <3>1
  <2>5. QED
    BY <2>1, <2>2, <2>3, <2>4
<1>4. SUFFICES ASSUME NEW j \in DOMAIN data', data'[j].ts < newest
               PROVE  /\ cpt \in {"gc", "cmp", "data", "delete"} => data'[j].st # "active"
                      /\ cpt = "data" /\ data'[j].st = "frozen" => j <= files
                      /\ cpt = "delete" => data'[j].st = "left"
  BY DEF Gate
<1>5. CASE cpt \in {"gc", "cmp", "data", "delete"}
  <2>1. j \in 1..d /\ data'[j] = data[j]
    <3>1. ~(j \in 1..d /\ data[j].st = "active" /\ data'[j].ts = data[j].ts)
      BY <1>1, <1>4, <1>5 DEF Gate
    <3>2. QED
      BY <1>2, <1>3, <1>4, <3>1
  <2>2. QED
    BY <1>1, <1>4, <2>1 DEF Gate
<1>6. QED
  BY <1>5

LEMMA SwitchDataGate == ASSUME Struct, Gate, SwitchData PROVE Gate'
<1>1. PICK d \in Nat : Segs(Msgs, data, d)
  BY SegTypesHas DEF Struct, Types
<1>2. PICK r \in 1..d : Removes(Msgs, data, data', d, r) /\ r <= files
  <2>1. Listed(data) # {}
    BY DEF SwitchData
  <2>2. First(data) \in 1..d /\ First(data) <= files
    BY <1>1, <2>1, FirstIs
  <2>3. QED
    BY <1>1, <2>2, SwitchDataIs DEF Struct
<1>3. cpt = "data" /\ cpt' = "data" /\ newest' = newest /\ files' = files - 1 /\ files \in Nat
  BY DEF SwitchData, Struct, Types, CptTypes
<1>4. DOMAIN data = 1..d /\ DOMAIN data' = 1..(d - 1)
  BY <1>1, <1>2 DEF Removes, Segs
<1>5. SUFFICES ASSUME NEW j \in 1..(d - 1), data'[j].ts < newest
               PROVE  data'[j].st # "active" /\ (data'[j].st = "frozen" => j <= files - 1)
  BY <1>3, <1>4 DEF Gate
<1>6. CASE j < r
  <2>1. data'[j] = data[j] /\ j \in 1..d /\ j <= files - 1
    BY <1>2, <1>3, <1>5, <1>6 DEF Removes
  <2>2. QED
    BY <1>3, <1>4, <1>5, <2>1 DEF Gate
<1>7. CASE j >= r
  <2>1. data'[j] = data[j + 1] /\ j + 1 \in 1..d
    BY <1>2, <1>5, <1>7 DEF Removes
  <2>2. data[j + 1].st # "active" /\ (data[j + 1].st = "frozen" => j + 1 <= files)
    BY <1>3, <1>4, <1>5, <2>1 DEF Gate
  <2>3. QED
    BY <1>3, <2>1, <2>2
<1>8. QED
  BY <1>6, <1>7

LEMMA GateStep == ASSUME Struct, Times, Gate, [Next]_vars PROVE Gate'
<1>1. PICK d \in Nat : Segs(Msgs, data, d)
  BY SegTypesHas DEF Struct, Types
<1>2. CASE UNCHANGED data
  BY <1>2, CycleGate
<1>3. CASE WriteData /\ \E x \in Msgs : x = Head(dq) /\ Puts(Msgs, data, data', d, x)
  <2>1. UNCHANGED <<cpt, newest, files>> /\ \E x : Puts(Msgs, data, data', d, x)
    BY <1>3 DEF WriteData, cptVars
  <2>2. QED
    BY <1>1, <2>1, DataWriterGate
<1>4. CASE RotateData /\ Rotates(Msgs, data, data', d, clock + 1) /\ clock' = clock + 1
  <2>1. UNCHANGED <<cpt, newest, files>>
    BY <1>4 DEF RotateData, cptVars
  <2>2. QED
    BY <1>1, <1>4, <2>1, DataWriterGate
<1>5. CASE StartRead /\ Opens(Msgs, data, data', d, clock + 1) /\ clock' = clock + 1
  <2>1. UNCHANGED <<cpt, newest, files>>
    BY <1>5 DEF StartRead, cptVars
  <2>2. QED
    BY <1>1, <1>5, <2>1, DataWriterGate
<1>6. CASE StopRead /\ Freezes(Msgs, data, data', d)
  <2>1. UNCHANGED <<cpt, newest, files>>
    BY <1>6 DEF StopRead, cptVars
  <2>2. QED
    BY <1>1, <1>6, <2>1, DataWriterGate
<1>7. CASE SwitchData
  BY <1>7, SwitchDataGate
<1>8. CASE Exit \/ Kill
  <2>1. cpt' = "off"
    BY <1>8 DEF Exit, Kill, Down
  <2>2. QED
    BY <2>1 DEF Gate
<1>9. QED
  BY <1>1, <1>2, <1>3, <1>4, <1>5, <1>6, <1>7, <1>8, DataMoves

(***************************************************************************)
(* What is copied, stored, and left to read.                               *)
(***************************************************************************)

\* The message is in a segment or on its way to one.
Copy(m) == Holds(data, m) \/ Holds(cmp, m) \/ m \in Range(cq)

\* A cycle that is not ahead of the compaction writer starts with nothing copied.
LEMMA NothingCopied ==
    ASSUME Struct, Tidy, Listing, ~lagged, cpt \in {"snap", "gc"}
    PROVE  \A m : ~Copied(m)
<1>1. PICK n \in Nat : Segs(Msgs, cmp, n)
  BY SegTypesHas DEF Struct, Types
<1>2. cq = <<>>
  BY DEF Listing
<1>3. pbq # "down" /\ Between
  BY DEF Struct, Shape, Between
<1>4. Last(cmp).es = <<>>
  BY <1>2, <1>3 DEF Tidy, Settled
<1>5. DOMAIN cmp = 1..n /\ Len(cmp) = n
  BY <1>1 DEF Segs
<1>6. cmp[n].es = <<>> /\ Old = n - 1
  BY <1>4, <1>5 DEF Last, Old
<1>7. \A i \in 1..n : i > n - 1 => i = n
  OBVIOUS
<1>8. \A m : ~InAfter(cmp, Old, m)
  BY <1>5, <1>6, <1>7, NoEntry DEF InAfter
<1>9. QED
  BY <1>2, <1>8, NoEntry DEF Copied

\* What the cycle has copied is what it retains.
Purged ==
    ~lagged /\ cpt \in {"cmp", "data", "delete"} => \A m \in Msgs : Copied(m) => Et[m] >= oldest[Key[m]]

LEMMA ReadEntryPurged ==
    ASSUME Struct, Purged, NEW segs, NEW n, Segs(Msgs, segs, n), ReadEntry(segs)
    PROVE  Purged'
<1>1. PICK m : m = segs[First(segs)].es[pos']
  OBVIOUS
<1>2. m \in Msgs
  BY <1>1, ReadEntryHas
<1>3. UNCHANGED <<cmp, cpt, files, oldest, lagged>>
  BY DEF ReadEntry, segVars
<1>4. Old' = Old
  BY <1>3 DEF Old
<1>5. CASE ShouldRetain(m)
  <2>1. cq' = Append(cq, m) /\ cq \in Seq(Msgs \cup {Rotate})
    BY <1>1, <1>5 DEF ReadEntry, Struct, Types, QueueTypes
  <2>2. Range(cq') = Range(cq) \cup {m}
    BY <1>2, <2>1, RangeAppend
  <2>3. \A x \in Msgs : Copied(x)' => Copied(x) \/ x = m
    BY <1>3, <1>4, <2>2 DEF Copied
  <2>4. QED
    BY <1>3, <1>5, <2>3 DEF Purged, ShouldRetain
<1>6. CASE ~ShouldRetain(m)
  <2>1. cq' = cq
    BY <1>1, <1>6 DEF ReadEntry
  <2>2. QED
    BY <1>3, <1>4, <2>1 DEF Purged, Copied
<1>7. QED
  BY <1>5, <1>6

LEMMA PurgedKept ==
    ASSUME Purged, UNCHANGED oldest, ~lagged' => ~lagged, cpt \in {"cmp", "data", "delete"},
           \A m \in Msgs : Copied(m)' => Copied(m)
    PROVE  Purged'
  BY DEF Purged

LEMMA PurgedStep == ASSUME Struct, Tidy, Listing, Purged, [Next]_vars PROVE Purged'
<1>0. ~lagged' => ~lagged
  BY LaggedStays
<1>1. CASE ReadGc
  <2>1. \A m : Copied(m)' <=> Copied(m)
    BY <1>1, OldStays DEF Copied
  <2>2. cpt = "gc"
    BY <1>1 DEF ReadGc
  <2>3. ~lagged => \A m : ~Copied(m)
    BY <2>2, NothingCopied
  <2>4. QED
    BY <1>0, <2>1, <2>3 DEF Purged
<1>2. CASE EndCmpPass \/ EndDataPass
  <2>1. \A m : Copied(m)' <=> Copied(m)
    BY <1>2, OldStays DEF Copied
  <2>2. oldest' = oldest /\ cpt \in {"cmp", "data", "delete"}
    BY <1>2 DEF EndCmpPass, EndDataPass
  <2>3. QED
    BY <1>0, <2>1, <2>2, PurgedKept
<1>3. CASE CmpPass
  <2>1. PICK n \in Nat : Segs(Msgs, cmp, n)
    BY SegTypesHas DEF Struct, Types
  <2>2. QED
    BY <1>3, <2>1, ReadEntryPurged DEF CmpPass
<1>4. CASE DataPass
  <2>1. PICK n \in Nat : Segs(Msgs, data, n)
    BY SegTypesHas DEF Struct, Types
  <2>2. QED
    BY <1>4, <2>1, ReadEntryPurged DEF DataPass
<1>5. CASE SwitchCmp
  <2>1. oldest' = oldest /\ cpt \in {"cmp", "data", "delete"}
    BY <1>5 DEF SwitchCmp
  <2>2. QED
    BY <1>0, <1>5, <2>1, SwitchCmpHas, PurgedKept
<1>6. CASE SwitchData
  <2>1. oldest' = oldest /\ cpt \in {"cmp", "data", "delete"}
    BY <1>6 DEF SwitchData
  <2>2. QED
    BY <1>0, <1>6, <2>1, SwitchDataHas, PurgedKept
<1>7. CASE WriteCmp \/ RotateCmp
  <2>1. UNCHANGED <<oldest, cpt>>
    BY <1>7 DEF WriteCmp, RotateCmp, cptVars
  <2>2. CASE cpt \in {"cmp", "data", "delete"}
    <3>1. cpt \notin {"snap", "gc"}
      BY <2>2
    <3>2. \A m \in Msgs : Copied(m)' <=> Copied(m)
      BY <1>7, <3>1, CmpWriterHas
    <3>3. QED
      BY <1>0, <2>1, <2>2, <3>2, PurgedKept
  <2>3. CASE cpt \notin {"cmp", "data", "delete"}
    BY <2>1, <2>3 DEF Purged
  <2>4. QED
    BY <2>2, <2>3
<1>8. CASE Snapshot \/ EndCycle \/ CompactorStops \/ CompactFails \/ Exit \/ Kill \/ Boot
  <2>1. cpt' \notin {"cmp", "data", "delete"}
    BY <1>8 DEF Snapshot, EndCycle, CompactorStops, CompactFails, Exit, Kill, Down, Boot
  <2>2. QED
    BY <2>1 DEF Purged
<1>9. CASE UNCHANGED <<cmp, cq, cpt, files, oldest>>
  <2>1. Old' = Old
    BY <1>9 DEF Old
  <2>2. \A m \in Msgs : Copied(m)' <=> Copied(m)
    BY <1>9, <2>1 DEF Copied
  <2>3. QED
    BY <1>0, <1>9, <2>2 DEF Purged
<1>10. CASE WriteData \/ RotateData \/ WriteGc \/ RotateGc \/ StopRead \/ StopGc \/ DeleteGc
  <2>1. UNCHANGED <<cmp, cq, cpt, files, oldest>>
    BY <1>10 DEF WriteData, RotateData, WriteGc, RotateGc, StopRead, StopGc, DeleteGc, cptVars
  <2>2. QED
    BY <1>9, <2>1
<1>11. CASE StartRead \/ Read \/ Cancel \/ UNCHANGED vars \/ \E k \in Keys, e \in 1..MaxTime : CloseWindow(k, e)
  <2>1. UNCHANGED <<cmp, cq, cpt, files, oldest>>
    BY <1>11 DEF StartRead, Read, Cancel, CloseWindow, segVars, cptVars, vars
  <2>2. QED
    BY <1>9, <2>1
<1>12. QED
  BY <1>1, <1>2, <1>3, <1>4, <1>5, <1>6, <1>7, <1>8, <1>10, <1>11 DEF Next, WriterNext, CompactorNext, BoundReached

\* Only the data writer stores a message that was not stored.
LEMMA CopyShrinks ==
    ASSUME Struct, [Next]_vars
    PROVE  \A m \in Msgs : Copy(m)' => Copy(m) \/ (WriteData /\ m = Head(dq))
<1>1. CASE WriteData
  <2>1. PICK x \in Msgs : x = Head(dq) /\ \A m : Holds(data', m) <=> Holds(data, m) \/ m = x
    BY <1>1, WriteDataHas
  <2>2. UNCHANGED <<cmp, cq>>
    BY <1>1 DEF WriteData
  <2>3. QED
    BY <1>1, <2>1, <2>2 DEF Copy
<1>2. CASE RotateData \/ StopRead \/ StartRead
  <2>1. UNCHANGED <<cmp, cq>>
    BY <1>2 DEF RotateData, StopRead, StartRead
  <2>2. QED
    BY <1>2, <2>1, DataWriterHas DEF Copy
<1>3. CASE WriteCmp \/ RotateCmp
  <2>1. UNCHANGED data
    BY <1>3 DEF WriteCmp, RotateCmp
  <2>2. QED
    BY <1>3, <2>1, CmpWriterHas DEF Copy
<1>4. ASSUME NEW segs, NEW n, Segs(Msgs, segs, n), ReadEntry(segs), segs = data \/ segs = cmp
      PROVE  \A m \in Msgs : Copy(m)' => Copy(m)
  <2>1. PICK x : x = segs[First(segs)].es[pos']
    OBVIOUS
  <2>2. x \in Range(segs[First(segs)].es) /\ First(segs) \in 1..n /\ Range(cq') \subseteq Range(cq) \cup {x}
    BY <1>4, <2>1, ReadEntryHas
  <2>3. First(segs) \in DOMAIN segs /\ First(segs) > 0
    BY <1>4, <2>2 DEF Segs
  <2>4. Holds(segs, x)
    BY <2>2, <2>3 DEF Holds, InAfter
  <2>5. UNCHANGED <<data, cmp>>
    BY <1>4 DEF ReadEntry, segVars
  <2>6. QED
    BY <1>4, <2>2, <2>4, <2>5 DEF Copy
<1>5. CASE CmpPass
  <2>1. PICK n \in Nat : Segs(Msgs, cmp, n)
    BY SegTypesHas DEF Struct, Types
  <2>2. QED
    BY <1>4, <1>5, <2>1 DEF CmpPass
<1>6. CASE DataPass
  <2>1. PICK n \in Nat : Segs(Msgs, data, n)
    BY SegTypesHas DEF Struct, Types
  <2>2. QED
    BY <1>4, <1>6, <2>1 DEF DataPass
<1>7. CASE SwitchCmp
  <2>1. UNCHANGED data
    BY <1>7 DEF SwitchCmp
  <2>2. QED
    BY <1>7, <2>1, SwitchCmpHas DEF Copy
<1>8. CASE SwitchData
  <2>1. UNCHANGED cmp
    BY <1>8 DEF SwitchData
  <2>2. QED
    BY <1>8, <2>1, SwitchDataHas DEF Copy
<1>9. CASE Exit \/ Kill
  <2>1. cq' = <<>>
    BY <1>9 DEF Exit, Kill, Down
  <2>2. QED
    BY <1>9, <2>1, DownHas, NoEntry DEF Copy
<1>10. CASE Boot
  <2>1. UNCHANGED data
    BY <1>10 DEF Boot
  <2>2. QED
    BY <1>10, <2>1, BootHas DEF Copy
<1>11. CASE WriteGc \/ RotateGc \/ StopGc \/ DeleteGc
  BY <1>11 DEF Copy, WriteGc, RotateGc, StopGc, DeleteGc
<1>12. CASE Snapshot \/ ReadGc \/ EndCmpPass \/ EndDataPass \/ EndCycle \/ CompactorStops \/ CompactFails
  BY <1>12 DEF Copy, Snapshot, ReadGc, EndCmpPass, EndDataPass, EndCycle, CompactorStops, CompactFails, segVars
<1>13. CASE Read \/ Cancel \/ UNCHANGED vars \/ \E k \in Keys, e \in 1..MaxTime : CloseWindow(k, e)
  BY <1>13 DEF Copy, Read, Cancel, CloseWindow, segVars, vars
<1>14. QED
  BY <1>1, <1>2, <1>3, <1>5, <1>6, <1>7, <1>8, <1>9, <1>10, <1>11, <1>12, <1>13
     DEF Next, WriterNext, CompactorNext, BoundReached

\* A frozen GC segment stays until it is deleted.
LEMMA FrozenStays ==
    ASSUME Struct, [Next]_vars, ~DeleteGc
    PROVE  \A i \in Frozen(gc) : i \in Frozen(gc') /\ gc'[i] = gc[i]
<1>1. PICK n \in Nat : Segs(Event, gc, n)
  BY SegTypesHas DEF Struct, Types
<1>2. DOMAIN gc = 1..n
  BY <1>1 DEF Segs
<1>3. SUFFICES ASSUME NEW i \in 1..n, gc[i].st = "frozen" PROVE i \in DOMAIN gc' /\ gc'[i] = gc[i]
  BY <1>2 DEF Frozen
<1>4. CASE UNCHANGED gc
  BY <1>2, <1>4
<1>5. CASE WriteGc
  <2>1. PICK e \in Event : Puts(Event, gc, gc', n, e)
    BY <1>1, <1>5, WriteGcIs
  <2>2. /\ DOMAIN gc' = 1..n /\ (\A j \in 1..(n - 1) : gc'[j] = gc[j]) /\ gc[n].st = "active"
        /\ \A j \in 1..n : j = n \/ j \in 1..(n - 1)
    BY <2>1 DEF Puts, Segs
  <2>3. QED
    BY <1>3, <2>2
<1>6. CASE Rotates(Event, gc, gc', n, clock + 1)
  <2>1. /\ DOMAIN gc' = 1..(n + 1) /\ (\A j \in 1..(n - 1) : gc'[j] = gc[j]) /\ gc[n].st = "active"
        /\ \A j \in 1..n : (j = n \/ j \in 1..(n - 1)) /\ j \in 1..(n + 1)
    BY <1>6 DEF Rotates, Segs
  <2>2. QED
    BY <1>3, <2>1
<1>7. CASE Opens(Event, gc, gc', n, clock + 1)
  <2>1. /\ DOMAIN gc' = 1..(n + 1) /\ (\A j \in 1..n : gc'[j] = gc[j] /\ j \in 1..(n + 1))
    BY <1>7 DEF Opens, Segs
  <2>2. QED
    BY <2>1
<1>8. CASE Freezes(Event, gc, gc', n) \/ Leaves(Event, gc, gc', n)
  <2>1. /\ DOMAIN gc' = 1..n /\ (\A j \in 1..(n - 1) : gc'[j] = gc[j]) /\ gc[n].st = "active"
        /\ \A j \in 1..n : j = n \/ j \in 1..(n - 1)
    BY <1>8 DEF Freezes, Leaves, Segs
  <2>2. QED
    BY <1>3, <2>1
<1>9. QED
  BY <1>1, <1>4, <1>5, <1>6, <1>7, <1>8, GcMoves

\* A retired message that is stored somewhere is covered by a GC segment that is still there.
Kept == ~lagged => \A m \in retired : Copy(m) => \E i \in Frozen(gc) : Covered(gc[i], m)

\* A GC segment that is deleted covers nothing that is stored.
LEMMA SpentCoversNothing ==
    ASSUME Struct, Times, Events, Before, Scan, Gate, Purged, ~lagged, cpt = "delete",
           NEW i \in DOMAIN gc, Spent(gc[i]), NEW m \in Msgs, Covered(gc[i], m)
    PROVE  ~Copy(m)
<1>1. PICK d \in Nat : Segs(Msgs, data, d)
  BY SegTypesHas DEF Struct, Types
<1>2. PICK g \in Nat : Segs(Event, gc, g)
  BY SegTypesHas DEF Struct, Types
<1>3. PICK c \in Nat : Segs(Msgs, cmp, c)
  BY SegTypesHas DEF Struct, Types
<1>4. PICK x \in Range(gc[i].es) : m \in x.covers
  BY DEF Covered
<1>5. x \in Event
  <2>1. i \in 1..g
    BY <1>2 DEF Segs
  <2>2. gc[i].es \in Seq(Event)
    BY <1>2, <2>1, SegsHas
  <2>3. QED
    BY <1>4, <2>2, SeqRange
<1>6. Key[m] = x.key /\ Et[m] < x.end
  BY <1>4 DEF Events, Fits
<1>7. x.end <= oldest[x.key]
  BY <1>4 DEF Spent, Scan, Within
<1>8. ~Copied(m)
  <2>1. x.end \in Nat /\ Et[m] \in Nat /\ oldest[x.key] \in Nat
    BY <1>5, WalAssumption DEF Event, Struct, Types, CptTypes
  <2>2. ~(Et[m] >= oldest[Key[m]])
    BY <1>6, <1>7, <2>1
  <2>3. QED
    BY <2>2 DEF Purged
<1>9. Old = 0
  BY DEF Old
<1>10. ~Holds(cmp, m) /\ m \notin Range(cq)
  BY <1>8, <1>9 DEF Copied, Holds
<1>11. PICK k \in DOMAIN gc : gc[k].ts > gc[i].ts /\ newest > gc[k].ts
  <2>1. Later(gc[i]) # {} /\ newest > Min(Later(gc[i]))
    BY DEF Spent
  <2>2. Later(gc[i]) \subseteq Nat
    <3>1. \A y \in Range(gc) : y.ts \in Nat
      BY <1>2, SegsHas DEF Range, Segs
    <3>2. QED
      BY <3>1 DEF Later
  <2>3. Min(Later(gc[i])) \in Later(gc[i])
    BY <2>1, <2>2, MinIs
  <2>4. PICK h \in Range(gc) : h.ts > gc[i].ts /\ h.ts = Min(Later(gc[i]))
    BY <2>3 DEF Later
  <2>5. QED
    BY <2>1, <2>4 DEF Range
<1>12. ~Holds(data, m)
  <2>1. SUFFICES ASSUME Holds(data, m) PROVE FALSE
    OBVIOUS
  <2>2. PICK j \in 1..d : m \in Range(data[j].es)
    BY <1>1, <2>1 DEF Holds, InAfter, Segs
  <2>3. j \in DOMAIN data
    BY <1>1 DEF Segs
  <2>4. i \in 1..g /\ k \in 1..g
    BY <1>2 DEF Segs
  <2>5. gc[i].ts \in Nat /\ gc[k].ts \in Nat /\ data[j].ts \in Nat /\ newest \in Int
    BY <1>1, <1>2, <2>4, SegsHas DEF Struct, Types, CptTypes
  <2>6. gc[i].ts < gc[k].ts
    BY <1>11, <2>5
  <2>7. data[j].ts < gc[k].ts
    BY <2>2, <2>3, <2>6 DEF Before
  <2>8. data[j].ts < newest
    BY <1>11, <2>5, <2>7
  <2>9. data[j].st = "left"
    BY <2>3, <2>8 DEF Gate
  <2>10. data[j].es = <<>>
    BY <2>3, <2>9 DEF Struct, Shape
  <2>11. QED
    BY <2>2, <2>10, NoEntry
<1>13. QED
  BY <1>10, <1>12 DEF Copy

LEMMA KeptStep ==
    ASSUME Struct, ReadInTurn, Times, Events, Before, Scan, Gate, Purged, Kept, [Next]_vars
    PROVE  Kept'
<1>1. PICK g \in Nat : Segs(Event, gc, g)
  BY SegTypesHas DEF Struct, Types
<1>2. DOMAIN gc = 1..g
  BY <1>1 DEF Segs
<1>3. SUFFICES ASSUME ~lagged', NEW m \in retired', Copy(m)' PROVE \E i \in Frozen(gc') : Covered(gc'[i], m)
  BY DEF Kept, Covered, Frozen
<1>4. ~lagged
  BY <1>3, LaggedStays
<1>5. m \in Msgs
  BY StructStep DEF Struct, Types, RestTypes
<1>6. CASE m \notin retired
  <2>1. RotateGc \/ StopGc
    BY <1>3, <1>6, RetiredMoves
  <2>2. g > 0 /\ gc[g].st = "active" /\ retired' = retired \cup {y \in Msgs : Covered(gc[g], y)}
    BY <1>1, <2>1, RetiringIs
  <2>3. Covered(gc[g], m)
    BY <1>3, <1>6, <2>2
  <2>4. g \in DOMAIN gc' /\ gc'[g].st = "frozen" /\ gc'[g].es = gc[g].es
    <3>1. CASE RotateGc
      <4>1. clock' \in 0..MaxClock
        BY <3>1, WalAssumption DEF Struct, Types, SegTypes, RotateGc
      <4>2. Rotates(Event, gc, gc', g, clock')
        BY <1>1, <3>1, <4>1, RotateMoves DEF RotateGc
      <4>3. g \in 1..g /\ g \in 1..(g + 1)
        BY <2>2
      <4>4. QED
        BY <4>2, <4>3 DEF Rotates, Segs
    <3>2. CASE StopGc
      <4>1. Freezes(Event, gc, gc', g)
        BY <1>1, <3>2, FreezeMoves DEF StopGc
      <4>2. g \in 1..g
        BY <2>2
      <4>3. QED
        BY <4>1, <4>2 DEF Freezes, Segs
    <3>3. QED
      BY <2>1, <3>1, <3>2
  <2>5. QED
    BY <2>3, <2>4 DEF Covered, Frozen
<1>7. CASE m \in retired
  <2>1. Copy(m)
    <3>1. SUFFICES ASSUME WriteData, m = Head(dq) PROVE FALSE
      BY <1>3, <1>5, CopyShrinks
    <3>2. m \notin acked
      BY <3>1, WriteDataNew
    <3>3. QED
      BY <1>7, <3>2 DEF Events
  <2>2. PICK i \in Frozen(gc) : Covered(gc[i], m)
    BY <1>4, <1>7, <2>1 DEF Kept
  <2>3. CASE ~DeleteGc
    <3>1. i \in Frozen(gc') /\ gc'[i] = gc[i]
      BY <2>2, <2>3, FrozenStays
    <3>2. QED
      BY <2>2, <3>1
  <2>4. CASE DeleteGc
    <3>1. PICK r \in 1..g : Spent(gc[r]) /\ Removes(Event, gc, gc', g, r)
      BY <1>1, <2>4, DeleteIs
    <3>2. i # r
      <4>1. cpt = "delete"
        BY <2>4 DEF DeleteGc
      <4>2. QED
        BY <1>2, <1>4, <1>5, <2>1, <2>2, <3>1, <4>1, SpentCoversNothing
    <3>3. i \in 1..g /\ gc[i].st = "frozen" /\ DOMAIN gc' = 1..(g - 1)
      BY <1>2, <2>2, <3>1 DEF Frozen, Removes, Segs
    <3>4. PICK j \in 1..(g - 1) : gc'[j] = gc[i]
      <4>1. CASE i < r
        <5>1. i \in 1..(g - 1)
          BY <3>1, <3>3, <4>1
        <5>2. QED
          BY <3>1, <4>1, <5>1 DEF Removes
      <4>2. CASE i > r
        <5>1. i - 1 \in 1..(g - 1) /\ i - 1 >= r /\ (i - 1) + 1 = i
          BY <3>1, <3>3, <4>2
        <5>2. QED
          BY <3>1, <5>1 DEF Removes
      <4>3. QED
        BY <3>2, <3>3, <4>1, <4>2
    <3>5. j \in Frozen(gc')
      BY <3>3, <3>4 DEF Frozen
    <3>6. QED
      BY <2>2, <3>4, <3>5
  <2>5. QED
    BY <2>3, <2>4
<1>8. QED
  BY <1>6, <1>7

(***************************************************************************)
(* At boot.                                                                *)
(***************************************************************************)

\* What the boot cycle has left to read shrinks, and what is replayed stays.
LEMMA LeftShrinks ==
    ASSUME Struct, Fresh, [Next]_vars, pbq = "boot", pbq' = "boot"
    PROVE  (\A m \in Msgs : Left(m)' => Left(m)) /\ Range(out) \subseteq Range(out')
<1>1. PICK n \in Nat : Segs(Msgs, cmp, n)
  BY SegTypesHas DEF Struct, Types
<1>2. DOMAIN cmp = 1..n
  BY <1>1 DEF Segs
<1>3. ~WriteData /\ ~RotateData
  <2>1. dq = <<>> /\ ~Active(data)
    BY DEF Struct, Shape
  <2>2. QED
    BY <2>1 DEF WriteData, RotateData, NonEmpty
<1>4. ~StartRead /\ ~Read /\ ~StopRead /\ ~StopGc /\ ~Exit /\ ~Kill /\ ~Boot /\ ~CompactorStops
  BY DEF StartRead, Read, StopRead, StopGc, Exit, Kill, Down, Boot, CompactorStops
<1>5. CASE UNCHANGED <<data, cmp, cpt, files, out>>
  <2>1. Old' = Old
    BY <1>5 DEF Old
  <2>2. QED
    BY <1>5, <2>1 DEF Left
<1>6. CASE WriteGc \/ RotateGc \/ DeleteGc \/ Cancel \/ UNCHANGED vars
  <2>1. UNCHANGED <<data, cmp, cpt, files, out>>
    BY <1>6 DEF WriteGc, RotateGc, DeleteGc, Cancel, vars, segVars, cptVars, histVars
  <2>2. QED
    BY <1>5, <2>1
<1>7. CASE \E k \in Keys, e \in 1..MaxTime : CloseWindow(k, e)
  <2>1. UNCHANGED <<data, cmp, cpt, files, out>>
    BY <1>7 DEF CloseWindow, segVars, cptVars, histVars
  <2>2. QED
    BY <1>5, <2>1
<1>8. CASE WriteCmp \/ RotateCmp
  <2>1. cpt \notin {"snap", "gc"}
    BY <1>8 DEF Fresh, WriteCmp, RotateCmp, NonEmpty
  <2>2. UNCHANGED <<data, out>>
    BY <1>8 DEF WriteCmp, RotateCmp, histVars
  <2>3. QED
    BY <1>8, <2>1, <2>2, CmpWriterHas DEF Left
<1>9. CASE Snapshot \/ ReadGc \/ EndCmpPass \/ EndDataPass \/ EndCycle
  <2>1. Snapshot => cpt = "snap"
    BY DEF Snapshot
  <2>2. QED
    BY <1>9, <2>1, OldStays DEF Left
<1>10. CASE CmpPass \/ DataPass
  <2>1. PICK segs \in {data, cmp} : ReadEntry(segs)
    BY <1>10 DEF CmpPass, DataPass
  <2>2. PICK k : Segs(Msgs, segs, k)
    BY <2>1, SegTypesHas DEF Struct, Types
  <2>3. PICK x : x = segs[First(segs)].es[pos']
    OBVIOUS
  <2>4. Range(out) \subseteq Range(out')
    BY <2>1, <2>2, <2>3, ReadEntryHas
  <2>5. UNCHANGED <<data, cmp, cpt, files>>
    BY <2>1 DEF ReadEntry, segVars
  <2>6. Old' = Old
    BY <2>5 DEF Old
  <2>7. QED
    BY <2>4, <2>5, <2>6 DEF Left
<1>11. CASE SwitchCmp
  <2>1. UNCHANGED <<data, out>>
    BY <1>11 DEF SwitchCmp, histVars
  <2>2. QED
    BY <1>11, <2>1, SwitchCmpHas DEF Left
<1>12. CASE SwitchData
  <2>1. UNCHANGED <<cmp, out>>
    BY <1>12 DEF SwitchData, histVars
  <2>2. QED
    BY <1>12, <2>1, SwitchDataHas DEF Left
<1>13. CASE CompactFails
  <2>1. UNCHANGED <<data, cmp, out>> /\ Old' = 0
    BY <1>13 DEF CompactFails, segVars, Old
  <2>2. \A i \in 1..n : ~(i <= 0)
    OBVIOUS
  <2>3. QED
    BY <1>2, <2>1, <2>2 DEF Left, InUpTo
<1>14. QED
  BY <1>3, <1>4, <1>6, <1>7, <1>8, <1>9, <1>10, <1>11, <1>12, <1>13
     DEF Next, WriterNext, CompactorNext, BoundReached

\* The messages of key k before e that are left to read are second copies of replayed ones.
Gone(k, e) == \A m \in Msgs : Key[m] = k /\ Et[m] < e /\ Left(m) => m \in Range(out)

\* At boot that holds for the events that are not frozen yet.
Closing ==
    pbq = "boot" /\ cpt # "off" =>
        /\ \A x \in Range(gq) : Gone(x.key, x.end)
        /\ \A i \in DOMAIN gc : gc[i].st = "active" => \A x \in Range(gc[i].es) : Gone(x.key, x.end)

LEMMA GoneStays ==
    ASSUME Struct, Fresh, [Next]_vars, pbq = "boot", pbq' = "boot", NEW k, NEW e, Gone(k, e)
    PROVE  Gone(k, e)'
  BY LeftShrinks DEF Gone

\* A pod boots with no event to write, and its GC segment is empty.
LEMMA BootClosing == ASSUME Struct, Boot PROVE Closing'
<1>1. PICK n \in Nat : Segs(Event, gc, n)
  BY SegTypesHas DEF Struct, Types
<1>2. gq' = <<>>
  BY DEF Struct, Shape, Boot
<1>3. Opens(Event, gc, gc', n, clock + 1)
  <2>1. clock + 1 \in 0..MaxClock
    BY WalAssumption DEF Struct, Types, SegTypes, Boot
  <2>2. QED
    BY <1>1, <2>1, OpenMoves DEF Boot
<1>4. /\ DOMAIN gc' = 1..(n + 1) /\ (\A i \in 1..n : gc'[i] = gc[i]) /\ gc'[n + 1].es = <<>>
      /\ \A i \in 1..(n + 1) : i = n + 1 \/ i \in 1..n
  BY <1>3 DEF Opens, Segs
<1>5. \A i \in 1..n : gc[i].st # "active"
  <2>1. ~Active(gc)
    BY DEF Struct, Shape, Boot
  <2>2. \A i \in 1..n : gc[i].st = "active" => i = n
    BY <1>1 DEF Struct, Types, SegTypes, OneActive, Segs
  <2>3. n > 0 => gc[n].st # "active"
    BY <1>1, <2>1, SegsHas
  <2>4. QED
    BY <2>2, <2>3
<1>6. QED
  BY <1>2, <1>4, <1>5, NoEntry DEF Closing

LEMMA BootStays ==
    ASSUME Struct, [Next]_vars, pbq' = "boot", cpt' # "off"
    PROVE  Boot \/ (pbq = "boot" /\ cpt # "off")
<1>1. CASE WriteData \/ RotateData \/ WriteGc \/ RotateGc \/ WriteCmp \/ RotateCmp \/ StopRead \/ StopGc \/ DeleteGc
  BY <1>1 DEF WriteData, RotateData, WriteGc, RotateGc, WriteCmp, RotateCmp, StopRead, StopGc, DeleteGc, cptVars
<1>2. CASE CmpPass \/ DataPass \/ SwitchCmp \/ SwitchData \/ EndCmpPass \/ EndDataPass
  BY <1>2 DEF CmpPass, DataPass, ReadEntry, SwitchCmp, SwitchData, EndCmpPass, EndDataPass
<1>3. CASE Snapshot \/ ReadGc \/ EndCycle \/ CompactorStops \/ CompactFails \/ StartRead \/ Exit \/ Kill
  BY <1>3 DEF Snapshot, ReadGc, EndCycle, CompactorStops, CompactFails, StartRead, Exit, Kill, Down
<1>4. CASE Read \/ Cancel \/ UNCHANGED vars \/ \E k \in Keys, e \in 1..MaxTime : CloseWindow(k, e)
  BY <1>4 DEF Read, Cancel, CloseWindow, cptVars, vars
<1>5. QED
  BY <1>1, <1>2, <1>3, <1>4 DEF Next, WriterNext, CompactorNext, BoundReached

\* The events on their way to the GC writer.
LEMMA GqMoves ==
    ASSUME Struct, [Next]_vars, pbq = "boot", pbq' = "boot"
    PROVE  \/ UNCHANGED gq
           \/ WriteGc
           \/ \E k \in Keys, e \in 1..MaxTime : CloseWindow(k, e)
<1>1. CASE WriteData \/ RotateData \/ RotateGc \/ WriteCmp \/ RotateCmp \/ StopRead \/ StopGc \/ DeleteGc
  BY <1>1 DEF WriteData, RotateData, RotateGc, WriteCmp, RotateCmp, StopRead, StopGc, DeleteGc
<1>2. CASE CmpPass \/ DataPass \/ SwitchCmp \/ SwitchData \/ EndCmpPass \/ EndDataPass
  BY <1>2 DEF CmpPass, DataPass, ReadEntry, SwitchCmp, SwitchData, EndCmpPass, EndDataPass
<1>3. CASE Snapshot \/ ReadGc \/ EndCycle \/ CompactorStops \/ CompactFails \/ StartRead \/ Exit \/ Kill \/ Boot
  BY <1>3 DEF Snapshot, ReadGc, EndCycle, CompactorStops, CompactFails, StartRead, Exit, Kill, Down, Boot
<1>4. CASE Read \/ Cancel \/ UNCHANGED vars
  BY <1>4 DEF Read, Cancel, vars
<1>5. QED
  BY <1>1, <1>2, <1>3, <1>4 DEF Next, WriterNext, CompactorNext, BoundReached

LEMMA ClosingStep == ASSUME Struct, Fresh, Closing, [Next]_vars PROVE Closing'
<1>1. CASE Boot
  BY <1>1, BootClosing
<1>2. CASE ~(pbq' = "boot" /\ cpt' # "off")
  BY <1>2 DEF Closing
<1>3. CASE ~Boot /\ pbq' = "boot" /\ cpt' # "off"
  <2>1. pbq = "boot" /\ cpt # "off"
    BY <1>3, BootStays
  <2>2. PICK n \in Nat : Segs(Event, gc, n)
    BY SegTypesHas DEF Struct, Types
  <2>3. DOMAIN gc = 1..n
    BY <2>2 DEF Segs
  <2>4. \A k, e : Gone(k, e) => Gone(k, e)'
    BY <1>3, <2>1, GoneStays
  <2>5. \A x \in Range(gq) : Gone(x.key, x.end)'
    BY <2>1, <2>4 DEF Closing
  <2>6. \A i \in 1..n : gc[i].st = "active" => \A x \in Range(gc[i].es) : Gone(x.key, x.end)'
    BY <2>1, <2>3, <2>4 DEF Closing
  <2>7. gq \in Seq([key : Keys, end : 1..MaxTime])
    BY DEF Struct, Types, QueueTypes
  <2>8. WriteGc => gq # <<>> /\ Range(gq) = {Head(gq)} \cup Range(gq')
    BY <2>7, SeqTail DEF WriteGc
  <2>9. \A x \in Range(gq') : Gone(x.key, x.end)'
    <3>1. CASE UNCHANGED gq
      BY <2>5, <3>1
    <3>2. CASE WriteGc
      BY <2>5, <2>8, <3>2
    <3>3. CASE \E k \in Keys, e \in 1..MaxTime : CloseWindow(k, e)
      <4>1. PICK k \in Keys, e \in 1..MaxTime : CloseWindow(k, e)
        BY <3>3
      <4>2. Gone(k, e)
        <5> SUFFICES ASSUME NEW m \in Msgs, Key[m] = k, Et[m] < e, Left(m) PROVE m \in Range(out)
          BY DEF Gone
        <5>1. m \in Unreplayed \cup Range(out)
          BY <2>1, LeftListed
        <5>2. Et[m] \in Nat /\ e \in Nat
          BY WalAssumption
        <5>3. m \notin Unreplayed
          BY <4>1, <5>2 DEF CloseWindow
        <5>4. QED
          BY <5>1, <5>3
      <4>3. PICK y \in [key : Keys, end : 1..MaxTime] : y = [key |-> k, end |-> e]
        OBVIOUS
      <4>4. gq' = Append(gq, y)
        BY <4>1, <4>3 DEF CloseWindow
      <4>5. Range(gq') = Range(gq) \cup {y}
        <5>1. PICK S : S = [key : Keys, end : 1..MaxTime]
          OBVIOUS
        <5>2. gq \in Seq(S) /\ y \in S
          BY <2>7, <5>1
        <5>3. QED
          BY <4>4, <5>2, RangeAppend
      <4>6. Gone(y.key, y.end)'
        BY <2>4, <4>2, <4>3
      <4>7. QED
        BY <2>5, <4>5, <4>6
    <3>4. QED
      BY <1>3, <2>1, <3>1, <3>2, <3>3, GqMoves
  <2>10. \A i \in DOMAIN gc' : gc'[i].st = "active" => \A x \in Range(gc'[i].es) : Gone(x.key, x.end)'
    <3>1. CASE UNCHANGED gc
      BY <2>3, <2>6, <3>1
    <3>2. CASE WriteGc
      <4>1. PICK x \in Event : Puts(Event, gc, gc', n, x) /\ x.key = Head(gq).key /\ x.end = Head(gq).end
        BY <2>2, <3>2, WriteGcIs
      <4>2. /\ DOMAIN gc' = 1..n /\ (\A i \in 1..(n - 1) : gc'[i] = gc[i]) /\ gc[n].st = "active" /\ n \in 1..n
            /\ \A i \in 1..n : i = n \/ i \in 1..(n - 1)
        BY <4>1 DEF Puts, Segs
      <4>3. PICK y \in Seq(Event) : gc[n].es = y /\ gc'[n].es = Append(y, x)
        BY <4>1 DEF Puts
      <4>4. Range(gc'[n].es) = Range(gc[n].es) \cup {x}
        BY <4>3, RangeAppend
      <4>5. Gone(x.key, x.end)'
        BY <2>5, <2>8, <3>2, <4>1
      <4>6. \A z \in Range(gc'[n].es) : Gone(z.key, z.end)'
        BY <2>6, <4>2, <4>4, <4>5
      <4>7. QED
        BY <2>6, <4>2, <4>6
    <3>3. CASE RotateGc /\ Rotates(Event, gc, gc', n, clock + 1)
      <4>1. /\ DOMAIN gc' = 1..(n + 1) /\ (\A i \in 1..(n - 1) : gc'[i] = gc[i] /\ i \in 1..n) /\ gc'[n].st = "frozen"
            /\ gc'[n + 1].es = <<>> /\ \A i \in 1..(n + 1) : i = n + 1 \/ i = n \/ i \in 1..(n - 1)
        BY <3>3 DEF Rotates, Segs
      <4>2. QED
        BY <2>6, <4>1, NoEntry
    <3>4. CASE DeleteGc
      BY <2>1, <3>4 DEF DeleteGc, ToDelete
    <3>5. CASE StopGc \/ Exit \/ Kill
      BY <1>3, <2>1, <3>5 DEF StopGc, Exit, Kill, Down
    <3>6. QED
      BY <1>3, <2>2, <3>1, <3>2, <3>3, <3>4, <3>5, GcMoves
  <2>11. QED
    BY <2>9, <2>10 DEF Closing
<1>4. QED
  BY <1>1, <1>2, <1>3

\* What the boot cycle would replay of a retired message is a second copy.
Spared ==
    ~lagged /\ pbq = "boot" /\ cpt \in {"cmp", "data"} =>
        \A m \in retired : Left(m) => Et[m] < oldest[Key[m]] \/ m \in Range(out)

LEMMA SparedStep ==
    ASSUME Struct, Fresh, Events, Kept, Closing, Spared, [Next]_vars
    PROVE  Spared'
<1>1. SUFFICES ASSUME ~lagged', pbq' = "boot", cpt' \in {"cmp", "data"}, NEW m \in retired', Left(m)'
               PROVE  Et[m] < oldest'[Key[m]] \/ m \in Range(out')
  BY DEF Spared
<1>2. ~lagged /\ pbq = "boot" /\ cpt # "off"
  <2>1. ~Boot /\ cpt' # "off"
    BY <1>1 DEF Boot
  <2>2. QED
    BY <1>1, <2>1, LaggedStays, BootStays
<1>3. m \in Msgs
  BY StructStep DEF Struct, Types, RestTypes
<1>4. Left(m) /\ Range(out) \subseteq Range(out')
  BY <1>1, <1>2, <1>3, LeftShrinks
<1>5. PICK g \in Nat : Segs(Event, gc, g)
  BY SegTypesHas DEF Struct, Types
<1>6. DOMAIN gc = 1..g
  BY <1>5 DEF Segs
<1>7. CASE ReadGc
  <2>1. retired' = retired
    BY <1>7 DEF ReadGc, histVars
  <2>2. Copy(m)
    <3>1. PICK c \in Nat : Segs(Msgs, cmp, c)
      BY SegTypesHas DEF Struct, Types
    <3>2. \A i \in DOMAIN cmp : i > 0
      BY <3>1 DEF Segs
    <3>3. QED
      BY <1>4, <3>2 DEF Left, Copy, InUpTo, Holds, InAfter
  <2>3. PICK i \in Frozen(gc) : Covered(gc[i], m)
    BY <1>1, <1>2, <2>1, <2>2 DEF Kept
  <2>4. PICK x \in Range(gc[i].es) : m \in x.covers
    BY <2>3 DEF Covered
  <2>5. x \in Event /\ x.end <= oldest'[x.key]
    BY <1>7, <2>3, <2>4, ReadGcWithin
  <2>6. Key[m] = x.key /\ Et[m] < x.end
    BY <2>3, <2>4 DEF Events, Fits, Frozen
  <2>7. x.end \in Nat /\ Et[m] \in Nat /\ x.key \in Keys
    BY <1>3, <2>5, WalAssumption DEF Event
  <2>8. oldest'[x.key] \in Nat
    BY <2>7, StructStep, WalAssumption DEF Struct, Types, CptTypes
  <2>9. QED
    BY <2>5, <2>6, <2>7, <2>8
<1>8. CASE ~ReadGc
  <2>1. oldest' = oldest
    <3>1. ~EndCycle /\ ~Exit /\ ~Kill
      BY <1>1 DEF EndCycle, Exit, Kill, Down
    <3>2. QED
      BY <1>8, <3>1, CycleKnows
  <2>2. cpt \in {"cmp", "data"}
    <3>1. ~Snapshot /\ ~EndDataPass /\ cpt' \notin {"snap", "wait", "off"}
      BY <1>1 DEF Snapshot, EndDataPass
    <3>2. EndCmpPass \/ SwitchCmp \/ SwitchData => cpt \in {"cmp", "data"}
      BY DEF EndCmpPass, SwitchCmp, SwitchData
    <3>3. QED
      BY <1>1, <1>8, <3>1, <3>2, CptMoves
  <2>3. CASE m \in retired
    BY <1>2, <1>4, <2>1, <2>2, <2>3 DEF Spared
  <2>4. CASE m \notin retired
    <3>1. RotateGc \/ StopGc
      BY <1>1, <2>4, RetiredMoves
    <3>2. g > 0 /\ gc[g].st = "active" /\ retired' = retired \cup {y \in Msgs : Covered(gc[g], y)}
      BY <1>5, <3>1, RetiringIs
    <3>3. g \in DOMAIN gc /\ Covered(gc[g], m)
      BY <1>1, <1>6, <2>4, <3>2
    <3>4. PICK x \in Range(gc[g].es) : m \in x.covers
      BY <3>3 DEF Covered
    <3>5. Key[m] = x.key /\ Et[m] < x.end
      BY <3>3, <3>4 DEF Events, Fits
    <3>6. Gone(x.key, x.end)
      BY <1>2, <3>2, <3>3, <3>4 DEF Closing
    <3>7. QED
      BY <1>3, <1>4, <3>5, <3>6 DEF Gone
  <2>5. QED
    BY <2>3, <2>4
<1>9. QED
  BY <1>7, <1>8

\* The strengthened invariant.
Retained ==
    /\ InTurn /\ Fresh
    /\ Times /\ Events /\ Before /\ Scan /\ Gate /\ Purged /\ Kept
    /\ Closing /\ Spared

LEMMA InitRetained == ASSUME Init PROVE Retained
<1>1. InTurn /\ Fresh
  BY InitInTurn, InitWhole DEF Whole
<1>2. /\ data = <<>> /\ gc = <<[ts |-> 1, es |-> <<>>, st |-> "active"]>> /\ clock = 1 /\ gq = <<>>
      /\ cpt = "snap" /\ newest = -1 /\ scanned = {} /\ retired = {}
  BY DEF Init
<1>3. DOMAIN data = {} /\ DOMAIN gc = {1} /\ gc[1].ts = 1 /\ gc[1].es = <<>>
  BY <1>2
<1>4. Times
  BY <1>2, <1>3 DEF Times, Rise
<1>5. Events /\ Scan /\ Before /\ Gate
  BY <1>2, <1>3, NoEntry DEF Events, Scan, Before, Gate
<1>6. Purged /\ Kept /\ Spared
  BY <1>2 DEF Purged, Kept, Spared
<1>7. Closing
  BY <1>2, <1>3, NoEntry DEF Closing
<1>8. QED
  BY <1>1, <1>4, <1>5, <1>6, <1>7 DEF Retained

LEMMA RetainedStep == ASSUME Retained, [Next]_vars PROVE Retained'
<1>1. Struct /\ ReadInTurn /\ Tidy /\ Listing
  BY DEF Retained, InTurn
<1>2. InTurn' /\ Fresh'
  BY <1>1, InTurnStep, FreshStep DEF Retained
<1>3. Times' /\ Events' /\ Before'
  BY <1>1, TimesStep, EventsStep, BeforeStep DEF Retained
<1>4. Scan' /\ Gate' /\ Purged'
  BY <1>1, ScanStep, GateStep, PurgedStep DEF Retained
<1>5. Kept'
  BY <1>1, KeptStep DEF Retained
<1>6. Closing' /\ Spared'
  BY <1>1, ClosingStep, SparedStep DEF Retained
<1>7. QED
  BY <1>2, <1>3, <1>4, <1>5, <1>6 DEF Retained

LEMMA OutMoves == ASSUME [Next]_vars PROVE CmpPass \/ DataPass \/ UNCHANGED out \/ out' = <<>>
<1>1. CASE WriteData \/ RotateData \/ WriteGc \/ RotateGc \/ WriteCmp \/ RotateCmp \/ StopRead \/ StopGc \/ DeleteGc
  BY <1>1 DEF WriteData, RotateData, WriteGc, RotateGc, WriteCmp, RotateCmp, StopRead, StopGc, DeleteGc, histVars
<1>2. CASE Snapshot \/ ReadGc \/ EndCmpPass \/ EndDataPass \/ EndCycle \/ SwitchCmp \/ SwitchData
  BY <1>2 DEF Snapshot, ReadGc, EndCmpPass, EndDataPass, EndCycle, SwitchCmp, SwitchData, histVars
<1>3. CASE CompactorStops \/ CompactFails \/ Exit \/ Kill \/ StartRead \/ Boot
  BY <1>3 DEF CompactorStops, CompactFails, Exit, Kill, Down, StartRead, Boot, histVars
<1>4. CASE Read \/ Cancel \/ UNCHANGED vars \/ \E k \in Keys, e \in 1..MaxTime : CloseWindow(k, e)
  BY <1>4 DEF Read, Cancel, CloseWindow, vars, histVars
<1>5. QED
  BY <1>1, <1>2, <1>3, <1>4 DEF Next, WriterNext, CompactorNext, BoundReached

\* An entry that a pass replays is one it had left to read.
LEMMA PassLeft ==
    ASSUME Struct, CmpPass \/ DataPass
    PROVE  \E m \in Msgs : /\ Left(m) /\ cpt \in {"cmp", "data"}
                           /\ \/ pbq = "boot" /\ ShouldRetain(m) /\ out' = Append(out, m)
                              \/ out' = out
<1>1. ASSUME NEW segs, NEW n, Segs(Msgs, segs, n), ReadEntry(segs)
      PROVE  \E m \in Msgs : /\ m \in Range(segs[First(segs)].es)
                             /\ \/ pbq = "boot" /\ ShouldRetain(m) /\ out' = Append(out, m)
                                \/ out' = out
  <2>1. PICK m : m = segs[First(segs)].es[pos']
    OBVIOUS
  <2>2. m \in Msgs /\ m \in Range(segs[First(segs)].es)
    BY <1>1, <2>1, ReadEntryHas
  <2>3. (pbq = "boot" /\ ShouldRetain(m) /\ out' = Append(out, m)) \/ out' = out
    BY <1>1, <2>1 DEF ReadEntry
  <2>4. QED
    BY <2>2, <2>3
<1>2. CASE CmpPass
  <2>1. PICK n \in Nat : Segs(Msgs, cmp, n)
    BY SegTypesHas DEF Struct, Types
  <2>2. cpt = "cmp" /\ ReadEntry(cmp) /\ Listed(cmp) # {}
    BY <1>2 DEF CmpPass, ReadEntry
  <2>3. First(cmp) \in DOMAIN cmp /\ First(cmp) <= Old
    BY <2>1, <2>2, FirstIs DEF Segs, Old
  <2>4. \A m : m \in Range(cmp[First(cmp)].es) => Left(m)
    BY <2>3 DEF Left, InUpTo
  <2>5. QED
    BY <1>1, <2>1, <2>2, <2>4
<1>3. CASE DataPass
  <2>1. PICK n \in Nat : Segs(Msgs, data, n)
    BY SegTypesHas DEF Struct, Types
  <2>2. cpt = "data" /\ ReadEntry(data) /\ Listed(data) # {}
    BY <1>3 DEF DataPass, ReadEntry
  <2>3. First(data) \in DOMAIN data /\ First(data) > 0
    <3>1. First(data) \in 1..n
      BY <2>1, <2>2, FirstIs
    <3>2. QED
      BY <2>1, <3>1 DEF Segs
  <2>4. \A m : m \in Range(data[First(data)].es) => Left(m)
    BY <2>3 DEF Left, Holds, InAfter
  <2>5. QED
    BY <1>1, <2>1, <2>2, <2>4
<1>4. QED
  BY <1>2, <1>3

\* A message that was written before a GC event covering it is not replayed once the event is
\* frozen, kills and file errors included, for every number of segments, keys and window ends:
\* delete_gc_files removes a GC segment only when every data segment its events can cover
\* entries of was compacted with them, so that whatever is still stored of a retired message
\* is covered by a GC segment that the next boot reads.  Excepted are second copies, left by a
\* kill, of what was replayed since the boot, and runs in which a cycle overtakes the
\* compaction writer.
THEOREM WalRetiredNotReplayed == Spec => RetiredNotReplayed
<1>1. Init => Retained
  BY InitRetained
<1>2. Retained /\ [Next]_vars => Retained'
  BY RetainedStep
<1>3. Retained /\ [Next]_vars =>
        [~lagged /\ Len(out') > Len(out) => Last(out') \notin retired \/ Contains(out, Last(out'))]_vars
  <2>1. SUFFICES ASSUME Retained, [Next]_vars, ~lagged, Len(out') > Len(out), Last(out') \in retired
                 PROVE  Contains(out, Last(out'))
    OBVIOUS
  <2>2. Struct /\ out \in Seq(Msgs)
    BY <2>1 DEF Retained, InTurn, Struct, Types, RestTypes
  <2>3. Len(out) \in Nat
    BY <2>2
  <2>4. CmpPass \/ DataPass
    <3>1. out' # out /\ out' # <<>>
      BY <2>1, <2>3
    <3>2. QED
      BY <2>1, <3>1, OutMoves
  <2>5. PICK m \in Msgs : Left(m) /\ cpt \in {"cmp", "data"}
                          /\ ((pbq = "boot" /\ ShouldRetain(m) /\ out' = Append(out, m)) \/ out' = out)
    BY <2>2, <2>4, PassLeft
  <2>6. pbq = "boot" /\ ShouldRetain(m) /\ Last(out') = m
    <3>1. out' # out
      BY <2>1, <2>3
    <3>2. pbq = "boot" /\ ShouldRetain(m) /\ out' = Append(out, m)
      BY <2>5, <3>1
    <3>3. QED
      BY <2>2, <3>2, LastAppend
  <2>7. ~(Et[m] < oldest[Key[m]])
    <3>1. Et[m] \in Nat /\ oldest[Key[m]] \in Nat
      BY <2>2, WalAssumption DEF Struct, Types, CptTypes
    <3>2. QED
      BY <2>6, <3>1 DEF ShouldRetain
  <2>8. m \in Range(out)
    BY <2>1, <2>5, <2>6, <2>7 DEF Retained, Spared
  <2>9. \E i \in 1..Len(out) : out[i] = m
    BY <2>2, <2>8, SeqRange
  <2>10. QED
    BY <2>6, <2>9 DEF Contains
<1>4. QED
  BY <1>1, <1>2, <1>3, PTL DEF Spec, RetiredNotReplayed
=============================================================================
