--------------------------- MODULE TimelineProofs ---------------------------
(***************************************************************************)
(* Theorems about Timeline, for every capacity, every set of offsets and   *)
(* every set of watermarks.  PutCases says what put does to each position  *)
(* of the queue; everything else follows from it.                          *)
(***************************************************************************)
EXTENDS Timeline, WellFoundedInduction, TLAPS

\* put, position by position.
LEMMA PutCases ==
    ASSUME NEW s \in Seq(Entry), Len(s) = Capacity, NEW node \in Entry
    PROVE  /\ Put(s, node) \in Seq(Entry)
           /\ Len(Put(s, node)) = Capacity
           /\ Advances(s, node) =>
                /\ Put(s, node)[1] = node
                /\ \A i \in 2..Capacity : Put(s, node)[i] = s[i - 1]
           /\ ~Advances(s, node) /\ RaisesHead(s, node) =>
                /\ Put(s, node)[1].offset = s[1].offset
                /\ Put(s, node)[1].watermark = node.watermark
                /\ \A i \in 2..Capacity : Put(s, node)[i] = s[i]
           /\ ~Advances(s, node) /\ ~RaisesHead(s, node) => Put(s, node) = s
<1> USE CapacityAssumption
<1>0. s[1] \in Entry
  OBVIOUS
<1>1. CASE Advances(s, node)
  <2> DEFINE t == <<node>> \o s
  <2>1. t \in Seq(Entry) /\ Len(t) = Capacity + 1
    OBVIOUS
  <2>2. t[1] = node /\ \A i \in 2..Capacity : t[i] = s[i - 1]
    OBVIOUS
  <2>3. Put(s, node) = SubSeq(t, 1, Capacity)
    <3>0. ~RaisesHead(s, node)
      BY <1>0, <1>1 DEF Advances, RaisesHead, Entry
    <3>1. Put(s, node) = Trim(t)
      BY <1>1, <3>0 DEF Put, PushFront
    <3>2. Trim(t) = SubSeq(t, 1, Capacity)
      BY <2>1 DEF Trim
    <3>3. QED
      BY <3>1, <3>2
  <2> HIDE DEF t
  <2>4. /\ SubSeq(t, 1, Capacity) \in Seq(Entry)
        /\ Len(SubSeq(t, 1, Capacity)) = Capacity
        /\ \A i \in 1..Capacity : SubSeq(t, 1, Capacity)[i] = t[i]
    BY <2>1
  <2>5. QED
    BY <1>1, <2>2, <2>3, <2>4
<1>2. CASE ~Advances(s, node) /\ RaisesHead(s, node)
  <2> DEFINE t == [s EXCEPT ![1] = [@ EXCEPT !.watermark = node.watermark]]
  <2>1. t \in Seq(Entry) /\ Len(t) = Capacity
    <3>1. [s[1] EXCEPT !.watermark = node.watermark] \in Entry
      BY <1>0 DEF Entry
    <3>2. QED
      BY <3>1
  <2>2. /\ t[1].offset = s[1].offset
        /\ t[1].watermark = node.watermark
        /\ \A i \in 2..Capacity : t[i] = s[i]
    BY <1>0 DEF Entry
  <2>3. Put(s, node) = t
    <3>1. Put(s, node) = Trim(t)
      BY <1>2 DEF Put
    <3>2. Trim(t) = t
      BY <2>1 DEF Trim
    <3>3. QED
      BY <3>1, <3>2
  <2>4. QED
    BY <1>2, <2>1, <2>2, <2>3
<1>3. CASE ~Advances(s, node) /\ ~RaisesHead(s, node)
  <2>1. Put(s, node) = Trim(s)
    BY <1>3 DEF Put
  <2>2. Trim(s) = s
    BY DEF Trim
  <2>3. QED
    BY <1>3, <2>1, <2>2
<1>4. QED
  BY <1>1, <1>2, <1>3

\* A non-empty set of positions has a first one.
LEMMA FirstExists ==
    ASSUME NEW T, T \subseteq Nat, T # {}
    PROVE  \E i \in T : \A j \in T : i <= j
<1>1. PICK x \in T : \A y \in T : ~(<<y, x>> \in OpToRel(<, Nat))
  BY WFMin, NatLessThanWellFounded, Zenon
<1>2. \A y \in T : ~(y < x)
  BY <1>1 DEF OpToRel
<1>3. QED
  BY <1>2

\* The position get_event_time finds, and its watermark.
LEMMA EventTimeFound ==
    ASSUME NEW s \in Seq(Entry), NEW o \in Int
    PROVE  \/ Before(s, o) = {} /\ GetEventTime(s, o) = -1
           \/ \E i \in Before(s, o) :
                /\ GetEventTime(s, o) = s[i].watermark
                /\ \A j \in Before(s, o) : i <= j
<1>1. CASE Before(s, o) = {}
  BY <1>1 DEF GetEventTime
<1>2. CASE Before(s, o) # {}
  <2>1. Before(s, o) \subseteq Nat
    BY DEF Before
  <2>2. \E i \in Before(s, o) : \A j \in Before(s, o) : i <= j
    BY <1>2, <2>1, FirstExists
  <2> DEFINE f == CHOOSE i \in Before(s, o) : \A j \in Before(s, o) : i <= j
  <2>3. f \in Before(s, o) /\ \A j \in Before(s, o) : f <= j
    BY <2>2
  <2>4. GetEventTime(s, o) = s[f].watermark
    BY <1>2 DEF GetEventTime
  <2>5. QED
    BY <2>3, <2>4
<1>3. QED
  BY <1>1, <1>2

\* Every entry is a default one or was put.
EntriesPublished ==
    \A i \in 1..Len(tl) :
        \/ tl[i].offset = -1 /\ tl[i].watermark = -1
        \/ <<tl[i].offset, tl[i].watermark>> \in puts

IInv == TypeOK /\ Sorted /\ EntriesPublished

\* A WMB is an entry of a timeline.
LEMMA WMBIsEntry == WMB \subseteq Entry
<1>1. Offsets \subseteq Int /\ Watermarks \subseteq Int
  BY TimelineAssumption
<1>2. QED
  BY <1>1, Zenon DEF WMB, Entry

\* The new timeline satisfies the invariant.
LEMMA InvInit == Init => IInv
<1> SUFFICES ASSUME Init PROVE IInv
  OBVIOUS
<1>1. DefaultWMB \in Entry /\ DefaultWMB.offset = -1 /\ DefaultWMB.watermark = -1
  BY DEF DefaultWMB, Entry
<1>2. tl \in Seq(Entry) /\ Len(tl) = Capacity /\ \A i \in 1..Capacity : tl[i] = DefaultWMB
  BY <1>1, CapacityAssumption DEF Init, NewTimeline
<1>3. TypeOK
  BY <1>2 DEF Init, TypeOK
<1>4. Sorted /\ EntriesPublished
  BY <1>1, <1>2, CapacityAssumption DEF Sorted, EntriesPublished
<1>5. QED
  BY <1>3, <1>4 DEF IInv

\* put keeps the order and stores only what was put.
LEMMA InvStep ==
    ASSUME IInv, [Next]_vars
    PROVE  IInv'
<1> USE CapacityAssumption
<1>1. CASE UNCHANGED vars
  BY <1>1 DEF IInv, TypeOK, Sorted, EntriesPublished, vars
<1>2. ASSUME NEW node \in WMB, tl' = Put(tl, node), puts' = puts \cup {<<node.offset, node.watermark>>}
      PROVE  IInv'
  <2>0. node \in Entry /\ node.offset \in Offsets /\ node.watermark \in Watermarks
    BY WMBIsEntry DEF WMB
  <2>1. tl \in Seq(Entry) /\ Len(tl) = Capacity
    BY DEF IInv, TypeOK
  <2>2. TypeOK'
    <3>1. Put(tl, node) \in Seq(Entry) /\ Len(Put(tl, node)) = Capacity
      BY <2>0, <2>1, PutCases
    <3>2. puts' \subseteq Offsets \X Watermarks
      BY <1>2, <2>0 DEF IInv, TypeOK
    <3>3. QED
      BY <1>2, <3>1, <3>2 DEF TypeOK
  <2>3. \A i \in 1..Capacity : tl[i].offset \in Int /\ tl[i].watermark \in Int
    <3>1. \A i \in 1..Capacity : tl[i] \in Entry
      BY <2>1
    <3>2. QED
      BY <3>1 DEF Entry
  <2>4. node.offset \in Nat /\ node.watermark \in Nat
    BY <2>0, TimelineAssumption
  <2>5. Len(tl') = Capacity
    BY <2>2 DEF TypeOK
  <2>a. /\ Advances(tl, node) => /\ Put(tl, node)[1] = node
                                 /\ \A i \in 2..Capacity : Put(tl, node)[i] = tl[i - 1]
        /\ ~Advances(tl, node) /\ RaisesHead(tl, node) =>
             /\ Put(tl, node)[1].offset = tl[1].offset
             /\ Put(tl, node)[1].watermark = node.watermark
             /\ \A i \in 2..Capacity : Put(tl, node)[i] = tl[i]
        /\ ~Advances(tl, node) /\ ~RaisesHead(tl, node) => Put(tl, node) = tl
    BY <2>0, <2>1, PutCases, ZenonT(60)
  <2>6. CASE Advances(tl, node)
    <3>1. tl'[1] = node /\ \A i \in 2..Capacity : tl'[i] = tl[i - 1]
      BY <1>2, <2>6, <2>a, Zenon
    <3>2. Sorted'
      <4> SUFFICES ASSUME NEW i \in 1..Capacity, NEW j \in 1..Capacity, i < j
                   PROVE  /\ tl'[i].watermark >= tl'[j].watermark
                          /\ \/ tl'[i].offset > tl'[j].offset
                             \/ tl'[i].offset = -1 /\ tl'[j].offset = -1
        BY <2>5 DEF Sorted
      <4>1. j - 1 \in 1..Capacity /\ tl'[j] = tl[j - 1]
        BY <3>1
      <4>2. \A k \in 1..Capacity : k <= j - 1 =>
              /\ tl[k].watermark >= tl[j - 1].watermark
              /\ k < j - 1 => \/ tl[k].offset > tl[j - 1].offset
                              \/ tl[k].offset = -1 /\ tl[j - 1].offset = -1
        BY <2>1, <2>3, <4>1 DEF Sorted, IInv
      <4>3. CASE i = 1
        BY <2>3, <2>4, <2>6, <3>1, <4>1, <4>2, <4>3 DEF Advances
      <4>4. CASE i # 1
        <5>1. i - 1 \in 1..Capacity /\ i - 1 < j - 1 /\ tl'[i] = tl[i - 1]
          BY <3>1, <4>4
        <5>2. QED
          BY <4>1, <4>2, <5>1
      <4>5. QED
        BY <4>3, <4>4
    <3>3. EntriesPublished'
      <4> SUFFICES ASSUME NEW i \in 1..Capacity
                   PROVE  \/ tl'[i].offset = -1 /\ tl'[i].watermark = -1
                          \/ <<tl'[i].offset, tl'[i].watermark>> \in puts'
        BY <2>5 DEF EntriesPublished
      <4>1. CASE i = 1
        BY <1>2, <3>1, <4>1
      <4>2. CASE i # 1
        <5>1. i - 1 \in 1..Capacity /\ tl'[i] = tl[i - 1]
          BY <3>1, <4>2
        <5>2. QED
          BY <1>2, <2>1, <5>1 DEF EntriesPublished, IInv
      <4>3. QED
        BY <4>1, <4>2
    <3>4. QED
      BY <2>2, <3>2, <3>3 DEF IInv
  <2>7. CASE ~Advances(tl, node) /\ RaisesHead(tl, node)
    <3>1. /\ tl'[1].offset = tl[1].offset
          /\ tl'[1].watermark = node.watermark
          /\ \A i \in 2..Capacity : tl'[i] = tl[i]
      BY <1>2, <2>7, <2>a, Zenon
    <3>2. Sorted'
      <4> SUFFICES ASSUME NEW i \in 1..Capacity, NEW j \in 1..Capacity, i < j
                   PROVE  /\ tl'[i].watermark >= tl'[j].watermark
                          /\ \/ tl'[i].offset > tl'[j].offset
                             \/ tl'[i].offset = -1 /\ tl'[j].offset = -1
        BY <2>5 DEF Sorted
      <4>1. tl'[j] = tl[j]
        BY <3>1
      <4>2. /\ tl[i].watermark >= tl[j].watermark
            /\ tl[i].offset > tl[j].offset \/ (tl[i].offset = -1 /\ tl[j].offset = -1)
        BY <2>1 DEF Sorted, IInv
      <4>3. CASE i = 1
        BY <2>3, <2>4, <2>7, <3>1, <4>1, <4>2, <4>3 DEF RaisesHead
      <4>4. CASE i # 1
        BY <3>1, <4>1, <4>2, <4>4
      <4>5. QED
        BY <4>3, <4>4
    <3>3. EntriesPublished'
      <4> SUFFICES ASSUME NEW i \in 1..Capacity
                   PROVE  \/ tl'[i].offset = -1 /\ tl'[i].watermark = -1
                          \/ <<tl'[i].offset, tl'[i].watermark>> \in puts'
        BY <2>5 DEF EntriesPublished
      <4>1. CASE i = 1
        BY <1>2, <2>7, <3>1, <4>1 DEF RaisesHead
      <4>2. CASE i # 1
        <5>1. tl'[i] = tl[i]
          BY <3>1, <4>2
        <5>2. QED
          BY <1>2, <2>1, <5>1 DEF EntriesPublished, IInv
      <4>3. QED
        BY <4>1, <4>2
    <3>4. QED
      BY <2>2, <3>2, <3>3 DEF IInv
  <2>8. CASE ~Advances(tl, node) /\ ~RaisesHead(tl, node)
    <3>1. tl' = tl
      BY <1>2, <2>8, <2>a, Zenon
    <3>2. QED
      BY <1>2, <2>2, <3>1 DEF Sorted, EntriesPublished, IInv
  <2>9. QED
    BY <2>6, <2>7, <2>8
<1>3. QED
  BY <1>1, <1>2 DEF Next

\* Type correctness, the order of the entries and where they come from.
THEOREM Invariance == Spec => []IInv
<1>1. Init => IInv
  BY InvInit
<1>2. IInv /\ [Next]_vars => IInv'
  BY InvStep
<1>3. QED
  BY <1>1, <1>2, PTL DEF Spec

\* The timeline keeps its length and its types whatever is put (put, new).
THEOREM TypeCorrect == Spec => []TypeOK
<1>1. IInv => TypeOK
  BY DEF IInv
<1>2. QED
  BY <1>1, Invariance, PTL

\* The entries are always sorted, for every order of arrival of the WMBs (put).
THEOREM SortedAlways == Spec => []Sorted
<1>1. IInv => Sorted
  BY DEF IInv
<1>2. QED
  BY <1>1, Invariance, PTL

\* get_event_time answers with a watermark published for a smaller offset.
THEOREM AnswerSound == Spec => []AnswerWasPublished
<1>1. ASSUME IInv, NEW o \in Offsets, GetEventTime(tl, o) # -1
      PROVE  \E p \in puts : p[1] < o /\ p[2] = GetEventTime(tl, o)
  <2>1. tl \in Seq(Entry) /\ o \in Int
    BY <1>1, TimelineAssumption DEF IInv, TypeOK
  <2>2. PICK i \in Before(tl, o) : GetEventTime(tl, o) = tl[i].watermark
    BY <1>1, <2>1, EventTimeFound
  <2>3. i \in 1..Len(tl) /\ tl[i].offset < o
    BY <2>2 DEF Before
  <2>4. <<tl[i].offset, tl[i].watermark>> \in puts
    BY <1>1, <2>2, <2>3 DEF IInv, EntriesPublished
  <2>5. QED
    BY <2>2, <2>3, <2>4
<1>2. IInv => AnswerWasPublished
  BY <1>1 DEF AnswerWasPublished
<1>3. QED
  BY <1>2, Invariance, PTL
\* What a put does to the head: nothing falls.
LEMMA HeadStep ==
    ASSUME IInv, NEW node \in WMB
    PROVE  /\ Put(tl, node)[1].offset >= tl[1].offset
           /\ Put(tl, node)[1].watermark >= tl[1].watermark
<1>0. tl \in Seq(Entry) /\ Len(tl) = Capacity /\ node \in Entry
  BY WMBIsEntry DEF IInv, TypeOK
<1>1. tl[1] \in Entry
  BY <1>0, CapacityAssumption
<1>2. tl[1].offset \in Int /\ tl[1].watermark \in Int /\ node.offset \in Int /\ node.watermark \in Int
  BY <1>0, <1>1 DEF Entry
<1>3. CASE Advances(tl, node)
  <2>1. Put(tl, node)[1] = node
    BY <1>0, <1>3, PutCases
  <2>2. QED
    BY <1>2, <1>3, <2>1 DEF Advances
<1>4. CASE ~Advances(tl, node) /\ RaisesHead(tl, node)
  <2>1. Put(tl, node)[1].offset = tl[1].offset /\ Put(tl, node)[1].watermark = node.watermark
    BY <1>0, <1>4, PutCases
  <2>2. QED
    BY <1>2, <1>4, <2>1 DEF RaisesHead
<1>5. CASE ~Advances(tl, node) /\ ~RaisesHead(tl, node)
  <2>1. Put(tl, node) = tl
    BY <1>0, <1>5, PutCases
  <2>2. QED
    BY <1>2, <2>1
<1>6. QED
  BY <1>3, <1>4, <1>5

\* The head's offset and watermark never fall (put, get_head_wmb).
THEOREM HeadMonotone == Spec => HeadNeverFalls
<1>1. ASSUME IInv, [Next]_vars
      PROVE  [/\ HeadWMB(tl').offset >= HeadWMB(tl).offset
              /\ HeadWMB(tl').watermark >= HeadWMB(tl).watermark]_vars
  <2>1. CASE UNCHANGED vars
    BY <2>1
  <2>2. ASSUME NEW node \in WMB, tl' = Put(tl, node)
        PROVE  /\ HeadWMB(tl').offset >= HeadWMB(tl).offset
               /\ HeadWMB(tl').watermark >= HeadWMB(tl).watermark
    BY <1>1, <2>2, HeadStep DEF HeadWMB
  <2>3. QED
    BY <1>1, <2>1, <2>2 DEF Next
<1>2. QED
  BY <1>1, Invariance, PTL DEF Spec, HeadNeverFalls

\* What a put does to the answer for any offset: it rises, or the entry is forgotten.
LEMMA AnswerStep ==
    ASSUME IInv, NEW node \in WMB, NEW o \in Offsets
    PROVE  \/ GetEventTime(Put(tl, node), o) >= GetEventTime(tl, o)
           \/ GetEventTime(Put(tl, node), o) = -1
<1> DEFINE r == Put(tl, node)
<1>0. tl \in Seq(Entry) /\ Len(tl) = Capacity /\ node \in Entry /\ o \in Nat
  BY WMBIsEntry, TimelineAssumption DEF IInv, TypeOK
<1>1. r \in Seq(Entry) /\ Len(r) = Capacity
  BY <1>0, PutCases
<1>2. /\ \A i \in 1..Capacity : tl[i].offset \in Int /\ tl[i].watermark \in Int
      /\ \A i \in 1..Capacity : r[i].offset \in Int /\ r[i].watermark \in Int
      /\ node.offset \in Int /\ node.watermark \in Int
  <2>1. \A i \in 1..Capacity : tl[i] \in Entry /\ r[i] \in Entry
    BY <1>0, <1>1
  <2>2. QED
    BY <1>0, <2>1 DEF Entry
<1>3. \A i, j \in 1..Capacity : i < j =>
        /\ tl[i].watermark >= tl[j].watermark
        /\ tl[i].offset >= tl[j].offset
  BY <1>0, <1>2 DEF IInv, Sorted
<1>4. \A i \in 1..Capacity : tl[i].watermark >= -1
  <2>1. \A p \in puts : p[2] \in Nat
    BY TimelineAssumption DEF IInv, TypeOK
  <2>2. \A i \in 1..Capacity : tl[i].watermark = -1 \/ <<tl[i].offset, tl[i].watermark>> \in puts
    BY <1>0 DEF IInv, EntriesPublished
  <2>3. \A i \in 1..Capacity : tl[i].watermark = -1 \/ tl[i].watermark \in Nat
    BY <2>1, <2>2
  <2>4. QED
    BY <2>3
<1>5. SUFFICES ASSUME GetEventTime(r, o) # -1
               PROVE  GetEventTime(r, o) >= GetEventTime(tl, o)
  OBVIOUS
<1> HIDE DEF r
<1>6. PICK i \in Before(r, o) :
        GetEventTime(r, o) = r[i].watermark /\ \A j \in Before(r, o) : i <= j
  BY <1>0, <1>1, <1>5, EventTimeFound
<1>7. i \in 1..Capacity /\ r[i].offset < o /\ \A j \in 1..Capacity : r[j].offset < o => i <= j
  BY <1>1, <1>6 DEF Before
<1>c. Capacity \in Nat /\ Capacity >= 1
  BY CapacityAssumption
<1>8. CASE Advances(tl, node)
  <2>1. r[1] = node /\ \A k \in 2..Capacity : r[k] = tl[k - 1]
    BY <1>0, <1>8, PutCases DEF r
  <2>2. CASE Before(tl, o) = {}
    <3>1. i = 1
      BY <1>0, <1>7, <2>1, <2>2 DEF Before
    <3>2. node.watermark >= -1
      BY <1>2, <1>4, <1>8, CapacityAssumption DEF Advances
    <3>3. QED
      BY <1>6, <2>1, <2>2, <3>1, <3>2 DEF GetEventTime
  <2>3. ASSUME NEW m \in Before(tl, o), GetEventTime(tl, o) = tl[m].watermark,
               \A j \in Before(tl, o) : m <= j
        PROVE  GetEventTime(r, o) >= GetEventTime(tl, o)
    <3>1. m \in 1..Capacity /\ tl[m].offset < o
      BY <1>0, <2>3 DEF Before
    <3>2. CASE i = 1
      <4>1. node.watermark >= tl[1].watermark /\ tl[1].watermark >= tl[m].watermark
        BY <1>2, <1>3, <1>8, <3>1, CapacityAssumption DEF Advances
      <4>2. QED
        BY <1>2, <1>6, <2>1, <2>3, <3>1, <3>2, <4>1, CapacityAssumption
    <3>3. CASE i # 1
      <4>1. i - 1 \in 1..Capacity /\ r[i] = tl[i - 1]
        BY <1>c, <1>7, <2>1, <3>3
      <4>2. i <= m + 1
        <5>1. CASE m + 1 > Capacity
          BY <1>c, <1>7, <3>1, <5>1
        <5>2. CASE m + 1 <= Capacity
          <6>1. m + 1 \in 2..Capacity /\ r[m + 1] = tl[m]
            BY <1>c, <2>1, <3>1, <5>2
          <6>2. QED
            BY <1>c, <1>7, <3>1, <6>1
        <5>3. QED
          BY <1>c, <3>1, <5>1, <5>2
      <4>3. QED
        <5>1. i - 1 = m \/ i - 1 < m
          BY <1>c, <1>7, <3>1, <4>2
        <5>2. tl[i - 1].watermark >= tl[m].watermark
          BY <1>2, <1>3, <3>1, <4>1, <5>1
        <5>3. QED
          BY <1>6, <2>3, <4>1, <5>2
    <3>4. QED
      BY <3>2, <3>3
  <2>4. QED
    BY <1>0, <2>2, <2>3, EventTimeFound
<1>9. CASE ~Advances(tl, node) /\ RaisesHead(tl, node)
  <2>1. /\ r[1].offset = tl[1].offset
        /\ r[1].watermark >= tl[1].watermark
        /\ \A k \in 2..Capacity : r[k] = tl[k]
    <3>1. /\ r[1].offset = tl[1].offset
          /\ r[1].watermark = node.watermark
          /\ \A k \in 2..Capacity : r[k] = tl[k]
      BY <1>0, <1>9, PutCases DEF r
    <3>2. QED
      BY <1>c, <1>2, <1>9, <3>1 DEF RaisesHead
  <2>2. i \in Before(tl, o) /\ \A j \in Before(tl, o) : i <= j
    <3>1. \A k \in 1..Capacity : r[k].offset = tl[k].offset
      BY <1>c, <2>1
    <3>2. QED
      BY <1>0, <1>7, <3>1 DEF Before
  <2>3. GetEventTime(tl, o) = tl[i].watermark
    <3>1. PICK m \in Before(tl, o) :
            GetEventTime(tl, o) = tl[m].watermark /\ \A j \in Before(tl, o) : m <= j
      BY <1>0, <2>2, EventTimeFound
    <3>2. m \in Int /\ i \in Int /\ m <= i /\ i <= m
      BY <1>7, <2>2, <3>1 DEF Before
    <3>3. QED
      BY <3>1, <3>2
  <2>4. QED
    BY <1>2, <1>6, <1>7, <2>1, <2>3
<1>10. CASE ~Advances(tl, node) /\ ~RaisesHead(tl, node)
  <2>1. r = tl
    BY <1>0, <1>10, PutCases DEF r
  <2>2. QED
    BY <1>2, <1>6, <1>7, <2>1
<1>11. QED
  BY <1>8, <1>9, <1>10

\* The answer for an offset never falls unless its entry has left the timeline (put,
\* get_event_time).
THEOREM AnswersMonotone == Spec => AnswersNeverFall
<1>1. ASSUME IInv, [Next]_vars
      PROVE  [\A o \in Offsets :
                \/ GetEventTime(tl', o) >= GetEventTime(tl, o)
                \/ GetEventTime(tl', o) = -1]_vars
  <2>1. CASE UNCHANGED vars
    BY <2>1
  <2>2. ASSUME NEW node \in WMB, tl' = Put(tl, node)
        PROVE  \A o \in Offsets :
                 \/ GetEventTime(tl', o) >= GetEventTime(tl, o)
                 \/ GetEventTime(tl', o) = -1
    BY <1>1, <2>2, AnswerStep
  <2>3. QED
    BY <1>1, <2>1, <2>2 DEF Next
<1>2. QED
  BY <1>1, Invariance, PTL DEF Spec, AnswersNeverFall
=============================================================================
