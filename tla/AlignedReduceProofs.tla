------------------------ MODULE AlignedReduceProofs ------------------------
(***************************************************************************)
(* Proofs about AlignedReduce, for every input, window length, slide,      *)
(* lateness, channel capacity and number of faults.                        *)
(***************************************************************************)
EXTENDS AlignedReduce, FiniteSetTheorems, WellFoundedInduction, TLAPS

(***************************************************************************)
(* What depends on the input alone.  Items are consumed in the order they  *)
(* were read, so the watermark a message is judged by is its own, and      *)
(* whether it is dropped does not depend on the life it is consumed in.    *)
(***************************************************************************)

X(m) == Larger(-1, input[m].wm)
Accept(m) == input[m].typ = "data" /\ ~Drops(m, X(m))

\* The items not read yet, and the items on their way to the reducer.
Unread == (nread + 1)..Len(input)
ToCome == Range(chan) \cup Range(replay)

\* A message that the next boot, or the last one, reads from the WAL.
Logged(m) == m \in 1..nread /\ m \notin gone /\ Accept(m) /\ input[m].et >= gcEnd

\* The logged messages of a window.
Full(w) == {m \in 1..nread : Logged(m) /\ w \in WindowsOf(m)}

Increasing(s) == \A i, j \in DOMAIN s : i < j => s[i] < s[j]

(***************************************************************************)
(* The parts of the inductive invariant.                                   *)
(***************************************************************************)

TaskState == [st : {"run", "failed", "dead"}, ms : Seq(Nat)]
Closing == [w : Int, ms : Seq(Nat), st : {"udf", "some", "written"}]
File == [ws : SUBSET Int, maxDel : Int]

Types ==
    /\ input \in Inputs /\ kind \in Kinds
    /\ nread \in 0..Len(input)
    /\ replay \in Seq(1..nread) /\ chan \in Seq(1..nread) /\ Len(chan) <= ChanCap
    /\ wm \in Int /\ wm >= -1 /\ maxDel \in Int /\ gcEnd \in Nat /\ fetched \in Int /\ pub \in Int
    /\ active \in SUBSET Int /\ IsFiniteSet(active)
    /\ closed \in SUBSET Int /\ IsFiniteSet(closed)
    /\ aq \in Seq(WindowOp) /\ gcq \in Seq(Int)
    /\ DOMAIN stream \subseteq Int /\ \A w \in DOMAIN stream : stream[w] \in TaskState
    /\ closing = None \/ closing \in Closing
    /\ up \in BOOLEAN /\ err \in BOOLEAN /\ shutting \in BOOLEAN /\ cancel \in BOOLEAN
    /\ hard \in BOOLEAN /\ ended \in BOOLEAN
    /\ killed \in BOOLEAN /\ early \in BOOLEAN /\ lost \in BOOLEAN
    /\ accepted \subseteq 1..nread /\ gone \subseteq 1..nread
    /\ fails \in 0..MaxFails /\ stops \in 0..MaxStops
    /\ saved = NoFile \/ \E s \in File : saved = {s} /\ IsFiniteSet(s.ws)

\* What is left of a life that has ended.
Stopped ==
    /\ up => saved = NoFile
    /\ ~up => /\ replay = <<>> /\ chan = <<>> /\ wm = -1 /\ active = {} /\ closed = {}
              /\ aq = <<>> /\ stream = <<>> /\ closing = None /\ gcq = <<>>
              /\ fetched = -1 /\ ~shutting /\ maxDel = -1
    /\ kind = "fixed" => saved = NoFile /\ maxDel = -1

\* Items come in the order they were read, and no watermark is ahead of what is to come.
Order ==
    /\ Increasing(chan) /\ Increasing(replay)
    /\ \A c \in Range(chan), r \in Range(replay) : c < r
    /\ \A i \in ToCome : wm <= X(i)
    /\ \A i \in Unread : /\ wm <= X(i) /\ fetched <= X(i) /\ pub <= X(i) /\ maxDel <= X(i)
                         /\ \A s \in saved : s.maxDel <= X(i)
    /\ replay # <<>> => fetched = -1
    /\ pub >= -1

\* Windows are closed from the oldest on, by the watermark.
Windows ==
    /\ \A c \in closed, a \in active : c < a
    /\ \A c \in closed : End(c) <= wm

CloseComes(w) == \E i \in DOMAIN aq : aq[i].op = "close" /\ aq[i].w = w

\* What the actor has still to do, and the task it waits for.
Actor ==
    /\ \A i \in DOMAIN aq : aq[i].op = "close" =>
          /\ aq[i].w \in closed
          /\ \A j \in DOMAIN aq : j > i => aq[j].w # aq[i].w
          /\ \A j \in DOMAIN aq : j > i /\ aq[j].op = "close" => aq[i].w < aq[j].w
    /\ \A i \in DOMAIN aq : aq[i].op # "close" => aq[i].w \in active \/ CloseComes(aq[i].w)
    /\ \A i \in DOMAIN aq : aq[i].op = "open" =>
          /\ aq[i].w \notin DOMAIN stream
          /\ \A j \in DOMAIN aq : j < i => aq[j].w # aq[i].w
    /\ \A w \in DOMAIN stream : w \in active \/ CloseComes(w)
    /\ closing # None =>
          /\ closing.w \in closed /\ closing.w \notin DOMAIN stream
          /\ \A i \in DOMAIN aq : aq[i].w # closing.w
          /\ \A i \in DOMAIN aq : aq[i].op = "close" => closing.w < aq[i].w

\* No GC event is ahead of the watermark or of what is not read yet, and what is to come will be
\* read again.
Behind ==
    /\ \A e \in GcEvents : \A i \in Unread : e <= 0 \/ e <= X(i)
    /\ \A e \in Range(gcq) : e <= wm
    /\ \A m \in ToCome : m \notin gone /\ (Accept(m) => input[m].et >= gcEnd)

\* Every logged message that has come is in all of its windows, or has their results; after
\* an error it may have been drained.
Cover ==
    /\ closing # None /\ closing.st = "written" => closing.w \in finished \/ lost
    /\ ~lost /\ up => \A m \in 1..nread :
          Logged(m) /\ m \notin ToCome =>
              \/ shutting /\ wm <= X(m)
              \/ \A w \in WindowsOf(m) : w \in active \cup closed \cup finished
    /\ ~lost => \A m \in 1..nread : Logged(m) => \A w \in WindowsOf(m) :
          /\ End(w) <= maxDel => w \in active \cup closed \cup finished
          /\ \A s \in saved : End(w) <= s.maxDel => w \in s.ws \cup finished

\* No window without result is passed by the watermark that was published.
Published ==
    ~early /\ ~lost =>
        /\ \A m \in 1..nread : Logged(m) =>
              \A w \in WindowsOf(m) : w \in finished \/ pub < End(w)
        /\ \A w \in active \cup closed : w \in finished \/ pub < End(w)
        /\ \A s \in saved : \A w \in s.ws : w \in finished \/ pub < End(w)

\* A sliding window with a result is done, and stays so across a graceful restart.
Once ==
    kind = "sliding" /\ ~killed =>
        /\ again = {}
        /\ \A w \in finished :
              /\ up => \/ closing # None /\ closing.w = w /\ closing.st = "written"
                       \/ w \notin active \cup closed /\ End(w) <= maxDel
              /\ ~up => \E s \in saved : w \notin s.ws /\ End(w) <= s.maxDel

\* What was accepted, and what may be deleted.
Accepted ==
    /\ \A m \in accepted : Accept(m)
    /\ up => \A m \in 1..nread :
          Logged(m) /\ m \notin ToCome => m \in accepted \/ (shutting /\ wm <= X(m))
    /\ \A e \in GcEvents : \A m \in 1..nread :
          Accept(m) /\ input[m].et < e => m \in accepted \/ m \in gone

Aligned(t) == \E k \in Int : t = k * Length

\* A window has a task, or the actor will start one.
Begun(w) == w \in DOMAIN stream \/ \E i \in DOMAIN aq : aq[i].w = w /\ aq[i].op # "close"

\* With fixed windows and no failure, closed windows are finished in their order.
Fixed ==
    kind = "fixed" =>
        /\ \A w \in active \cup closed : Aligned(w)
        /\ \A e \in GcEvents : Aligned(e)
        /\ \A w \in Int : w \in active \/ CloseComes(w) => Begun(w)
        /\ fails = 0 /\ ~hard => \A w \in DOMAIN stream : stream[w].st = "run"
        /\ hard => \A w \in DOMAIN stream : stream[w].st # "run"
        /\ fails = 0 /\ (closing # None \/ ~hard) =>
              \A w \in closed : (closing # None /\ w = closing.w) \/ CloseComes(w)

Collected ==
    ~Excepted => \A e \in GcEvents : \A m \in accepted \ gone : input[m].et < e => Deletable(m)

\* The messages of a window that its task has got or the actor will send it.
Sent(w) ==
    (IF w \in DOMAIN stream THEN Range(stream[w].ms) ELSE {})
        \cup {aq[i].m : i \in {j \in DOMAIN aq : aq[j].w = w /\ aq[j].op # "close"}}
Healthy(w) == w \in DOMAIN stream => stream[w].st = "run"

\* A message that has come is in its windows, as long as they are not over.
Arrived ==
    up /\ ~shutting => \A m \in 1..nread : Logged(m) /\ m \notin ToCome =>
        \A w \in WindowsOf(m) : w \in active \/ End(w) <= wm \/ End(w) <= maxDel

\* An open window has got what has come, and one that is closed all there is.
OpenHas == ~shutting => \A w \in active : Healthy(w) => Sent(w) = Full(w) \ ToCome
CloseHas == \A w \in Int : CloseComes(w) /\ Healthy(w) => Sent(w) = Full(w)
TaskHas ==
    closing # None /\ closing.st \in {"udf", "some"} =>
        Increasing(closing.ms) /\ closing.ms # <<>> /\ Range(closing.ms) = Full(closing.w)

\* A task gets its messages in the order they were read.
StreamInTurn ==
    \A w \in DOMAIN stream :
        /\ Increasing(stream[w].ms) /\ stream[w].ms # <<>>
        /\ \A i \in DOMAIN aq : aq[i].w = w /\ aq[i].op # "close" =>
              \A m \in Range(stream[w].ms) : m < aq[i].m
QueueInTurn ==
    \A i, j \in DOMAIN aq :
        i < j /\ aq[i].w = aq[j].w /\ aq[i].op # "close" /\ aq[j].op # "close" => aq[i].m < aq[j].m
SentEarlier == \A w \in Int : \A m \in Sent(w) : m \in 1..nread /\ \A t \in ToCome : m < t

\* What a task was sent: in order, and nothing is missing.
Content == OpenHas /\ CloseHas /\ TaskHas /\ StreamInTurn /\ QueueInTurn /\ SentEarlier

\* A result has all that was and will be accepted for its window and is still in the WAL.
Whole(w, s) ==
    /\ Increasing(s)
    /\ Range(s) \subseteq MessagesOf(w)
    /\ MessagesOf(w) \ gone \subseteq Range(s)
    /\ \A m \in 1..Len(input) : Accept(m) /\ w \in WindowsOf(m) => m \in accepted \/ m \in gone
Resulted == ~lost => \A r \in results : Whole(r.w, r.ms)

(***************************************************************************)
(* Finite sets of integers.                                                *)
(***************************************************************************)

\* A set of naturals has a least member.
LEMMA LeastNatural ==
    ASSUME NEW T, T \subseteq Nat, T # {}
    PROVE  \E i \in T : \A j \in T : i <= j
<1>1. PICK x \in T : \A y \in T : ~(<<y, x>> \in OpToRel(<, Nat))
  BY WFMin, NatLessThanWellFounded, Zenon
<1>2. \A y \in T : ~(y < x)
  BY <1>1 DEF OpToRel
<1>3. QED
  BY <1>2

\* Finite sets of n integers.
IntSets(n) == {S \in SUBSET Int : IsFiniteSet(S) /\ Cardinality(S) = n}

\* A finite set of integers has a largest member.
LEMMA LargestExists ==
    ASSUME NEW S \in SUBSET Int, IsFiniteSet(S), S # {}
    PROVE  \E x \in S : \A y \in S : y <= x
<1> DEFINE Top(U) == \E x \in U : \A y \in U : y <= x
           Bad == {n \in Nat : \E U \in IntSets(n) : U # {} /\ ~Top(U)}
<1>1. SUFFICES ASSUME ~Top(S) PROVE FALSE
  OBVIOUS
<1>2. Cardinality(S) \in Bad
  BY <1>1, FS_CardinalityType DEF IntSets
<1>3. PICK n \in Bad : \A k \in Bad : n <= k
  <2> HIDE DEF Bad
  <2>1. Bad \subseteq Nat
    BY DEF Bad
  <2>2. QED
    BY <1>2, <2>1, LeastNatural
<1>4. PICK U \in IntSets(n) : U # {} /\ ~Top(U)
  OBVIOUS
<1>5. PICK u \in U : TRUE
  BY <1>4
<1>6. IsFiniteSet(U) /\ Cardinality(U) = n /\ U \subseteq Int /\ n \in Nat /\ u \in Int
  BY <1>4 DEF IntSets
<1>7. IsFiniteSet(U \ {u}) /\ Cardinality(U \ {u}) = n - 1
  BY <1>6, FS_RemoveElement
<1>8. n - 1 \in Nat
  BY <1>7, FS_CardinalityType
<1>9. U \ {u} \in IntSets(n - 1)
  BY <1>6, <1>7 DEF IntSets
<1>10. n - 1 \notin Bad
  BY <1>3, <1>6, <1>8
<1>11. U \ {u} = {} \/ Top(U \ {u})
  BY <1>8, <1>9, <1>10
<1>12. CASE U \ {u} = {}
  <2>1. \A y \in U : y = u
    BY <1>12
  <2>2. Top(U)
    BY <1>6, <2>1
  <2>3. QED
    BY <1>4, <2>2
<1>13. CASE Top(U \ {u})
  <2>1. PICK x \in U \ {u} : \A y \in U \ {u} : y <= x
    BY <1>13
  <2>2. x \in Int
    BY <1>6, <2>1
  <2>3. CASE u <= x
    <3>1. \A y \in U : y <= x
      BY <2>1, <2>3
    <3>2. QED
      BY <1>4, <3>1
  <2>4. CASE x < u
    <3>1. \A y \in U : y <= u
      BY <2>1, <2>2, <2>4, <1>6
    <3>2. QED
      BY <1>4, <3>1
  <2>5. QED
    BY <2>2, <2>3, <2>4, <1>6
<1>14. QED
  BY <1>11, <1>12, <1>13

\* A finite set of integers has a least member.
LEMMA SmallestExists ==
    ASSUME NEW S \in SUBSET Int, IsFiniteSet(S), S # {}
    PROVE  \E x \in S : \A y \in S : x <= y
<1> DEFINE T == {-x : x \in S}
           f == [x \in S |-> -x]
<1>1. T \in SUBSET Int /\ T # {}
  <2>1. \A x \in S : -x \in Int
    OBVIOUS
  <2>2. PICK x \in S : TRUE
    OBVIOUS
  <2>3. -x \in T
    BY <2>2
  <2>4. QED
    BY <2>1, <2>3
<1>2. f \in Surjection(S, T)
  BY DEF Surjection
<1>3. IsFiniteSet(T)
  BY <1>2, FS_Surjection
<1> HIDE DEF f
<1>4. PICK t \in T : \A u \in T : u <= t
  <2> HIDE DEF T
  <2>1. QED
    BY <1>1, <1>3, LargestExists
<1>5. PICK x \in S : t = -x
  OBVIOUS
<1>6. \A y \in S : x <= y
  <2> TAKE y \in S
  <2>1. -y \in T
    OBVIOUS
  <2>2. -y <= -x /\ x \in Int /\ y \in Int
    BY <1>4, <1>5, <2>1
  <2>3. QED
    BY <2>2
<1>7. QED
  BY <1>6

\* Max is what its name says.
LEMMA MaxIs ==
    ASSUME NEW S \in SUBSET Int, IsFiniteSet(S), S # {}
    PROVE  Max(S) \in S /\ \A y \in S : y <= Max(S)
<1>1. \E x \in S : \A y \in S : x >= y
  BY LargestExists
<1>2. QED
  BY <1>1 DEF Max

\* Min is what its name says.
LEMMA MinIs ==
    ASSUME NEW S \in SUBSET Int, IsFiniteSet(S), S # {}
    PROVE  Min(S) \in S /\ \A y \in S : Min(S) <= y
<1>1. \E x \in S : \A y \in S : x <= y
  BY SmallestExists
<1>2. QED
  BY <1>1 DEF Min

(***************************************************************************)
(* Sorting.                                                                *)
(***************************************************************************)

\* The range of a sequence.
LEMMA SeqRange ==
    ASSUME NEW S, NEW s \in Seq(S)
    PROVE  /\ Range(s) = {s[i] : i \in 1..Len(s)} /\ Range(s) \subseteq S
           /\ DOMAIN s = 1..Len(s) /\ Len(s) \in Nat
           /\ \A x : x \in Range(s) <=> \E i \in 1..Len(s) : x = s[i]
<1>1. DOMAIN s = 1..Len(s) /\ Len(s) \in Nat /\ \A i \in 1..Len(s) : s[i] \in S
  OBVIOUS
<1>2. QED
  BY <1>1 DEF Range

\* What the range of a sequence gains at its end, and loses at its head.
LEMMA RangeAppend ==
    ASSUME NEW S, NEW s \in Seq(S), NEW x \in S
    PROVE  Range(Append(s, x)) = Range(s) \cup {x}
<1> DEFINE t == Append(s, x)
<1>1. t \in Seq(S) /\ Len(t) = Len(s) + 1 /\ Len(s) \in Nat
  OBVIOUS
<1>2. /\ \A i \in 1..Len(s) : t[i] = s[i]
      /\ t[Len(s) + 1] = x
  OBVIOUS
<1> HIDE DEF t
<1>3. /\ \A y : y \in Range(t) <=> \E i \in 1..Len(t) : y = t[i]
      /\ \A y : y \in Range(s) <=> \E i \in 1..Len(s) : y = s[i]
  BY <1>1, SeqRange
<1>4. \A i \in 1..Len(t) : i \in 1..Len(s) \/ i = Len(s) + 1
  BY <1>1
<1>5. 1..Len(s) \subseteq 1..Len(t) /\ Len(s) + 1 \in 1..Len(t)
  BY <1>1
<1>6. Range(t) \subseteq Range(s) \cup {x}
  BY <1>2, <1>3, <1>4
<1>7. Range(s) \cup {x} \subseteq Range(t)
  BY <1>2, <1>3, <1>5
<1>8. QED
  BY <1>6, <1>7 DEF t

\* The head and the tail of a sequence.
LEMMA SeqTail ==
    ASSUME NEW S, NEW s \in Seq(S), s # <<>>
    PROVE  /\ Head(s) \in S /\ Tail(s) \in Seq(S)
           /\ Len(s) \in Nat /\ Len(s) >= 1 /\ Len(Tail(s)) = Len(s) - 1
           /\ DOMAIN s = 1..Len(s) /\ DOMAIN Tail(s) = 1..(Len(s) - 1)
           /\ Head(s) = s[1] /\ \A i \in 1..(Len(s) - 1) : Tail(s)[i] = s[i + 1]
           /\ Range(s) = {Head(s)} \cup Range(Tail(s))
<1>1. PICK n \in Nat : n = Len(s) /\ n >= 1
  OBVIOUS
<1>2. DOMAIN s = 1..n /\ \A i \in 1..n : s[i] \in S
  BY <1>1
<1>3. Head(s) = s[1] /\ 1 \in 1..n
  BY <1>1
<1>4. PICK t : t = Tail(s)
  OBVIOUS
<1>5. t \in Seq(S) /\ Len(t) = n - 1 /\ DOMAIN t = 1..(n - 1)
  BY <1>1, <1>4
<1>6. \A i \in 1..(n - 1) : t[i] = s[i + 1]
  BY <1>1, <1>4
<1>7. \A i \in 1..n : i = 1 \/ (i - 1 \in 1..(n - 1) /\ i = (i - 1) + 1)
  BY <1>1
<1>8. \A i \in 1..(n - 1) : i + 1 \in 1..n
  BY <1>1
<1>9. Range(s) \subseteq {s[1]} \cup Range(t)
  <2>1. \A i \in 1..n : s[i] = s[1] \/ \E j \in 1..(n - 1) : s[i] = t[j]
    BY <1>6, <1>7
  <2>2. QED
    BY <1>2, <1>5, <2>1 DEF Range
<1>10. {s[1]} \cup Range(t) \subseteq Range(s)
  BY <1>2, <1>3, <1>5, <1>6, <1>8 DEF Range
<1>11. QED
  BY <1>1, <1>2, <1>3, <1>4, <1>5, <1>6, <1>9, <1>10

\* A finite set of integers can be put into increasing order.
LEMMA SortExists ==
    ASSUME NEW S \in SUBSET Int, IsFiniteSet(S)
    PROVE  \E s \in Seq(S) : Increasing(s) /\ Range(s) = S /\ Len(s) = Cardinality(S)
<1> DEFINE Ok(U) == \E s \in Seq(U) : Increasing(s) /\ Range(s) = U /\ Len(s) = Cardinality(U)
           Bad == {n \in Nat : \E U \in IntSets(n) : ~Ok(U)}
<1>1. SUFFICES ASSUME ~Ok(S) PROVE FALSE
  OBVIOUS
<1>2. Cardinality(S) \in Bad
  BY <1>1, FS_CardinalityType DEF IntSets
<1>3. PICK n \in Bad : \A k \in Bad : n <= k
  <2> HIDE DEF Bad
  <2>1. Bad \subseteq Nat
    BY DEF Bad
  <2>2. QED
    BY <1>2, <2>1, LeastNatural
<1>4. PICK U \in IntSets(n) : ~Ok(U)
  OBVIOUS
<1>5. IsFiniteSet(U) /\ Cardinality(U) = n /\ U \subseteq Int /\ n \in Nat
  BY <1>4 DEF IntSets
<1>6. U # {}
  <2>1. SUFFICES ASSUME U = {} PROVE FALSE
    OBVIOUS
  <2>2. <<>> \in Seq(U) /\ Len(<<>>) = 0 /\ Range(<<>>) = {} /\ Increasing(<<>>)
    BY DEF Range, Increasing
  <2>3. Cardinality(U) = 0
    BY <2>1, FS_EmptySet
  <2>4. Ok(U)
    BY <2>1, <2>2, <2>3
  <2>5. QED
    BY <1>4, <2>4
<1>7. PICK u \in U : \A y \in U : y <= u
  BY <1>5, <1>6, LargestExists
<1>8. IsFiniteSet(U \ {u}) /\ Cardinality(U \ {u}) = n - 1
  BY <1>5, <1>7, FS_RemoveElement
<1>9. n - 1 \in Nat
  BY <1>8, FS_CardinalityType
<1>10. Ok(U \ {u})
  <2>1. U \ {u} \in IntSets(n - 1)
    BY <1>5, <1>8 DEF IntSets
  <2>2. n - 1 \notin Bad
    BY <1>3, <1>5, <1>9
  <2>3. QED
    BY <1>9, <2>1, <2>2
<1>11. PICK s \in Seq(U \ {u}) :
           Increasing(s) /\ Range(s) = U \ {u} /\ Len(s) = n - 1
  BY <1>8, <1>10
<1> DEFINE t == Append(s, u)
<1>12. s \in Seq(U) /\ t \in Seq(U) /\ Len(t) = n
  BY <1>5, <1>7, <1>11
<1>13. Range(t) = U
  BY <1>7, <1>11, <1>12, RangeAppend
<1>14. Increasing(t)
  <2>1. DOMAIN t = 1..n /\ DOMAIN s = 1..(n - 1)
    BY <1>11, <1>12
  <2>2. /\ \A i \in 1..(n - 1) : t[i] = s[i] /\ s[i] \in U /\ s[i] # u
        /\ t[n] = u
    BY <1>5, <1>9, <1>11
  <2>3. \A i \in 1..(n - 1) : t[i] < t[n]
    <3> HIDE DEF t
    <3>1. TAKE i \in 1..(n - 1)
    <3>2. t[i] \in U /\ t[i] # u /\ t[n] = u
      BY <2>2
    <3>3. t[i] \in Int /\ u \in Int /\ t[i] <= u
      BY <1>5, <1>7, <3>2
    <3>4. QED
      BY <3>2, <3>3
  <2>4. \A i, j \in 1..(n - 1) : i < j => t[i] < t[j]
    BY <1>11, <2>1, <2>2 DEF Increasing
  <2> HIDE DEF t
  <2>5. ASSUME NEW i \in 1..n, NEW j \in 1..n, i < j
        PROVE  t[i] < t[j]
    <3>1. i \in 1..(n - 1) /\ (j \in 1..(n - 1) \/ j = n)
      BY <1>5, <2>5
    <3>2. QED
      BY <2>3, <2>4, <2>5, <3>1
  <2>6. QED
    BY <2>1, <2>5 DEF Increasing
<1>15. Ok(U)
  BY <1>5, <1>12, <1>13, <1>14
<1>16. QED
  BY <1>4, <1>15

\* InOrder with < puts a finite set of integers into increasing order.
LEMMA SortedUp ==
    ASSUME NEW S \in SUBSET Int, IsFiniteSet(S)
    PROVE  /\ InOrder(S, <) \in Seq(S)
           /\ Increasing(InOrder(S, <))
           /\ Range(InOrder(S, <)) = S
<1>1. PICK n \in Nat : n = Cardinality(S)
  BY FS_CardinalityType
<1> DEFINE P(r) == \A i, j \in DOMAIN r : i < j => r[i] < r[j]
<1>2. PICK s \in [1..n -> S] : P(s)
  <2>1. PICK s \in Seq(S) : Increasing(s) /\ Range(s) = S /\ Len(s) = n
    BY <1>1, SortExists
  <2>2. s \in [1..n -> S]
    BY <2>1
  <2>3. QED
    BY <2>1, <2>2 DEF Increasing
<1>3. PICK r : r = CHOOSE q \in [1..n -> S] : P(q)
  OBVIOUS
<1>4. r \in [1..n -> S] /\ P(r)
  BY <1>2, <1>3
<1>5. r = InOrder(S, <)
  BY <1>1, <1>3 DEF InOrder
<1>6. r \in Seq(S) /\ Len(r) = n /\ Increasing(r)
  BY <1>4 DEF Increasing
<1>7. r \in Injection(1..n, S)
  <2>1. \A i \in 1..n : r[i] \in Int
    BY <1>4
  <2>2. ASSUME NEW i \in 1..n, NEW j \in 1..n, i # j
        PROVE  r[i] # r[j]
    <3>1. i < j \/ j < i
      BY <2>2
    <3>2. QED
      BY <1>4, <2>1, <3>1
  <2>3. QED
    BY <1>4, <2>2 DEF Injection, IsInjective
<1>8. r \in Surjection(1..n, S)
  BY <1>1, <1>7, FS_Interval, FS_Injection
<1>9. Range(r) = S
  <2>1. \A x \in S : \E i \in 1..n : r[i] = x
    BY <1>8 DEF Surjection
  <2>2. Range(r) \subseteq S /\ \A x : x \in Range(r) <=> \E i \in 1..n : x = r[i]
    BY <1>6, SeqRange
  <2>3. QED
    BY <2>1, <2>2
<1>10. QED
  BY <1>5, <1>6, <1>9

\* InOrder with > enumerates it as well.
LEMMA SortedDown ==
    ASSUME NEW S \in SUBSET Int, IsFiniteSet(S)
    PROVE  /\ InOrder(S, >) \in Seq(S)
           /\ \A i, j \in DOMAIN InOrder(S, >) : InOrder(S, >)[i] = InOrder(S, >)[j] => i = j
           /\ Range(InOrder(S, >)) = S
<1>1. PICK n \in Nat : n = Cardinality(S)
  BY FS_CardinalityType
<1> DEFINE P(r) == \A i, j \in DOMAIN r : i < j => r[i] > r[j]
<1>2. PICK g \in [1..n -> S] : P(g)
  <2>1. PICK h \in Seq(S) : Increasing(h) /\ Range(h) = S /\ Len(h) = n
    BY <1>1, SortExists
  <2>2. h \in [1..n -> S]
    BY <2>1
  <2>3. \A i \in 1..n : n + 1 - i \in 1..n
    OBVIOUS
  <2>4. PICK g : g = [i \in 1..n |-> h[n + 1 - i]]
    OBVIOUS
  <2>5. g \in [1..n -> S] /\ \A i \in 1..n : g[i] = h[n + 1 - i]
    BY <2>2, <2>3, <2>4
  <2>6. \A i, j \in 1..n : i < j => h[i] < h[j]
    BY <2>1, <2>2 DEF Increasing
  <2>7. \A i, j \in 1..n : i < j => g[i] > g[j]
    <3> TAKE i, j \in 1..n
    <3> HAVE i < j
    <3>1. n + 1 - j < n + 1 - i
      OBVIOUS
    <3>2. h[n + 1 - j] < h[n + 1 - i]
      BY <2>3, <2>6, <3>1
    <3>3. h[n + 1 - j] \in Int /\ h[n + 1 - i] \in Int
      BY <2>2, <2>3
    <3>4. QED
      BY <2>5, <3>2, <3>3
  <2>8. QED
    BY <2>5, <2>7
<1>3. PICK r : r = CHOOSE q \in [1..n -> S] : P(q)
  OBVIOUS
<1>4. r \in [1..n -> S] /\ P(r)
  BY <1>2, <1>3
<1>5. r = InOrder(S, >)
  BY <1>1, <1>3 DEF InOrder
<1>6. r \in Seq(S) /\ Len(r) = n
  BY <1>4
<1>7. \A i, j \in 1..n : r[i] = r[j] => i = j
  <2>1. \A i \in 1..n : r[i] \in Int
    BY <1>4
  <2>2. ASSUME NEW i \in 1..n, NEW j \in 1..n, i # j
        PROVE  r[i] # r[j]
    <3>1. i < j \/ j < i
      BY <2>2
    <3>2. QED
      BY <1>4, <2>1, <3>1
  <2>3. QED
    BY <2>2
<1>8. r \in Surjection(1..n, S)
  <2>1. r \in Injection(1..n, S)
    BY <1>4, <1>7 DEF Injection, IsInjective
  <2>2. QED
    BY <1>1, <2>1, FS_Interval, FS_Injection
<1>9. Range(r) = S
  <2>1. \A x \in S : \E i \in 1..n : r[i] = x
    BY <1>8 DEF Surjection
  <2>2. Range(r) \subseteq S /\ \A x : x \in Range(r) <=> \E i \in 1..n : x = r[i]
    BY <1>6, SeqRange
  <2>3. QED
    BY <2>1, <2>2
<1>10. QED
  BY <1>4, <1>5, <1>6, <1>7, <1>9

(***************************************************************************)
(* The windows of a message.                                               *)
(***************************************************************************)

\* Division with remainder.
LEMMA DivMod ==
    ASSUME NEW a \in Int, NEW s \in Nat, s > 0
    PROVE  \E q \in Int : a - (a % s) = s * q /\ a % s \in Int /\ 0 <= a % s /\ a % s < s
<1>1. a \div s \in Int /\ a % s \in Int /\ a % s < s /\ 0 <= a % s
  OBVIOUS
<1>2. a % s = a - s * (a \div s)
  OBVIOUS
<1>3. PICK q \in Int, r \in Int : q = a \div s /\ r = a % s
  BY <1>1
<1>4. s * q \in Int /\ r = a - s * q
  BY <1>2, <1>3
<1>5. a - r = s * q
  BY <1>4
<1>6. QED
  BY <1>1, <1>3, <1>5

\* Different multiples are apart.
LEMMA MultiplesApart ==
    ASSUME NEW p \in Int, NEW q \in Int, NEW s \in Nat, s > 0, p < q
    PROVE  s * p + s <= s * q
<1>1. q - p - 1 \in Nat
  OBVIOUS
<1>2. s * (q - p - 1) >= 0
  BY <1>1
<1>3. s * (q - p - 1) = s * q - s * p - s
  OBVIOUS
<1>4. s * q \in Int /\ s * p \in Int
  OBVIOUS
<1>5. QED
  BY <1>2, <1>3, <1>4

\* A multiple has no remainder.
LEMMA ModOfMultiple ==
    ASSUME NEW k \in Int, NEW s \in Nat, s > 0
    PROVE  (s * k) % s = 0
<1> DEFINE a == s * k
<1>1. a \in Int
  OBVIOUS
<1>2. PICK q \in Int : a - (a % s) = s * q /\ a % s \in Int /\ 0 <= a % s /\ a % s < s
  BY <1>1, DivMod
<1>3. PICK r \in Int : r = a % s
  BY <1>2
<1>4. s * k - r = s * q /\ 0 <= r /\ r < s
  BY <1>2, <1>3
<1>5. s * k \in Int /\ s * q \in Int
  OBVIOUS
<1>6. ~(k < q)
  BY <1>4, <1>5, MultiplesApart
<1>7. ~(q < k)
  BY <1>4, <1>5, MultiplesApart
<1>8. q = k
  BY <1>6, <1>7
<1>9. r = 0
  BY <1>4, <1>5, <1>8
<1>10. QED
  BY <1>3, <1>9

\* The windows counted back from the latest are those that contain the time.
LEMMA WindowsBack ==
    ASSUME NEW t \in Int, NEW s \in Nat, NEW len \in Nat, s > 0, s <= len
    PROVE  {w \in {t - (t % s) - k * s : k \in 0..len} : t < w + len}
               = {w \in (t - len + 1)..t : w % s = 0}
<1>1. PICK q \in Int : t - (t % s) = s * q /\ t % s \in Int /\ 0 <= t % s /\ t % s < s
  BY DivMod
<1>2. PICK r \in Int : r = t % s
  BY <1>1
<1>3. t - r = s * q /\ 0 <= r /\ r < s /\ s * q \in Int
  BY <1>1, <1>2
<1>4. ASSUME NEW k \in 0..len, NEW w, w = t - (t % s) - k * s, t < w + len
      PROVE  w \in (t - len + 1)..t /\ w % s = 0
  <2>1. k \in Int /\ k >= 0 /\ k * s \in Int /\ k * s >= 0 /\ q - k \in Int
    OBVIOUS
  <2>2. s * (q - k) = s * q - k * s
    BY <2>1
  <2>3. w = s * (q - k) /\ w \in Int
    BY <1>1, <1>4, <2>1, <2>2
  <2>4. w % s = 0
    BY <2>1, <2>3, ModOfMultiple
  <2>5. w = t - r - k * s
    BY <1>2, <1>4
  <2>6. w <= t /\ w >= t - len + 1
    BY <1>3, <1>4, <2>1, <2>3, <2>5
  <2>7. QED
    BY <2>3, <2>4, <2>6
<1>5. ASSUME NEW w \in (t - len + 1)..t, w % s = 0
      PROVE  t < w + len /\ \E k \in 0..len : w = t - (t % s) - k * s
  <2>1. w \in Int /\ w <= t /\ t - len + 1 <= w
    OBVIOUS
  <2>2. PICK p \in Int : w - (w % s) = s * p
    BY <2>1, DivMod
  <2>3. w = s * p
    BY <1>5, <2>1, <2>2
  <2>4. p <= q
    <3>1. SUFFICES ASSUME q < p PROVE FALSE
      OBVIOUS
    <3>2. s * q + s <= s * p
      BY <3>1, MultiplesApart
    <3>3. QED
      BY <1>3, <2>1, <2>3, <3>2
  <2>5. q - p \in Nat /\ s * (q - p) = s * q - s * p /\ s * p \in Int
    BY <2>4
  <2>6. q - p <= s * (q - p)
    <3>1. (s - 1) * (q - p) >= 0
      BY <2>5
    <3>2. (s - 1) * (q - p) = s * (q - p) - (q - p)
      BY <2>5
    <3>3. s * (q - p) \in Int
      BY <2>5
    <3>4. QED
      BY <2>5, <3>1, <3>2, <3>3
  <2>7. s * q - s * p <= len
    BY <1>3, <2>1, <2>3
  <2>8. q - p \in 0..len
    BY <1>3, <2>5, <2>6, <2>7
  <2>9. w = t - (t % s) - (q - p) * s
    <3>1. (q - p) * s = s * q - s * p
      BY <2>5
    <3>2. w = s * q - (s * q - s * p)
      BY <1>3, <2>3, <2>5
    <3>3. QED
      BY <1>1, <3>1, <3>2
  <2>10. t < w + len
    BY <2>1
  <2>11. QED
    BY <2>8, <2>9, <2>10
<1>6. QED
  BY <1>4, <1>5

(***************************************************************************)
(* The items, and what a message is assigned to.                           *)
(***************************************************************************)

\* The constants.
LEMMA Constants ==
    /\ Length \in Nat /\ Length > 0 /\ Slide \in Nat /\ Slide > 0 /\ Slide <= Length
    /\ ChanCap \in Nat /\ Lateness \in Nat /\ MaxFails \in Nat /\ MaxStops \in Nat
    /\ Kinds \subseteq {"fixed", "sliding"}
BY AlignedAssumption

\* The step between windows.
LEMMA StepType == Step \in Nat /\ Step > 0 /\ Step <= Length
<1>1. Length \in Nat /\ Length > 0 /\ Slide \in Nat /\ Slide > 0 /\ Slide <= Length
  BY Constants
<1>2. CASE kind = "fixed"
  BY <1>1, <1>2 DEF Step
<1>3. CASE kind # "fixed"
  BY <1>1, <1>3 DEF Step
<1>4. QED
  BY <1>2, <1>3

\* The fields of an item.
LEMMA ItemType ==
    ASSUME input \in Inputs, NEW m \in 1..Len(input)
    PROVE  /\ input[m] \in Item /\ Len(input) \in Nat
           /\ input[m].et \in Nat /\ input[m].wm \in Int /\ input[m].late \in BOOLEAN
           /\ input[m].typ \in {"data", "wmb"}
           /\ \A j \in 1..m : input[j].wm <= input[m].wm
<1>1. Possible(input)
  BY AlignedAssumption
<1>2. input \in Seq(Item)
  BY <1>1 DEF Possible
<1>3. input[m] \in Item /\ Len(input) \in Nat /\ DOMAIN input = 1..Len(input)
  BY <1>2
<1>4. \A j \in 1..m : input[j].wm <= input[m].wm
  BY <1>1, <1>3 DEF Possible
<1>5. QED
  BY <1>3, <1>4 DEF Item

\* The watermark of a message never falls, and it has not passed an accepted message.
LEMMA XFacts ==
    ASSUME input \in Inputs, NEW m \in 1..Len(input)
    PROVE  /\ X(m) \in Int /\ X(m) >= -1 /\ X(m) >= input[m].wm
           /\ \A j \in 1..m : X(j) <= X(m) /\ X(j) \in Int
           /\ Accept(m) => X(m) <= input[m].et /\ input[m].typ = "data"
<1>1. /\ input[m].et \in Nat /\ input[m].wm \in Int
      /\ \A j \in 1..m : input[j].wm <= input[m].wm
  BY ItemType
<1>2. X(m) \in Int /\ X(m) >= -1 /\ X(m) >= input[m].wm
  BY <1>1 DEF X, Larger
<1>3. ASSUME NEW j \in 1..m PROVE X(j) <= X(m) /\ X(j) \in Int
  <2>1. Len(input) \in Nat
    BY ItemType
  <2>2. j \in 1..Len(input)
    BY <2>1
  <2>3. input[j].wm \in Int
    BY <2>2, ItemType
  <2>4. QED
    BY <1>1, <2>3 DEF X, Larger
<1>4. Accept(m) => X(m) <= input[m].et /\ input[m].typ = "data"
  BY <1>1, <1>2 DEF Accept, Drops
<1>5. QED
  BY <1>2, <1>3, <1>4

\* The windows of a message contain its time; there are finitely many of them.
LEMMA WindowFacts ==
    ASSUME input \in Inputs, NEW m \in 1..Len(input)
    PROVE  /\ CreateWindows(input[m].et) = WindowsOf(m)
           /\ IsFiniteSet(WindowsOf(m)) /\ WindowsOf(m) \subseteq Int
           /\ \A w \in WindowsOf(m) : /\ w <= input[m].et /\ input[m].et < End(w) /\ End(w) \in Int
                                      /\ X(m) < End(w) \/ ~Accept(m)
<1>1. input[m].et \in Nat
  BY ItemType
<1>2. PICK t \in Int : t = input[m].et
  BY <1>1
<1>3. PICK s \in Nat : s = Step /\ s > 0 /\ s <= Length
  BY StepType
<1>4. PICK len \in Nat : len = Length /\ len > 0
  BY Constants
<1>5. CreateWindows(t) = {w \in {t - (t % s) - k * s : k \in 0..len} : t < w + len}
  BY <1>3, <1>4 DEF CreateWindows, End
<1>6. WindowsOf(m) = {w \in (t - len + 1)..t : w % s = 0}
  BY <1>2, <1>3, <1>4 DEF WindowsOf
<1>7. CreateWindows(t) = WindowsOf(m)
  <2>1. s <= len
    BY <1>3, <1>4
  <2>2. {w \in {t - (t % s) - k * s : k \in 0..len} : t < w + len}
            = {w \in (t - len + 1)..t : w % s = 0}
    BY <1>3, <2>1, WindowsBack
  <2>3. QED
    BY <1>5, <1>6, <2>2, Zenon
<1>8. IsFiniteSet(WindowsOf(m))
  <2>1. t - len + 1 \in Int
    BY <1>2, <1>4
  <2>2. IsFiniteSet((t - len + 1)..t)
    BY <2>1, FS_Interval
  <2>3. WindowsOf(m) \in SUBSET ((t - len + 1)..t)
    BY <1>6
  <2>4. QED
    BY <2>2, <2>3, FS_Subset
<1>9. ASSUME NEW w \in WindowsOf(m)
      PROVE  w \in Int /\ w <= t /\ t < w + Length /\ w + Length \in Int
  BY <1>2, <1>4, <1>6
<1>10. X(m) \in Int /\ (Accept(m) => X(m) <= t)
  BY <1>2, XFacts
<1>11. \A w \in WindowsOf(m) : X(m) < w + Length \/ ~Accept(m)
  BY <1>2, <1>9, <1>10
<1>12. QED
  BY <1>2, <1>7, <1>8, <1>9, <1>11 DEF End

\* The messages that close windows.
LEMMA CloseFacts ==
    ASSUME NEW C \in SUBSET Int, IsFiniteSet(C)
    PROVE  /\ CloseMsgs(C) \in Seq(WindowOp)
           /\ \A i \in DOMAIN CloseMsgs(C) : CloseMsgs(C)[i].op = "close" /\ CloseMsgs(C)[i].w \in C
           /\ \A i, j \in DOMAIN CloseMsgs(C) : i < j => CloseMsgs(C)[i].w < CloseMsgs(C)[j].w
           /\ \A w \in C : \E i \in DOMAIN CloseMsgs(C) : CloseMsgs(C)[i].w = w
<1>1. PICK s \in Seq(C) : s = InOrder(C, <) /\ Increasing(s) /\ Range(s) = C
  BY SortedUp
<1>2. PICK n \in Nat : n = Len(s) /\ DOMAIN s = 1..n
  OBVIOUS
<1>3. PICK c : c = [i \in 1..n |-> [op |-> "close", w |-> s[i], m |-> 0]]
  OBVIOUS
<1>4. c = CloseMsgs(C)
  BY <1>1, <1>2, <1>3 DEF CloseMsgs
<1>5. \A i \in 1..n : s[i] \in C /\ s[i] \in Int
  <2>1. \A i \in DOMAIN s : s[i] \in C
    OBVIOUS
  <2>2. QED
    BY <1>2, <2>1
<1>6. \A i \in 1..n : c[i] \in WindowOp /\ c[i].op = "close" /\ c[i].w = s[i]
  <2> TAKE i \in 1..n
  <2>1. c[i] = [op |-> "close", w |-> s[i], m |-> 0]
    BY <1>3
  <2>2. s[i] \in Int
    BY <1>5
  <2>3. QED
    BY <2>1, <2>2 DEF WindowOp
<1>7. c \in [1..n -> WindowOp] /\ DOMAIN c = 1..n
  BY <1>3, <1>6
<1>8. c \in Seq(WindowOp)
  BY <1>7
<1>9. \A i, j \in 1..n : i < j => c[i].w < c[j].w
  <2>1. \A i, j \in 1..n : i < j => s[i] < s[j]
    BY <1>1, <1>2 DEF Increasing
  <2>2. QED
    BY <1>6, <2>1
<1>10. \A w \in C : \E i \in 1..n : c[i].w = w
  <2>1. \A x \in C : \E i \in 1..n : x = s[i]
    BY <1>1, <1>2 DEF Range
  <2>2. QED
    BY <1>6, <2>1
<1>11. QED
  BY <1>4, <1>5, <1>6, <1>7, <1>8, <1>9, <1>10

\* The windows that m is put into, and the messages of which it is.
Joins(m, open) == {w \in WindowsOf(m) : w \in open \/ Creatable(w)}
Assigns(a, N, m, open) ==
    /\ a \in Seq(WindowOp) /\ N \in SUBSET Int /\ IsFiniteSet(N)
    /\ \A i \in DOMAIN a : /\ a[i].m = m /\ a[i].w \in N
                           /\ a[i].op = IF a[i].w \in open THEN "append" ELSE "open"
    /\ \A i, j \in DOMAIN a : a[i].w = a[j].w => i = j
    /\ \A w \in N : \E i \in DOMAIN a : a[i].w = w
    /\ {a[i].w : i \in DOMAIN a} = N

\* The messages for the windows of m.
LEMMA AssignFacts ==
    ASSUME input \in Inputs, NEW m \in 1..Len(input), NEW open
    PROVE  Assigns(AssignWindows(m, open), Joins(m, open), m, open)
<1> DEFINE N == {w \in WindowsOf(m) : w \in open \/ Creatable(w)}
<1>0. PICK a : a = AssignWindows(m, open)
  OBVIOUS
<1>1. /\ CreateWindows(input[m].et) = WindowsOf(m)
      /\ IsFiniteSet(WindowsOf(m)) /\ WindowsOf(m) \subseteq Int
  BY WindowFacts
<1>2. N \in SUBSET Int /\ IsFiniteSet(N)
  <2>1. N \in SUBSET WindowsOf(m)
    OBVIOUS
  <2>2. QED
    BY <1>1, <2>1, FS_Subset
<1> HIDE DEF N
<1>3. PICK s \in Seq(N) : /\ s = InOrder(N, >) /\ Range(s) = N
                          /\ \A i, j \in DOMAIN s : s[i] = s[j] => i = j
  BY <1>2, SortedDown
<1>4. PICK n \in Nat : n = Len(s) /\ DOMAIN s = 1..n
  OBVIOUS
<1>5. a = [i \in 1..n |-> [op |-> IF s[i] \in open THEN "append" ELSE "open", w |-> s[i], m |-> m]]
  BY <1>0, <1>1, <1>3, <1>4 DEF AssignWindows, N
<1>6. m \in Nat
  BY ItemType
<1>7. \A i \in 1..n : s[i] \in N /\ s[i] \in Int
  <2>1. \A i \in DOMAIN s : s[i] \in N
    OBVIOUS
  <2>2. QED
    BY <1>2, <1>4, <2>1
<1>8. \A i \in 1..n : /\ a[i] \in WindowOp /\ a[i].m = m /\ a[i].w = s[i]
                      /\ a[i].op = IF s[i] \in open THEN "append" ELSE "open"
  <2> TAKE i \in 1..n
  <2>1. a[i] = [op |-> IF s[i] \in open THEN "append" ELSE "open", w |-> s[i], m |-> m]
    BY <1>5
  <2>2. s[i] \in Int
    BY <1>7
  <2>3. QED
    BY <1>6, <2>1, <2>2 DEF WindowOp
<1>9. a \in [1..n -> WindowOp] /\ DOMAIN a = 1..n
  BY <1>5, <1>8
<1>10. a \in Seq(WindowOp)
  BY <1>9
<1>11. \A w \in N : \E i \in 1..n : a[i].w = w
  <2>1. \A x \in N : \E i \in 1..n : x = s[i]
    BY <1>3, <1>4 DEF Range
  <2>2. QED
    BY <1>8, <2>1
<1>12. \A i \in 1..n : a[i].w \in N
  BY <1>7, <1>8
<1>13. {a[i].w : i \in 1..n} = N
  BY <1>11, <1>12
<1>14. \A i, j \in 1..n : a[i].w = a[j].w => i = j
  <2>1. \A i, j \in 1..n : s[i] = s[j] => i = j
    BY <1>3, <1>4
  <2>2. QED
    BY <1>8, <2>1
<1>15. Assigns(a, N, m, open)
  BY <1>2, <1>8, <1>9, <1>10, <1>11, <1>12, <1>13, <1>14 DEF Assigns
<1>16. Joins(m, open) = N
  BY DEF Joins, N
<1>17. QED
  BY <1>0, <1>15, <1>16

(***************************************************************************)
(* What a step changes.                                                    *)
(***************************************************************************)

\* The input and the kind of windows stay as they are.
LEMMA InputStays == [Next]_vars => input' = input /\ kind' = kind
<1> SUFFICES ASSUME [Next]_vars PROVE input' = input /\ kind' = kind
  OBVIOUS
<1>1. CASE UNCHANGED vars
  BY <1>1 DEF vars, inVars
<1>2. CASE Replay \/ Read
  BY <1>2 DEF Replay, Read, inVars
<1>3. CASE ReducerNext
  BY <1>3 DEF ReducerNext, ConsumeData, ConsumeWmb, Drain, HandleError, StreamEnds, inVars
<1>4. CASE ActorNext
  BY <1>4 DEF ActorNext, ActorOpen, ActorAppend, ActorClose, inVars
<1>5. CASE TaskNext
  BY <1>5 DEF TaskNext, CloseCancelled, Respond, WriteResults, GcWindow, inVars
<1>6. CASE Publish \/ HardShutdown \/ Exit \/ Boot
  BY <1>6 DEF Publish, HardShutdown, Exit, Boot, inVars
<1>7. CASE FaultNext
  BY <1>7 DEF FaultNext, CloseFails, GiveUpWrite, TaskFails, Cancel, Kill, inVars
<1>8. CASE Idle
  BY <1>8 DEF Idle, vars, inVars
<1>9. QED
  BY <1>1, <1>2, <1>3, <1>4, <1>5, <1>6, <1>7, <1>8 DEF Next

\* What depends on them stays too.
LEMMA Rigid ==
    ASSUME input' = input, kind' = kind
    PROVE  /\ \A m : X(m)' = X(m) /\ Accept(m)' = Accept(m) /\ WindowsOf(m)' = WindowsOf(m)
           /\ \A w : End(w)' = End(w)
           /\ Step' = Step
<1>1. Step' = Step
  BY DEF Step
<1>2. \A m : X(m)' = X(m)
  BY DEF X
<1>3. \A m : Accept(m)' = Accept(m)
  BY <1>2 DEF Accept, Drops, X
<1>4. \A m : WindowsOf(m)' = WindowsOf(m)
  BY <1>1 DEF WindowsOf, Step
<1>5. QED
  BY <1>1, <1>2, <1>3, <1>4 DEF End

\* What the reducer does with the item m: it closes the windows C with cls, and puts m into
\* the windows N with msgs.
Feed(m, C, N, cls, msgs) ==
    /\ up /\ ~shutting /\ m \in 1..nread
    /\ chan # <<>> /\ m = Head(chan) /\ chan' = Tail(chan)
    /\ wm' = X(m)
    /\ C \in SUBSET active /\ \A w \in C : End(w) <= X(m)
    /\ C = {} \/ \A w \in active \ C, c \in C : c < w
    /\ \A w \in N, c \in C : c < w
    /\ N \in SUBSET WindowsOf(m) /\ IsFiniteSet(N)
    /\ N # {} => Accept(m)
    /\ \A w \in N : w \in active \ C \/ Creatable(w)
    /\ Accept(m) => \A w \in WindowsOf(m) : w \in N \/ (w \notin active \ C /\ End(w) <= maxDel)
    /\ cls \in Seq(WindowOp) /\ msgs \in Seq(WindowOp)
    /\ \A i \in DOMAIN cls : cls[i].op = "close" /\ cls[i].w \in C
    /\ \A i, j \in DOMAIN cls : i < j => cls[i].w < cls[j].w
    /\ \A w \in C : \E i \in DOMAIN cls : cls[i].w = w
    /\ \A i \in DOMAIN msgs : /\ msgs[i].m = m /\ msgs[i].w \in N
                              /\ msgs[i].op = IF msgs[i].w \in active \ C THEN "append" ELSE "open"
    /\ \A i, j \in DOMAIN msgs : msgs[i].w = msgs[j].w => i = j
    /\ \A w \in N : \E i \in DOMAIN msgs : msgs[i].w = w
    /\ active' = (active \ C) \cup N /\ closed' = closed \cup C
    /\ aq' = aq \o cls \o msgs
    /\ accepted' = IF Accept(m) THEN accepted \cup {m} ELSE accepted
    /\ UNCHANGED <<inVars, up, replay, maxDel, saved, stream, closing, ctlVars, gcVars, pubVars,
                   results, finished, again, fails, stops, killed, early, lost>>
Feeds == \E m, C, N, cls, msgs : Feed(m, C, N, cls, msgs)

\* The next item, and the watermark it brings.
LEMMA NextItem ==
    ASSUME Types, Order, chan # <<>>
    PROVE  /\ Head(chan) \in 1..nread /\ Head(chan) \in 1..Len(input) /\ Head(chan) \in Range(chan)
           /\ Larger(wm, input[Head(chan)].wm) = X(Head(chan))
           /\ wm <= X(Head(chan))
<1>1. chan \in Seq(1..nread) /\ nread \in 0..Len(input) /\ input \in Inputs /\ wm \in Int /\ wm >= -1
  BY DEF Types
<1>2. Head(chan) \in 1..nread
  BY <1>1
<1>3. PICK m \in 1..nread : m = Head(chan)
  BY <1>2
<1>4. m \in 1..Len(input)
  BY <1>1
<1>5. Len(chan) > 0 /\ m = chan[1] /\ DOMAIN chan = 1..Len(chan)
  BY <1>1, <1>3
<1>6. m \in Range(chan)
  BY <1>5 DEF Range
<1>7. wm <= X(m)
  BY <1>6 DEF Order, ToCome
<1>8. input[m].wm \in Int
  BY <1>1, <1>4, ItemType
<1>9. Larger(wm, input[m].wm) = X(m)
  BY <1>1, <1>7, <1>8 DEF X, Larger
<1>10. QED
  BY <1>2, <1>3, <1>4, <1>6, <1>7, <1>9

\* Windows that the watermark has passed, and those that it has not.
LEMMA ToCloseFacts ==
    ASSUME Types, NEW x \in Int, NEW C, C = ToClose(x - Lateness)
    PROVE  /\ C \in SUBSET active /\ C \in SUBSET Int /\ IsFiniteSet(C)
           /\ \A w \in C : End(w) <= x
           /\ \A w \in active \ C, c \in C : c < w
<1>1. Length \in Nat /\ Lateness \in Nat
  BY Constants
<1>2. active \in SUBSET Int /\ IsFiniteSet(active)
  BY DEF Types
<1>3. C \in SUBSET active /\ \A w \in active : w \in C <=> w + Length <= x - Lateness
  BY DEF ToClose, End
<1>4. IsFiniteSet(C)
  BY <1>2, <1>3, FS_Subset
<1>5. \A w \in C : w \in Int /\ w + Length <= x
  BY <1>1, <1>2, <1>3
<1>6. ASSUME NEW w \in active \ C, NEW c \in C PROVE c < w
  <2>1. w \in Int /\ c \in Int /\ c + Length <= x - Lateness /\ ~(w + Length <= x - Lateness)
    BY <1>2, <1>3
  <2>2. QED
    BY <1>1, <2>1
<1>7. QED
  BY <1>2, <1>3, <1>4, <1>5, <1>6 DEF End

\* The empty message sequence.
LEMMA NoMsgs ==
    ASSUME NEW q \in Seq(WindowOp), NEW r \in Seq(WindowOp)
    PROVE  <<>> \in Seq(WindowOp) /\ DOMAIN <<>> = {} /\ q \o <<>> = q /\ q \o <<>> \o <<>> = q
           /\ q \o r \o <<>> = q \o r
<1>1. q \o r \in Seq(WindowOp)
  OBVIOUS
<1>2. \A p \in Seq(WindowOp) : p \o <<>> = p
  OBVIOUS
<1>3. <<>> \in Seq(WindowOp) /\ DOMAIN <<>> = {}
  OBVIOUS
<1>4. QED
  BY <1>1, <1>2, <1>3

\* An item that is not put into windows.
LEMMA FeedNothing ==
    ASSUME Types, Order, up, ~shutting, chan # <<>>, chan' = Tail(chan),
           wm' = X(Head(chan)), ~Accept(Head(chan)), accepted' = accepted,
           UNCHANGED <<active, closed, aq>>,
           UNCHANGED <<inVars, up, replay, maxDel, saved, stream, closing, ctlVars, gcVars, pubVars,
                       results, finished, again, fails, stops, killed, early, lost>>
    PROVE  Feeds
<1>1. PICK m \in 1..nread : m = Head(chan)
  BY NextItem
<1>2. aq \in Seq(WindowOp)
  BY DEF Types
<1>3. <<>> \in Seq(WindowOp) /\ DOMAIN <<>> = {} /\ aq \o <<>> \o <<>> = aq
  BY <1>2, NoMsgs
<1>4. active' = (active \ {}) \cup {} /\ closed' = closed \cup {} /\ aq' = aq \o <<>> \o <<>>
  BY <1>3
<1>5. accepted' = IF Accept(m) THEN accepted \cup {m} ELSE accepted
  BY <1>1
<1>6. IsFiniteSet({})
  BY FS_EmptySet
<1>7. Feed(m, {}, {}, <<>>, <<>>)
  BY <1>1, <1>3, <1>4, <1>5, <1>6 DEF Feed
<1>8. QED
  BY <1>7 DEF Feeds

\* An idle watermark that closes windows.
LEMMA FeedClose ==
    ASSUME Types, Order, up, ~shutting, chan # <<>>, chan' = Tail(chan),
           wm' = X(Head(chan)), ~Accept(Head(chan)), accepted' = accepted,
           NEW C, C = ToClose(X(Head(chan)) - Lateness),
           active' = active \ C, closed' = closed \cup C, aq' = aq \o CloseMsgs(C),
           UNCHANGED <<inVars, up, replay, maxDel, saved, stream, closing, ctlVars, gcVars, pubVars,
                       results, finished, again, fails, stops, killed, early, lost>>
    PROVE  Feeds
<1>1. PICK m \in 1..nread : m = Head(chan) /\ m \in 1..Len(input)
  BY NextItem
<1>2. aq \in Seq(WindowOp) /\ input \in Inputs
  BY DEF Types
<1>3. X(m) \in Int
  BY <1>1, <1>2, XFacts
<1>4. /\ C \in SUBSET active /\ C \in SUBSET Int /\ IsFiniteSet(C)
      /\ \A w \in C : End(w) <= X(m)
      /\ \A w \in active \ C, c \in C : c < w
  BY <1>1, <1>3, ToCloseFacts
<1>5. PICK cls : cls = CloseMsgs(C)
  OBVIOUS
<1>6. /\ cls \in Seq(WindowOp)
      /\ \A i \in DOMAIN cls : cls[i].op = "close" /\ cls[i].w \in C
      /\ \A i, j \in DOMAIN cls : i < j => cls[i].w < cls[j].w
      /\ \A w \in C : \E i \in DOMAIN cls : cls[i].w = w
  BY <1>4, <1>5, CloseFacts
<1>7. <<>> \in Seq(WindowOp) /\ DOMAIN <<>> = {} /\ aq' = aq \o cls \o <<>>
  BY <1>2, <1>5, <1>6, NoMsgs
<1>8. active' = (active \ C) \cup {}
  OBVIOUS
<1>9. accepted' = IF Accept(m) THEN accepted \cup {m} ELSE accepted
  BY <1>1
<1>10. IsFiniteSet({})
  BY FS_EmptySet
<1>11. Feed(m, C, {}, cls, <<>>)
  BY <1>1, <1>4, <1>6, <1>7, <1>8, <1>9, <1>10 DEF Feed
<1>12. QED
  BY <1>11 DEF Feeds

\* A message that is put into its windows.
LEMMA FeedData ==
    ASSUME Types, Order, up, ~shutting, chan # <<>>, chan' = Tail(chan),
           wm' = X(Head(chan)), Accept(Head(chan)), accepted' = accepted \cup {Head(chan)},
           NEW C, C = ToClose(X(Head(chan)) - Lateness),
           NEW msgs, msgs = AssignWindows(Head(chan), active \ C),
           active' = (active \ C) \cup {msgs[i].w : i \in DOMAIN msgs},
           closed' = closed \cup C, aq' = aq \o CloseMsgs(C) \o msgs,
           UNCHANGED <<inVars, up, replay, maxDel, saved, stream, closing, ctlVars, gcVars, pubVars,
                       results, finished, again, fails, stops, killed, early, lost>>
    PROVE  Feeds
<1>1. PICK m \in 1..nread : m = Head(chan) /\ m \in 1..Len(input)
  BY NextItem
<1>2. aq \in Seq(WindowOp) /\ input \in Inputs /\ maxDel \in Int
  BY DEF Types
<1>3. X(m) \in Int
  BY <1>1, <1>2, XFacts
<1>4. /\ C \in SUBSET active /\ C \in SUBSET Int /\ IsFiniteSet(C)
      /\ \A w \in C : End(w) <= X(m)
      /\ \A w \in active \ C, c \in C : c < w
  BY <1>1, <1>3, ToCloseFacts
<1>5. PICK cls : cls = CloseMsgs(C)
  OBVIOUS
<1>6. /\ cls \in Seq(WindowOp)
      /\ \A i \in DOMAIN cls : cls[i].op = "close" /\ cls[i].w \in C
      /\ \A i, j \in DOMAIN cls : i < j => cls[i].w < cls[j].w
      /\ \A w \in C : \E i \in DOMAIN cls : cls[i].w = w
  BY <1>4, <1>5, CloseFacts
<1>7. PICK N : N = Joins(m, active \ C)
  OBVIOUS
<1>8. Assigns(msgs, N, m, active \ C)
  BY <1>1, <1>2, <1>7, AssignFacts
<1>9. N \in SUBSET WindowsOf(m) /\ \A w \in N : w \in active \ C \/ Creatable(w)
  BY <1>7 DEF Joins
<1>10. /\ WindowsOf(m) \subseteq Int
       /\ \A w \in WindowsOf(m) : X(m) < End(w) /\ End(w) \in Int
  BY <1>1, <1>2, WindowFacts
<1>11. \A w \in WindowsOf(m) : w \in N \/ (w \notin active \ C /\ End(w) <= maxDel)
  BY <1>2, <1>7, <1>10 DEF Creatable, Joins
<1>12. \A w \in N, c \in C : c < w
  <2> TAKE w \in N, c \in C
  <2>1. c + Length <= X(m) /\ X(m) < w + Length /\ w \in Int /\ c \in Int
    BY <1>4, <1>9, <1>10 DEF End
  <2>2. QED
    BY <1>3, <2>1, Constants
<1>13. active' = (active \ C) \cup N /\ aq' = aq \o cls \o msgs
  BY <1>5, <1>8 DEF Assigns
<1>14. accepted' = IF Accept(m) THEN accepted \cup {m} ELSE accepted
  BY <1>1
<1>15. Feed(m, C, N, cls, msgs)
  BY <1>1, <1>4, <1>6, <1>8, <1>9, <1>11, <1>12, <1>13, <1>14 DEF Feed, Assigns
<1>16. QED
  BY <1>15 DEF Feeds

\* Consuming an item is a Feed.
LEMMA ConsumeFeeds == Types /\ Order /\ (ConsumeData \/ ConsumeWmb) => Feeds
<1> SUFFICES ASSUME Types, Order, ConsumeData \/ ConsumeWmb PROVE Feeds
  OBVIOUS
<1>1. chan # <<>> /\ up /\ ~shutting /\ chan' = Tail(chan)
  BY DEF ConsumeData, ConsumeWmb
<1>2. PICK m \in 1..nread : m = Head(chan) /\ m \in 1..Len(input) /\ Larger(wm, input[m].wm) = X(m)
  BY <1>1, NextItem
<1>3. input \in Inputs /\ wm \in Int /\ aq \in Seq(WindowOp)
  BY DEF Types
<1>4. input[m].wm \in Int /\ X(m) \in Int
  BY <1>2, <1>3, ItemType, XFacts
<1>5. CASE ConsumeData /\ Drops(m, X(m))
  <2>1. ~Accept(m)
    BY <1>5 DEF Accept
  <2>2. wm' = X(m) /\ UNCHANGED <<active, closed, maxDel, aq, accepted>>
    BY <1>2, <1>5 DEF ConsumeData, winVars
  <2>3. UNCHANGED <<inVars, up, replay, maxDel, saved, stream, closing, ctlVars, gcVars, pubVars,
                    results, finished, again, fails, stops, killed, early, lost>>
    BY <1>5, <2>2 DEF ConsumeData
  <2>4. QED
    BY <1>1, <1>2, <2>1, <2>2, <2>3, FeedNothing
<1>6. CASE ConsumeData /\ ~Drops(m, X(m))
  <2>1. Accept(m)
    BY <1>2, <1>6 DEF Accept, ConsumeData
  <2>2. PICK C : C = ToClose(X(m) - Lateness)
    OBVIOUS
  <2>3. PICK msgs : msgs = AssignWindows(m, active \ C)
    OBVIOUS
  <2>4. /\ wm' = X(m) /\ accepted' = accepted \cup {m}
        /\ active' = (active \ C) \cup {msgs[i].w : i \in DOMAIN msgs}
        /\ closed' = closed \cup C /\ aq' = aq \o CloseMsgs(C) \o msgs
        /\ maxDel' = maxDel
    BY <1>2, <1>6, <2>2, <2>3 DEF ConsumeData
  <2>5. UNCHANGED <<inVars, up, replay, maxDel, saved, stream, closing, ctlVars, gcVars, pubVars,
                    results, finished, again, fails, stops, killed, early, lost>>
    BY <1>6, <2>4 DEF ConsumeData
  <2>6. QED
    BY <1>1, <1>2, <2>1, <2>2, <2>3, <2>4, <2>5, FeedData
<1>7. CASE ConsumeWmb
  <2>1. ~Accept(m)
    BY <1>2, <1>7 DEF Accept, ConsumeWmb
  <2>2. /\ UNCHANGED <<inVars, up, replay, maxDel, saved, stream, closing, ctlVars, gcVars, pubVars,
                       results, finished, again, fails, stops, killed, early, lost>>
        /\ accepted' = accepted
    BY <1>7 DEF ConsumeWmb, histVars
  <2>3. CASE input[m].wm > wm
    <3>1. X(m) = input[m].wm
      BY <1>2, <1>3, <1>4, <2>3 DEF Larger
    <3>2. PICK C : C = ToClose(X(m) - Lateness)
      OBVIOUS
    <3>3. /\ wm' = X(m) /\ active' = active \ C /\ closed' = closed \cup C
          /\ aq' = aq \o CloseMsgs(C)
      BY <1>2, <1>7, <2>3, <3>1, <3>2 DEF ConsumeWmb
    <3>4. QED
      BY <1>1, <1>2, <2>1, <2>2, <3>2, <3>3, FeedClose
  <2>4. CASE ~(input[m].wm > wm)
    <3>1. X(m) = wm
      BY <1>2, <1>3, <1>4, <2>4 DEF Larger
    <3>2. wm' = X(m) /\ UNCHANGED <<active, closed, aq>>
      BY <1>2, <1>7, <2>4, <3>1 DEF ConsumeWmb
    <3>3. QED
      BY <1>1, <1>2, <2>1, <2>2, <3>2, FeedNothing
  <2>5. QED
    BY <2>3, <2>4
<1>8. QED
  BY <1>5, <1>6, <1>7

(***************************************************************************)
(* Types.                                                                  *)
(***************************************************************************)

\* A sequence over a set is one over a larger set.
LEMMA SeqOfMore ==
    ASSUME NEW R, NEW S, R \subseteq S, NEW s \in Seq(R)
    PROVE  s \in Seq(S)
OBVIOUS

\* A sequence of item numbers stays one when more is read.
LEMMA SeqGrows ==
    ASSUME NEW n \in Nat, NEW s \in Seq(1..n)
    PROVE  s \in Seq(1..(n + 1))
<1>1. \A i \in 1..n : i \in 1..(n + 1)
  OBVIOUS
<1>2. QED
  BY <1>1

\* Initially.
LEMMA TypesInit == Init => Types
<1> SUFFICES ASSUME Init PROVE Types
  OBVIOUS
<1>1. input \in Seq(Item)
  BY AlignedAssumption DEF Init, Possible
<1>2. Len(input) \in Nat /\ ChanCap \in Nat /\ MaxFails \in Nat /\ MaxStops \in Nat
  BY <1>1, Constants
<1>3. IsFiniteSet({})
  BY FS_EmptySet
<1>4. nread \in 0..Len(input) /\ Len(chan) <= ChanCap /\ fails \in 0..MaxFails /\ stops \in 0..MaxStops
  BY <1>2 DEF Init
<1>5. replay \in Seq(1..nread) /\ chan \in Seq(1..nread) /\ aq \in Seq(WindowOp) /\ gcq \in Seq(Int)
  BY DEF Init
<1>6. DOMAIN stream = {}
  BY DEF Init
<1>7. active \in SUBSET Int /\ IsFiniteSet(active) /\ closed \in SUBSET Int /\ IsFiniteSet(closed)
  BY <1>3 DEF Init
<1>8. /\ wm \in Int /\ wm >= -1 /\ maxDel \in Int /\ gcEnd \in Nat /\ fetched \in Int /\ pub \in Int
      /\ closing = None /\ saved = NoFile /\ accepted \subseteq 1..nread /\ gone \subseteq 1..nread
      /\ input \in Inputs /\ kind \in Kinds
  BY DEF Init
<1>9. /\ up \in BOOLEAN /\ err \in BOOLEAN /\ shutting \in BOOLEAN /\ cancel \in BOOLEAN
      /\ hard \in BOOLEAN /\ ended \in BOOLEAN
      /\ killed \in BOOLEAN /\ early \in BOOLEAN /\ lost \in BOOLEAN
  BY DEF Init
<1>10. QED
  BY <1>4, <1>5, <1>6, <1>7, <1>8, <1>9 DEF Types

USE DEF inVars, winVars, actVars, ctlVars, gcVars, pubVars, histVars

\* Reading and replaying.
LEMMA TypesRead == Types /\ (Replay \/ Read) => Types'
<1> SUFFICES ASSUME Types, Replay \/ Read PROVE Types'
  OBVIOUS
<1>1. CASE Replay
  <2>1. replay \in Seq(1..nread) /\ chan \in Seq(1..nread) /\ replay # <<>> /\ Len(chan) < ChanCap
    BY <1>1 DEF Types, Replay
  <2>2. ChanCap \in Nat
    BY Constants
  <2>3. Head(replay) \in 1..nread /\ Tail(replay) \in Seq(1..nread)
    BY <2>1, SeqTail
  <2>4. replay' \in Seq(1..nread) /\ chan' \in Seq(1..nread)
    BY <1>1, <2>1, <2>3 DEF Replay
  <2>5. Len(chan') <= ChanCap
    BY <1>1, <2>1, <2>2, <2>3 DEF Replay
  <2>6. QED
    BY <1>1, <2>4, <2>5 DEF Types, Replay
<1>2. CASE Read
  <2>1. replay = <<>> /\ chan \in Seq(1..nread) /\ Len(chan) < ChanCap
    BY <1>2 DEF Types, Read
  <2>2. ChanCap \in Nat
    BY Constants
  <2>3. PICK n \in Nat : n = nread
    BY DEF Types
  <2>4. nread' = n + 1 /\ n + 1 \in Nat /\ nread' \in 0..Len(input) /\ n + 1 \in 1..Len(input)
    BY <1>2, <2>3, ItemType DEF Types, Read
  <2>5. chan \in Seq(1..(n + 1))
    BY <2>1, <2>3, SeqGrows
  <2>6. chan' = Append(chan, n + 1) /\ n + 1 \in 1..(n + 1)
    BY <1>2, <2>4 DEF Read
  <2>7. chan' \in Seq(1..nread') /\ Len(chan') <= ChanCap
    BY <2>1, <2>2, <2>4, <2>5, <2>6
  <2>8. fetched' \in Int
    BY <1>2, <2>4, ItemType DEF Types, Read, Larger
  <2>9. accepted' \subseteq 1..nread'
    BY <1>2, <2>3, <2>4 DEF Types, Read
  <2>10. replay' \in Seq(1..nread')
    BY <1>2, <2>1 DEF Read
  <2>11. input' \in Inputs /\ kind' \in Kinds /\ nread' \in 0..Len(input')
    BY <1>2, <2>4 DEF Types, Read
  <2>12. QED
    BY <1>2, <2>7, <2>8, <2>9, <2>10, <2>11 DEF Types, Read
<1>3. QED
  BY <1>1, <1>2

\* The reducer.
LEMMA TypesReducer == Types /\ Order /\ ReducerNext => Types'
<1> SUFFICES ASSUME Types, Order, ReducerNext PROVE Types'
  OBVIOUS
<1>1. CASE ConsumeData \/ ConsumeWmb
  <2>1. PICK m, C, N, cls, msgs : Feed(m, C, N, cls, msgs)
    BY <1>1, ConsumeFeeds DEF Feeds
  <2>2. chan \in Seq(1..nread) /\ chan # <<>> /\ Len(chan) <= ChanCap /\ ChanCap \in Nat
    BY <2>1, Constants DEF Types, Feed
  <2>3. chan' \in Seq(1..nread) /\ Len(chan') <= ChanCap
    BY <2>1, <2>2 DEF Feed
  <2>4. m \in 1..Len(input) /\ input \in Inputs
    BY <2>1, NextItem DEF Feed, Types
  <2>5. X(m) \in Int /\ X(m) >= -1 /\ WindowsOf(m) \subseteq Int
    BY <2>4, XFacts, WindowFacts
  <2>6. wm' \in Int /\ wm' >= -1
    BY <2>1, <2>5 DEF Feed
  <2>7. C \in SUBSET active /\ N \in SUBSET Int /\ IsFiniteSet(N) /\ active \in SUBSET Int
    BY <2>1, <2>5 DEF Feed, Types
  <2>8. IsFiniteSet(C) /\ IsFiniteSet(active \ C)
    BY <2>7, FS_Subset, FS_Difference DEF Types
  <2>9. IsFiniteSet((active \ C) \cup N) /\ IsFiniteSet(closed \cup C)
    BY <2>7, <2>8, FS_Union DEF Types
  <2>10. /\ active' \in SUBSET Int /\ IsFiniteSet(active')
         /\ closed' \in SUBSET Int /\ IsFiniteSet(closed')
    BY <2>1, <2>7, <2>9 DEF Feed, Types
  <2>11. aq' \in Seq(WindowOp)
    BY <2>1 DEF Feed, Types
  <2>12. accepted' \subseteq 1..nread
    BY <2>1 DEF Feed, Types
  <2>13. QED
    BY <2>1, <2>3, <2>6, <2>10, <2>11, <2>12 DEF Types, Feed
<1>2. CASE Drain
  <2>1. chan \in Seq(1..nread) /\ chan # <<>> /\ Len(chan) <= ChanCap /\ ChanCap \in Nat
    BY <1>2, Constants DEF Types, Drain
  <2>2. chan' \in Seq(1..nread) /\ Len(chan') <= ChanCap
    BY <1>2, <2>1 DEF Drain
  <2>3. QED
    BY <1>2, <2>2 DEF Types, Drain
<1>3. CASE HandleError
  BY <1>3 DEF Types, HandleError
<1>4. CASE StreamEnds
  BY <1>4 DEF Types, StreamEnds
<1>5. QED
  BY <1>1, <1>2, <1>3, <1>4 DEF ReducerNext

\* Appending to a task, opening and closing one.
LEMMA TypesActor == Types /\ ActorNext => Types'
<1> SUFFICES ASSUME Types, ActorNext PROVE Types'
  OBVIOUS
<1>1. aq # <<>> /\ aq' = Tail(aq) /\ aq \in Seq(WindowOp)
  BY DEF ActorNext, ActorOpen, ActorAppend, ActorClose, Types
<1>2. aq' \in Seq(WindowOp)
  BY <1>1, SeqTail
<1>3. PICK a \in WindowOp : a = Head(aq)
  BY <1>1, SeqTail
<1>4. a.w \in Int /\ a.m \in Nat
  BY <1>3 DEF WindowOp
<1>5. CASE ActorOpen
  <2>1. stream' = Opened(a.w, a.m)
    BY <1>3, <1>5 DEF ActorOpen
  <2>2. <<a.m>> \in Seq(Nat)
    BY <1>4
  <2>3. DOMAIN stream' = DOMAIN stream \cup {a.w}
    BY <2>1 DEF Opened, With
  <2>4. stream'[a.w] = [st |-> IF hard THEN "dead" ELSE "run", ms |-> <<a.m>>]
    BY <2>1 DEF Opened, With
  <2>5. stream'[a.w] \in TaskState
    BY <2>2, <2>4 DEF TaskState
  <2>6. \A w \in DOMAIN stream : w # a.w => stream'[w] = stream[w]
    BY <2>1 DEF Opened, With
  <2>7. DOMAIN stream' \subseteq Int /\ \A w \in DOMAIN stream' : stream'[w] \in TaskState
    BY <1>4, <2>3, <2>5, <2>6 DEF Types
  <2>8. QED
    BY <1>2, <1>5, <2>7 DEF Types, ActorOpen
<1>6. CASE ActorAppend
  <2>1. /\ a.w \in DOMAIN stream
        /\ stream' = IF stream[a.w].st = "run" THEN [stream EXCEPT ![a.w].ms = Append(@, a.m)] ELSE stream
    BY <1>3, <1>6 DEF ActorAppend
  <2>2. stream[a.w] \in TaskState
    BY <2>1 DEF Types
  <2>3. CASE stream[a.w].st = "run"
    <3>1. DOMAIN stream' = DOMAIN stream /\ stream'[a.w] = [stream[a.w] EXCEPT !.ms = Append(@, a.m)]
      BY <2>1, <2>3
    <3>2. Append(stream[a.w].ms, a.m) \in Seq(Nat)
      BY <1>4, <2>2 DEF TaskState
    <3>3. stream'[a.w] \in TaskState
      BY <2>2, <3>1, <3>2 DEF TaskState
    <3>4. \A w \in DOMAIN stream : w # a.w => stream'[w] = stream[w]
      BY <2>1, <2>3
    <3>5. QED
      BY <1>2, <1>6, <3>1, <3>3, <3>4 DEF Types, ActorAppend
  <2>4. CASE stream[a.w].st # "run"
    BY <1>2, <1>6, <2>1, <2>4 DEF Types, ActorAppend
  <2>5. QED
    BY <2>3, <2>4
<1>7. CASE ActorClose
  <2>1. CASE a.w \in DOMAIN stream
    <3>1. /\ stream' = Without(stream, a.w)
          /\ closing' = IF stream[a.w].st = "run"
                        THEN [w |-> a.w, ms |-> stream[a.w].ms, st |-> "udf"] ELSE None
      BY <1>3, <1>7, <2>1 DEF ActorClose
    <3>2. DOMAIN stream' = DOMAIN stream \ {a.w} /\ \A w \in DOMAIN stream' : stream'[w] = stream[w]
      BY <3>1 DEF Without
    <3>3. stream[a.w].ms \in Seq(Nat)
      BY <2>1 DEF Types, TaskState
    <3>4. closing' = None \/ closing' \in Closing
      BY <1>4, <3>1, <3>3 DEF Closing
    <3>5. QED
      BY <1>2, <1>7, <3>2, <3>4 DEF Types, ActorClose
  <2>2. CASE a.w \notin DOMAIN stream
    BY <1>2, <1>3, <1>7, <2>2 DEF Types, ActorClose
  <2>3. QED
    BY <2>1, <2>2
<1>8. QED
  BY <1>5, <1>6, <1>7 DEF ActorNext

\* The oldest window is an integer.
LEMMA OldestIs ==
    ASSUME NEW act \in SUBSET Int, NEW cls \in SUBSET Int, IsFiniteSet(act), IsFiniteSet(cls),
           act \cup cls # {}
    PROVE  /\ Oldest(act, cls) \in Int /\ Oldest(act, cls) \in act \cup cls
           /\ cls # {} => Oldest(act, cls) \in cls /\ \A w \in cls : Oldest(act, cls) <= w
           /\ cls = {} => \A w \in act : Oldest(act, cls) <= w
<1>1. CASE cls # {}
  <2>1. Min(cls) \in cls /\ \A w \in cls : Min(cls) <= w
    BY <1>1, MinIs
  <2>2. QED
    BY <1>1, <2>1 DEF Oldest
<1>2. CASE cls = {}
  <2>1. Min(act) \in act /\ \A w \in act : Min(act) <= w
    BY <1>2, MinIs
  <2>2. QED
    BY <1>2, <2>1 DEF Oldest
<1>3. QED
  BY <1>1, <1>2

\* The tasks.
LEMMA TypesTask == Types /\ Actor /\ TaskNext => Types'
<1> SUFFICES ASSUME Types, Actor, TaskNext PROVE Types'
  OBVIOUS
<1>1. closing # None /\ closing \in Closing
  BY DEF TaskNext, CloseCancelled, Respond, WriteResults, GcWindow, Types
<1>2. CASE CloseCancelled
  BY <1>2 DEF Types, CloseCancelled
<1>3. CASE Respond \/ WriteResults
  <2>1. closing' \in Closing
    BY <1>1, <1>3 DEF Respond, WriteResults, Closing
  <2>2. CASE Respond
    BY <2>1, <2>2 DEF Types, Respond
  <2>3. CASE WriteResults
    BY <2>1, <2>3 DEF Types, WriteResults
  <2>4. QED
    BY <1>3, <2>2, <2>3
<1>4. CASE GcWindow
  <2>1. closing.w \in closed /\ closing.w \in Int /\ Length \in Nat
    BY <1>1, Constants DEF Actor, Closing
  <2>2. closed \in SUBSET Int /\ IsFiniteSet(closed) /\ active \in SUBSET Int /\ IsFiniteSet(active)
    BY DEF Types
  <2>3. closed' = closed \ {closing.w}
    BY <1>4 DEF GcWindow
  <2>4. closed' \in SUBSET Int /\ IsFiniteSet(closed')
    BY <2>2, <2>3, FS_RemoveElement
  <2>5. Oldest(active, closed) \in Int
    BY <2>1, <2>2, OldestIs
  <2>6. GcEndOf(closing.w) \in Int
    BY <2>1, <2>5 DEF GcEndOf, End
  <2>7. gcq' \in Seq(Int)
    BY <1>4, <2>6 DEF GcWindow, Types
  <2>8. maxDel' \in Int
    BY <1>4, <2>1 DEF GcWindow, Types, Larger, End
  <2>9. QED
    BY <1>4, <2>4, <2>7, <2>8 DEF Types, GcWindow
<1>5. QED
  BY <1>2, <1>3, <1>4 DEF TaskNext

\* The published watermark, and the failures.
LEMMA TypesFault == Types /\ (Publish \/ FaultNext \/ HardShutdown) /\ ~Kill => Types'
<1> SUFFICES ASSUME Types, Publish \/ FaultNext \/ HardShutdown, ~Kill PROVE Types'
  OBVIOUS
<1>1. MaxFails \in Nat /\ MaxStops \in Nat
  BY Constants
<1>2. CASE Publish
  <2>1. MinWatermark \in Int
    <3>1. fetched \in Int /\ active \in SUBSET Int /\ closed \in SUBSET Int
          /\ IsFiniteSet(active) /\ IsFiniteSet(closed) /\ Length \in Nat
      BY Constants DEF Types
    <3>2. active \cup closed # {} => Oldest(active, closed) \in Int
      BY <3>1, OldestIs
    <3>3. QED
      BY <3>1, <3>2 DEF MinWatermark, Smaller, End
  <2>2. early' \in BOOLEAN
    BY <1>2 DEF Publish, Types
  <2>3. QED
    BY <1>2, <2>1, <2>2 DEF Types, Publish
<1>3. CASE CloseFails
  <2>1. fails' \in 0..MaxFails
    BY <1>1, <1>3 DEF Types, CloseFails
  <2>2. QED
    BY <1>3, <2>1 DEF Types, CloseFails
<1>4. CASE GiveUpWrite
  <2>1. closing' \in Closing
    BY <1>4 DEF GiveUpWrite, Closing, Types
  <2>2. QED
    BY <1>4, <2>1 DEF Types, GiveUpWrite
<1>5. ASSUME NEW w \in DOMAIN stream, TaskFails(w) PROVE Types'
  <2>1. fails' \in 0..MaxFails
    BY <1>1, <1>5 DEF Types, TaskFails
  <2>2. DOMAIN stream' = DOMAIN stream /\ stream'[w] = [stream[w] EXCEPT !.st = "failed"]
        /\ \A v \in DOMAIN stream : v # w => stream'[v] = stream[v]
    BY <1>5 DEF TaskFails
  <2>3. stream'[w] \in TaskState
    BY <2>2 DEF Types, TaskState
  <2>4. QED
    BY <1>5, <2>1, <2>2, <2>3 DEF Types, TaskFails
<1>6. CASE Cancel
  <2>1. stops' \in 0..MaxStops
    BY <1>1, <1>6 DEF Types, Cancel
  <2>2. QED
    BY <1>6, <2>1 DEF Types, Cancel
<1>7. CASE HardShutdown
  <2>1. DOMAIN stream' = DOMAIN stream
        /\ \A w \in DOMAIN stream : \/ stream'[w] = stream[w]
                                    \/ stream'[w] = [stream[w] EXCEPT !.st = "dead"]
    BY <1>7 DEF HardShutdown
  <2>2. \A w \in DOMAIN stream : stream'[w] \in TaskState
    BY <2>1 DEF Types, TaskState
  <2>3. QED
    BY <1>7, <2>1, <2>2 DEF Types, HardShutdown
<1>8. QED
  BY <1>2, <1>3, <1>4, <1>5, <1>6, <1>7 DEF FaultNext

\* A boot reads some of the GC events, and their largest end.
LEMMA FrozenIs ==
    ASSUME Types, NEW e \in Frozen
    PROVE  e \in Nat /\ e >= gcEnd /\ e \in GcEvents
<1>1. gcEnd \in Nat /\ gcq \in Seq(Int)
  BY DEF Types
<1>2. PICK n \in Nat : n = Len(gcq)
  BY <1>1
<1>3. DOMAIN gcq = 1..n /\ \A j \in 1..n : gcq[j] \in Int
  BY <1>1, <1>2
<1>4. PICK i \in 0..n : e = Max({gcEnd} \cup {gcq[j] : j \in 1..i})
  BY <1>2 DEF Frozen
<1>5. 1..i \subseteq 1..n /\ i \in Int
  OBVIOUS
<1> DEFINE T == {gcq[j] : j \in 1..i}
           f == [j \in 1..i |-> gcq[j]]
<1>6. T \subseteq Int /\ T \subseteq Range(gcq)
  BY <1>3, <1>5 DEF Range
<1>7. IsFiniteSet(T)
  <2>1. f \in Surjection(1..i, T)
    BY DEF Surjection
  <2>2. IsFiniteSet(1..i)
    BY <1>5, FS_Interval
  <2> HIDE DEF f, T
  <2>3. QED
    BY <2>1, <2>2, FS_Surjection
<1> HIDE DEF T, f
<1>8. PICK S : S = {gcEnd} \cup T
  OBVIOUS
<1>9. IsFiniteSet(S) /\ S \in SUBSET Int /\ S # {}
  <2>1. IsFiniteSet({gcEnd})
    BY FS_Singleton
  <2>2. IsFiniteSet(S)
    BY <1>7, <1>8, <2>1, FS_Union
  <2>3. QED
    BY <1>1, <1>6, <1>8, <2>2
<1>10. e = Max(S)
  BY <1>4, <1>8 DEF T
<1>11. e \in S /\ \A y \in S : y <= e
  BY <1>9, <1>10, MaxIs
<1>12. e >= gcEnd /\ e \in Int
  BY <1>1, <1>8, <1>9, <1>11
<1>13. e \in GcEvents
  BY <1>6, <1>8, <1>11 DEF GcEvents
<1>14. QED
  BY <1>1, <1>12, <1>13

\* The end of a life.
LEMMA TypesDown == Types /\ (Exit \/ Kill) => Types'
<1> SUFFICES ASSUME Types, Exit \/ Kill PROVE Types'
  OBVIOUS
<1>1. Down
  BY DEF Exit, Kill
<1>2. gcEnd' \in Nat
  BY <1>1, FrozenIs DEF Down
<1>3. IsFiniteSet({}) /\ ChanCap \in Nat /\ MaxStops \in Nat
  BY FS_EmptySet, Constants
<1>4. /\ active' \in SUBSET Int /\ IsFiniteSet(active') /\ closed' \in SUBSET Int /\ IsFiniteSet(closed')
      /\ DOMAIN stream' = {}
      /\ aq' \in Seq(WindowOp) /\ gcq' \in Seq(Int)
      /\ wm' \in Int /\ wm' >= -1 /\ maxDel' \in Int /\ fetched' \in Int
      /\ closing' = None
  BY <1>1, <1>3 DEF Down
<1>5. /\ up' \in BOOLEAN /\ err' \in BOOLEAN /\ shutting' \in BOOLEAN /\ cancel' \in BOOLEAN
      /\ hard' \in BOOLEAN /\ ended' \in BOOLEAN
  BY <1>1 DEF Down
<1>6. /\ input' \in Inputs /\ kind' \in Kinds /\ nread' \in 0..Len(input') /\ pub' \in Int
      /\ accepted' \subseteq 1..nread' /\ gone' \subseteq 1..nread' /\ fails' \in 0..MaxFails
      /\ early' \in BOOLEAN /\ lost' \in BOOLEAN
  BY DEF Exit, Kill, Types
<1>7. replay' \in Seq(1..nread') /\ chan' \in Seq(1..nread') /\ Len(chan') <= ChanCap
  BY <1>1, <1>3 DEF Down
<1>8. stops' \in 0..MaxStops /\ killed' \in BOOLEAN
  <2>1. CASE Exit
    BY <2>1 DEF Exit, Types
  <2>2. CASE Kill
    <3>1. stops \in 0..MaxStops /\ stops < MaxStops /\ stops' = stops + 1 /\ killed' = TRUE
      BY <2>2 DEF Kill, Types
    <3>2. QED
      BY <1>3, <3>1
  <2>3. QED
    BY <2>1, <2>2
<1>9. saved' = NoFile \/ \E s \in File : saved' = {s} /\ IsFiniteSet(s.ws)
  <2>1. CASE Kill
    BY <2>1 DEF Kill, Types
  <2>2. CASE Exit
    <3>1. State \in File
      BY DEF State, File, Types
    <3>2. IsFiniteSet(active \cup closed)
      BY FS_Union DEF Types
    <3>3. IsFiniteSet(State.ws)
      BY <3>2 DEF State
    <3>4. QED
      BY <2>2, <3>1, <3>3 DEF Exit
  <2>3. QED
    BY <2>1, <2>2
<1>10. QED
  BY <1>2, <1>4, <1>5, <1>6, <1>7, <1>8, <1>9 DEF Types

\* What a boot replays.
LEMMA BootReplays ==
    ASSUME Types, Boot
    PROVE  /\ replay' \in Seq(1..nread) /\ Increasing(replay')
           /\ Range(replay') = {i \in (1..nread) \ gone : input[i].et >= gcEnd}
<1>1. PICK R : R = {i \in (1..nread) \ gone : input[i].et >= gcEnd}
  OBVIOUS
<1>2. nread \in Int
  BY DEF Types
<1>3. IsFiniteSet(1..nread)
  BY <1>2, FS_Interval
<1>4. R \in SUBSET (1..nread) /\ R \in SUBSET Int
  BY <1>1, <1>2
<1>5. IsFiniteSet(R)
  BY <1>3, <1>4, FS_Subset
<1>6. replay' = InOrder(R, <)
  BY <1>1 DEF Boot, Readable
<1>7. replay' \in Seq(R) /\ Increasing(replay') /\ Range(replay') = R
  BY <1>4, <1>5, <1>6, SortedUp
<1>8. replay' \in Seq(1..nread)
  BY <1>4, <1>7, SeqOfMore
<1>9. QED
  BY <1>1, <1>7, <1>8

\* What a boot reads from the file.
LEMMA BootLoads ==
    ASSUME Types, Boot
    PROVE  \/ saved = NoFile /\ active' = {} /\ maxDel' = -1
           \/ \E s \in File : saved = {s} /\ IsFiniteSet(s.ws) /\ active' = s.ws /\ maxDel' = s.maxDel
<1>1. CASE saved = NoFile
  BY <1>1 DEF Boot, NoFile
<1>2. CASE \E s \in File : saved = {s} /\ IsFiniteSet(s.ws)
  <2>1. PICK s \in File : saved = {s} /\ IsFiniteSet(s.ws)
    BY <1>2
  <2>2. active' = UNION {t.ws : t \in {s}}
    BY <2>1 DEF Boot
  <2>3. active' = s.ws
    BY <2>2
  <2>4. (CHOOSE t \in {s} : TRUE) = s
    OBVIOUS
  <2>5. maxDel' = s.maxDel
    BY <2>1, <2>4 DEF Boot, NoFile
  <2>6. QED
    BY <2>1, <2>3, <2>5
<1>3. QED
  BY <1>1, <1>2 DEF Types

\* A boot.
LEMMA TypesBoot == Types /\ Boot => Types'
<1> SUFFICES ASSUME Types, Boot PROVE Types'
  OBVIOUS
<1>1. replay' \in Seq(1..nread)
  BY BootReplays
<1>2. active' \in SUBSET Int /\ IsFiniteSet(active') /\ maxDel' \in Int
  BY BootLoads, FS_EmptySet DEF File
<1>3. QED
  BY <1>1, <1>2 DEF Types, Boot

\* Types are kept.
LEMMA TypesNext == Types /\ Order /\ Actor /\ [Next]_vars => Types'
<1> SUFFICES ASSUME Types, Order, Actor, [Next]_vars PROVE Types'
  OBVIOUS
<1>1. CASE UNCHANGED vars
  BY <1>1 DEF vars, Types
<1>2. CASE Idle
  BY <1>2 DEF Idle, vars, Types
<1>3. CASE FaultNext /\ ~Kill
  BY <1>3, TypesFault
<1>4. QED
  BY <1>1, <1>2, <1>3, TypesRead, TypesReducer, TypesActor, TypesTask, TypesFault, TypesDown, TypesBoot
     DEF Next, FaultNext

(***************************************************************************)
(* Lives.                                                                  *)
(***************************************************************************)

\* A step within a life leaves the file, the frozen events and the read part of the log.
InLife == up /\ up' /\ UNCHANGED <<saved, gcEnd>>
LEMMA LifeStep == [Next]_vars => UNCHANGED vars \/ Exit \/ Kill \/ Boot \/ InLife
<1> SUFFICES ASSUME [Next]_vars, ~(UNCHANGED vars), ~Exit, ~Kill, ~Boot PROVE InLife
  OBVIOUS
<1>1. CASE Replay \/ Read
  BY <1>1 DEF Replay, Read, InLife
<1>2. CASE ReducerNext
  BY <1>2 DEF ReducerNext, ConsumeData, ConsumeWmb, Drain, HandleError, StreamEnds, InLife
<1>3. CASE ActorNext
  BY <1>3 DEF ActorNext, ActorOpen, ActorAppend, ActorClose, InLife
<1>4. CASE TaskNext
  BY <1>4 DEF TaskNext, CloseCancelled, Respond, WriteResults, GcWindow, InLife
<1>5. CASE Publish \/ HardShutdown
  BY <1>5 DEF Publish, HardShutdown, InLife
<1>6. CASE FaultNext
  BY <1>6 DEF FaultNext, CloseFails, GiveUpWrite, TaskFails, Cancel, InLife
<1>7. CASE Idle
  BY <1>7 DEF Idle
<1>8. QED
  BY <1>1, <1>2, <1>3, <1>4, <1>5, <1>6, <1>7 DEF Next

\* Only the garbage collection moves max_deleted_window_end_time, and only of sliding windows.
LEMMA MaxDelStays ==
    [Next]_vars /\ ~GcWindow /\ ~Exit /\ ~Kill /\ ~Boot => maxDel' = maxDel
<1> SUFFICES ASSUME [Next]_vars, ~GcWindow, ~Exit, ~Kill, ~Boot PROVE maxDel' = maxDel
  OBVIOUS
<1>1. CASE Replay \/ Read
  BY <1>1 DEF Replay, Read
<1>2. CASE ReducerNext
  BY <1>2 DEF ReducerNext, ConsumeData, ConsumeWmb, Drain, HandleError, StreamEnds
<1>3. CASE ActorNext
  BY <1>3 DEF ActorNext, ActorOpen, ActorAppend, ActorClose
<1>4. CASE TaskNext
  BY <1>4 DEF TaskNext, CloseCancelled, Respond, WriteResults
<1>5. CASE Publish \/ HardShutdown
  BY <1>5 DEF Publish, HardShutdown
<1>6. CASE FaultNext
  BY <1>6 DEF FaultNext, CloseFails, GiveUpWrite, TaskFails, Cancel
<1>7. CASE Idle \/ UNCHANGED vars
  BY <1>7 DEF Idle, vars
<1>8. QED
  BY <1>1, <1>2, <1>3, <1>4, <1>5, <1>6, <1>7 DEF Next

\* The state of a pod that is down.
LEMMA StoppedNext == Types /\ Stopped /\ [Next]_vars => Stopped'
<1> SUFFICES ASSUME Types, Stopped, [Next]_vars PROVE Stopped'
  OBVIOUS
<1>1. input' = input /\ kind' = kind
  BY InputStays
<1>2. kind \in {"fixed", "sliding"}
  BY Constants DEF Types
<1>3. CASE UNCHANGED vars
  BY <1>3 DEF vars, Stopped
<1>4. CASE InLife
  <2>1. up' /\ saved' = NoFile
    BY <1>4 DEF InLife, Stopped
  <2>2. kind = "fixed" => maxDel' = -1
    <3>1. CASE GcWindow
      BY <3>1 DEF GcWindow, Stopped
    <3>2. CASE Exit \/ Kill
      BY <1>4, <3>2 DEF InLife, Exit, Kill, Down
    <3>3. CASE Boot
      BY <1>4, <3>3 DEF InLife, Boot
    <3>4. CASE ~GcWindow /\ ~Exit /\ ~Kill /\ ~Boot
      BY <3>4, MaxDelStays DEF Stopped
    <3>5. QED
      BY <3>1, <3>2, <3>3, <3>4
  <2>3. QED
    BY <1>1, <2>1, <2>2 DEF Stopped
<1>5. CASE Exit \/ Kill
  <2>1. Down
    BY <1>5 DEF Exit, Kill
  <2>2. kind = "fixed" => saved' = NoFile
    BY <1>5 DEF Exit, Kill, Stopped
  <2>3. QED
    BY <1>1, <2>1, <2>2 DEF Down, Stopped
<1>6. CASE Boot
  <2>1. kind = "fixed" => maxDel' = -1
    BY <1>6 DEF Boot, Stopped
  <2>2. up' /\ saved' = NoFile
    BY <1>6 DEF Boot
  <2>3. QED
    BY <1>1, <2>1, <2>2 DEF Stopped
<1>7. QED
  BY <1>3, <1>4, <1>5, <1>6, LifeStep

(***************************************************************************)
(* The order of the items.                                                 *)
(***************************************************************************)

\* Taking the head of an increasing sequence leaves what is larger.
LEMMA IncreasingTail ==
    ASSUME NEW n \in Nat, NEW s \in Seq(1..n), s # <<>>, Increasing(s)
    PROVE  Increasing(Tail(s)) /\ \A x \in Range(Tail(s)) : Head(s) < x
<1>1. PICK k \in Nat : k = Len(s) /\ k >= 1
  BY SeqTail
<1>2. PICK t : t = Tail(s)
  OBVIOUS
<1>3. DOMAIN s = 1..k /\ DOMAIN t = 1..(k - 1) /\ Head(s) = s[1] /\ \A i \in 1..(k - 1) : t[i] = s[i + 1]
  BY <1>1, <1>2, SeqTail
<1>4. \A i, j \in 1..k : i < j => s[i] < s[j]
  BY <1>3 DEF Increasing
<1>5. \A i \in 1..(k - 1) : i + 1 \in 1..k /\ 1 < i + 1
  BY <1>1
<1>6. \A i, j \in 1..(k - 1) : i < j => t[i] < t[j]
  <2> TAKE i, j \in 1..(k - 1)
  <2> HAVE i < j
  <2>1. i + 1 < j + 1
    OBVIOUS
  <2>2. QED
    BY <1>3, <1>4, <1>5, <2>1
<1>7. \A i \in 1..(k - 1) : s[1] < t[i]
  BY <1>1, <1>3, <1>4, <1>5
<1>8. QED
  BY <1>2, <1>3, <1>6, <1>7 DEF Increasing, Range

\* Appending what is larger keeps it increasing.
LEMMA IncreasingAppend ==
    ASSUME NEW s \in Seq(Int), NEW x \in Int, Increasing(s), \A y \in Range(s) : y < x
    PROVE  Increasing(Append(s, x))
<1>1. PICK k \in Nat : k = Len(s) /\ DOMAIN s = 1..k
  OBVIOUS
<1>2. PICK t : t = Append(s, x)
  OBVIOUS
<1>3. DOMAIN t = 1..(k + 1) /\ t[k + 1] = x /\ \A i \in 1..k : t[i] = s[i]
  BY <1>1, <1>2
<1>4. \A i \in 1..k : t[i] < x
  BY <1>1, <1>3 DEF Range
<1>5. \A i, j \in 1..k : i < j => t[i] < t[j]
  BY <1>1, <1>3 DEF Increasing
<1>6. ASSUME NEW i \in 1..(k + 1), NEW j \in 1..(k + 1), i < j PROVE t[i] < t[j]
  <2>1. i \in 1..k /\ (j \in 1..k \/ j = k + 1)
    BY <1>6
  <2>2. QED
    BY <1>3, <1>4, <1>5, <1>6, <2>1
<1>7. QED
  BY <1>2, <1>3, <1>6 DEF Increasing

\* The steps that touch neither the items nor the watermarks.
LEMMA OrderFrame ==
    ASSUME [Next]_vars, ~Replay, ~Read, ~ConsumeData, ~ConsumeWmb, ~Drain, ~GcWindow, ~Publish,
           ~Exit, ~Kill, ~Boot
    PROVE  UNCHANGED <<input, nread, chan, replay, wm, fetched, pub, maxDel, saved, gcEnd, gcq, up>>
<1>1. CASE ReducerNext
  BY <1>1 DEF ReducerNext, HandleError, StreamEnds
<1>2. CASE ActorNext
  BY <1>2 DEF ActorNext, ActorOpen, ActorAppend, ActorClose
<1>3. CASE TaskNext
  BY <1>3 DEF TaskNext, CloseCancelled, Respond, WriteResults
<1>4. CASE HardShutdown
  BY <1>4 DEF HardShutdown
<1>5. CASE FaultNext
  BY <1>5 DEF FaultNext, CloseFails, GiveUpWrite, TaskFails, Cancel
<1>6. CASE Idle \/ UNCHANGED vars
  BY <1>6 DEF Idle, vars
<1>7. QED
  BY <1>1, <1>2, <1>3, <1>4, <1>5, <1>6 DEF Next

\* Items that are read or not read yet are items of the input.
LEMMA ItemRange ==
    ASSUME Types
    PROVE  /\ nread \in Nat /\ Len(input) \in Nat /\ 1..nread \subseteq 1..Len(input)
           /\ Unread \subseteq 1..Len(input) /\ input \in Inputs
           /\ Range(chan) \subseteq 1..nread /\ Range(replay) \subseteq 1..nread
           /\ ToCome \subseteq 1..nread
           /\ \A i \in Unread : i \in Int /\ i > nread
           /\ \A i \in 1..Len(input) : X(i) \in Int /\ X(i) >= -1
           /\ \A i \in 1..Len(input) : \A j \in 1..Len(input) : i <= j => X(i) <= X(j)
<1>1. input \in Inputs /\ nread \in 0..Len(input) /\ chan \in Seq(1..nread) /\ replay \in Seq(1..nread)
  BY DEF Types
<1>2. Len(input) \in Nat
  BY <1>1, AlignedAssumption DEF Possible
<1>3. nread \in Nat /\ 1..nread \subseteq 1..Len(input) /\ Unread \subseteq 1..Len(input)
      /\ \A i \in Unread : i \in Int /\ i > nread
  BY <1>1, <1>2 DEF Unread
<1>4. Range(chan) \subseteq 1..nread /\ Range(replay) \subseteq 1..nread
  BY <1>1, SeqRange
<1>5. ASSUME NEW i \in 1..Len(input)
      PROVE X(i) \in Int /\ X(i) >= -1 /\ \A j \in 1..i : X(j) <= X(i)
  BY <1>1, XFacts
<1>6. \A i \in 1..Len(input) : \A j \in 1..Len(input) : i <= j => i \in 1..j
  OBVIOUS
<1>7. \A i \in 1..Len(input) : \A j \in 1..Len(input) : i <= j => X(i) <= X(j)
  BY <1>5, <1>6
<1>8. QED
  BY <1>1, <1>2, <1>3, <1>4, <1>5, <1>7 DEF ToCome

\* The items are taken in their order.
LEMMA OrderNext == Types /\ Stopped /\ Order /\ Windows /\ Actor /\ [Next]_vars => Order'
<1> SUFFICES ASSUME Types, Stopped, Order, Windows, Actor, [Next]_vars PROVE Order'
  OBVIOUS
<1>1. input' = input /\ kind' = kind /\ \A i : X(i)' = X(i)
  BY InputStays, Rigid
<1>2. /\ nread \in Nat /\ Len(input) \in Nat /\ 1..nread \subseteq 1..Len(input)
      /\ Unread \subseteq 1..Len(input) /\ input \in Inputs
      /\ Range(chan) \subseteq 1..nread /\ Range(replay) \subseteq 1..nread
      /\ ToCome \subseteq 1..nread
      /\ \A i \in Unread : i \in Int /\ i > nread
      /\ \A i \in 1..Len(input) : X(i) \in Int /\ X(i) >= -1
      /\ \A i \in 1..Len(input) : \A j \in 1..Len(input) : i <= j => X(i) <= X(j)
  BY ItemRange
<1>3. /\ Increasing(chan) /\ Increasing(replay)
      /\ \A c \in Range(chan), r \in Range(replay) : c < r
      /\ \A i \in ToCome : wm <= X(i)
      /\ \A i \in Unread : /\ wm <= X(i) /\ fetched <= X(i) /\ pub <= X(i) /\ maxDel <= X(i)
                           /\ \A s \in saved : s.maxDel <= X(i)
      /\ replay # <<>> => fetched = -1
      /\ pub >= -1
  BY DEF Order
<1>4. /\ wm \in Int /\ fetched \in Int /\ pub \in Int /\ maxDel \in Int /\ Length \in Nat
      /\ chan \in Seq(1..nread) /\ replay \in Seq(1..nread)
  BY Constants DEF Types
<1>5. CASE Replay
  <2>1. replay # <<>> /\ chan' = Append(chan, Head(replay)) /\ replay' = Tail(replay)
        /\ UNCHANGED <<nread, wm, fetched, pub, maxDel, saved>>
    BY <1>5 DEF Replay
  <2>2. Head(replay) \in 1..nread /\ Range(replay) = {Head(replay)} \cup Range(replay')
    BY <1>4, <2>1, SeqTail
  <2>3. Range(chan') = Range(chan) \cup {Head(replay)}
    BY <1>4, <2>1, <2>2, RangeAppend
  <2>4. Increasing(replay') /\ \A x \in Range(replay') : Head(replay) < x
    BY <1>2, <1>3, <1>4, <2>1, IncreasingTail
  <2>5. Increasing(chan')
    <3>1. 1..nread \subseteq Int
      BY <1>2
    <3>2. chan \in Seq(Int) /\ Head(replay) \in Int
      BY <1>4, <2>2, <3>1, SeqOfMore
    <3>3. \A y \in Range(chan) : y < Head(replay)
      BY <1>3, <2>2
    <3>4. QED
      BY <1>3, <2>1, <3>2, <3>3, IncreasingAppend
  <2>6. \A c \in Range(chan'), r \in Range(replay') : c < r
    BY <1>3, <2>2, <2>3, <2>4
  <2>7. ToCome' = ToCome /\ Unread' = Unread
    BY <1>1, <2>1, <2>2, <2>3 DEF ToCome, Unread
  <2>8. QED
    BY <1>1, <1>3, <2>1, <2>4, <2>5, <2>6, <2>7 DEF Order
<1>6. CASE Read
  <2>1. replay = <<>> /\ nread < Len(input) /\ nread' = nread + 1 /\ chan' = Append(chan, nread + 1)
        /\ fetched' = Larger(fetched, input[nread + 1].wm)
        /\ UNCHANGED <<replay, wm, pub, maxDel, saved>>
    BY <1>6 DEF Read
  <2>2. PICK n \in 1..Len(input) : n = nread + 1
    BY <1>2, <2>1
  <2>3. n \in Unread /\ Unread' \subseteq Unread /\ \A i \in Unread' : n <= i
    BY <1>1, <1>2, <2>1, <2>2 DEF Unread
  <2>4. 1..nread \subseteq 1..n /\ n \in 1..n
    BY <1>2, <2>2
  <2>5. chan \in Seq(1..n)
    BY <1>4, <2>4, SeqOfMore
  <2>6. Range(chan') = Range(chan) \cup {n}
    BY <2>1, <2>2, <2>4, <2>5, RangeAppend
  <2>7. Range(replay) = {}
    BY <2>1 DEF Range
  <2>8. Increasing(chan')
    <3>1. 1..nread \subseteq Int /\ n \in Int /\ \A y \in 1..nread : y < n
      BY <1>2, <2>2
    <3>2. chan \in Seq(Int) /\ \A y \in Range(chan) : y < n
      BY <1>2, <1>4, <3>1, SeqOfMore
    <3>3. QED
      BY <1>3, <2>1, <2>2, <3>1, <3>2, IncreasingAppend
  <2>9. \A i \in ToCome' : wm' <= X(i)
    BY <1>3, <2>1, <2>3, <2>6, <2>7 DEF ToCome
  <2>10. \A i \in Unread' : fetched' <= X(i)
    <3> TAKE i \in Unread'
    <3>1. i \in 1..Len(input) /\ X(n) <= X(i) /\ fetched <= X(i) /\ X(i) \in Int /\ X(n) \in Int
      BY <1>2, <1>3, <2>3
    <3>2. input[n].wm <= X(n) /\ input[n].wm \in Int
      BY <1>2, XFacts, ItemType
    <3>3. QED
      BY <1>4, <2>1, <2>2, <3>1, <3>2 DEF Larger
  <2>11. Increasing(replay') /\ replay' = <<>>
         /\ \A c \in Range(chan'), r \in Range(replay') : c < r
    BY <1>3, <2>1, <2>7
  <2>12. \A i \in Unread' : /\ wm' <= X(i) /\ fetched' <= X(i) /\ pub' <= X(i) /\ maxDel' <= X(i)
                            /\ \A s \in saved' : s.maxDel <= X(i)
    BY <1>3, <2>1, <2>3, <2>10
  <2>13. QED
    BY <1>1, <1>3, <2>1, <2>8, <2>9, <2>11, <2>12 DEF Order
<1>7. CASE ConsumeData \/ ConsumeWmb
  <2>1. PICK m, C, N, cls, msgs : Feed(m, C, N, cls, msgs)
    BY <1>7, ConsumeFeeds DEF Feeds
  <2>2. /\ m \in 1..nread /\ chan # <<>> /\ m = Head(chan) /\ chan' = Tail(chan) /\ wm' = X(m)
        /\ UNCHANGED <<nread, replay, fetched, pub, maxDel, saved>>
    BY <2>1 DEF Feed
  <2>3. Range(chan) = {m} \cup Range(chan')
    BY <1>4, <2>2, SeqTail
  <2>4. Increasing(chan') /\ \A x \in Range(chan') : m < x
    BY <1>2, <1>3, <1>4, <2>2, IncreasingTail
  <2>5. m \in 1..Len(input) /\ m \in Int
    BY <1>2, <2>2
  <2>6. \A i \in ToCome' \cup Unread : i \in 1..Len(input) /\ m <= i
    <3>1. \A i \in Range(chan') : i \in 1..Len(input) /\ m <= i
      BY <1>2, <2>3, <2>4, <2>5
    <3>2. \A i \in Range(replay) : i \in 1..Len(input) /\ m <= i
      BY <1>2, <1>3, <2>3, <2>5
    <3>3. \A i \in Unread : i \in 1..Len(input) /\ m <= i
      BY <1>2, <2>2
    <3>4. QED
      BY <2>2, <3>1, <3>2, <3>3 DEF ToCome
  <2>7. \A i \in ToCome' \cup Unread : wm' <= X(i)
    BY <1>2, <2>2, <2>5, <2>6
  <2>8. \A c \in Range(chan'), r \in Range(replay') : c < r
    BY <1>3, <2>2, <2>3
  <2>9. Unread' = Unread
    BY <1>1, <2>2 DEF Unread
  <2>10. QED
    BY <1>1, <1>3, <2>2, <2>4, <2>7, <2>8, <2>9 DEF Order
<1>8. CASE Drain
  <2>1. /\ chan # <<>> /\ chan' = Tail(chan)
        /\ UNCHANGED <<nread, replay, wm, fetched, pub, maxDel, saved>>
    BY <1>8 DEF Drain
  <2>2. Range(chan) = {Head(chan)} \cup Range(chan') /\ Increasing(chan')
    BY <1>2, <1>3, <1>4, <2>1, SeqTail, IncreasingTail
  <2>3. ToCome' \subseteq ToCome /\ Unread' = Unread
    BY <1>1, <2>1, <2>2 DEF ToCome, Unread
  <2>4. \A c \in Range(chan'), r \in Range(replay') : c < r
    BY <1>3, <2>1, <2>2
  <2>5. QED
    BY <1>1, <1>3, <2>1, <2>2, <2>3, <2>4 DEF Order
<1>9. CASE GcWindow
  <2>1. /\ closing # None /\ UNCHANGED <<nread, chan, replay, wm, fetched, pub, saved>>
        /\ maxDel' = maxDel \/ maxDel' = Larger(maxDel, End(closing.w))
    BY <1>9 DEF GcWindow
  <2>2. closing.w \in closed /\ closing.w \in Int
    BY <2>1 DEF Actor, Types
  <2>3. End(closing.w) <= wm /\ End(closing.w) \in Int
    BY <1>4, <2>2 DEF Windows, End
  <2>4. \A i \in Unread : maxDel' <= X(i)
    BY <1>2, <1>3, <1>4, <2>1, <2>3 DEF Larger
  <2>5. ToCome' = ToCome /\ Unread' = Unread
    BY <1>1, <2>1 DEF ToCome, Unread
  <2>6. QED
    BY <1>1, <1>3, <2>1, <2>4, <2>5 DEF Order
<1>10. CASE Publish
  <2>1. /\ MinWatermark > pub /\ pub' = MinWatermark
        /\ UNCHANGED <<nread, chan, replay, wm, fetched, maxDel, saved>>
    BY <1>10 DEF Publish
  <2>2. MinWatermark \in Int /\ MinWatermark <= fetched
    <3>1. active \in SUBSET Int /\ closed \in SUBSET Int /\ IsFiniteSet(active) /\ IsFiniteSet(closed)
      BY DEF Types
    <3>2. active \cup closed # {} => Oldest(active, closed) \in Int
      BY <3>1, OldestIs
    <3>3. QED
      BY <1>4, <3>2 DEF MinWatermark, Smaller, End
  <2>3. \A i \in Unread : pub' <= X(i)
    BY <1>2, <1>3, <1>4, <2>1, <2>2
  <2>4. pub' >= -1
    BY <1>3, <1>4, <2>1, <2>2
  <2>5. ToCome' = ToCome /\ Unread' = Unread
    BY <1>1, <2>1 DEF ToCome, Unread
  <2>6. QED
    BY <1>1, <1>3, <2>1, <2>3, <2>4, <2>5 DEF Order
<1>11. CASE Exit \/ Kill
  <2>1. Down /\ UNCHANGED <<nread, pub>>
    BY <1>11 DEF Exit, Kill
  <2>2. Unread' = Unread /\ Range(chan') = {} /\ Range(replay') = {} /\ replay' = <<>>
        /\ Increasing(chan') /\ Increasing(replay')
    BY <1>1, <2>1 DEF Unread, Down, Range, Increasing
  <2>3. \A i \in Unread : wm' <= X(i) /\ fetched' <= X(i) /\ maxDel' <= X(i)
    BY <1>2, <2>1 DEF Down
  <2>4. \A s \in saved' : s \in saved \/ s.maxDel = maxDel
    BY <1>11 DEF Exit, Kill, State, NoFile
  <2>5. \A i \in Unread : \A s \in saved' : s.maxDel <= X(i)
    BY <1>3, <2>4
  <2>6. ToCome' = {}
    BY <2>2 DEF ToCome
  <2>7. QED
    BY <1>1, <1>3, <2>1, <2>2, <2>3, <2>5, <2>6 DEF Order
<1>12. CASE Boot
  <2>1. chan = <<>> /\ wm = -1 /\ fetched = -1 /\ ~up
    BY <1>12 DEF Boot, Stopped
  <2>2. UNCHANGED <<nread, chan, wm, fetched, pub>> /\ saved' = NoFile
    BY <1>12 DEF Boot
  <2>3. /\ replay' \in Seq(1..nread) /\ Increasing(replay')
        /\ Range(replay') = {i \in (1..nread) \ gone : input[i].et >= gcEnd}
    BY <1>12, BootReplays
  <2>4. Range(chan') = {} /\ Increasing(chan')
    BY <2>1, <2>2 DEF Range, Increasing
  <2>5. \A i \in ToCome' : i \in 1..Len(input)
    BY <1>2, <2>3, <2>4 DEF ToCome
  <2>6. \A i \in ToCome' : wm' <= X(i)
    BY <1>2, <2>1, <2>2, <2>5
  <2>7. maxDel' = -1 \/ \E s \in saved : maxDel' = s.maxDel
    BY <1>12, BootLoads
  <2>8. \A i \in Unread : maxDel' <= X(i)
    BY <1>2, <1>3, <2>7
  <2>9. Unread' = Unread
    BY <1>1, <2>2 DEF Unread
  <2>10. QED
    BY <1>1, <1>3, <2>1, <2>2, <2>3, <2>4, <2>6, <2>8, <2>9 DEF Order, NoFile
<1>13. CASE ~(Replay \/ Read \/ ConsumeData \/ ConsumeWmb \/ Drain \/ GcWindow \/ Publish
             \/ Exit \/ Kill \/ Boot)
  <2>1. UNCHANGED <<input, nread, chan, replay, wm, fetched, pub, maxDel, saved, gcEnd, gcq, up>>
    BY <1>13, OrderFrame
  <2>2. ToCome' = ToCome /\ Unread' = Unread
    BY <2>1 DEF ToCome, Unread
  <2>3. QED
    BY <1>1, <1>3, <2>1, <2>2 DEF Order
<1>14. QED
  BY <1>5, <1>6, <1>7, <1>8, <1>9, <1>10, <1>11, <1>12, <1>13

\* What the item that is consumed is, and what it leaves.
LEMMA FeedFacts ==
    ASSUME Types, Order, NEW m, NEW C, NEW N, NEW cls, NEW msgs, Feed(m, C, N, cls, msgs)
    PROVE  /\ m \in 1..nread /\ m \in 1..Len(input) /\ m \in Int /\ m \in ToCome
           /\ ToCome' = ToCome \ {m} /\ \A t \in ToCome' : m < t
           /\ wm <= X(m) /\ X(m) \in Int /\ C \in SUBSET Int /\ N \in SUBSET Int
           /\ \A w \in N : X(m) < End(w)
           /\ nread' = nread /\ Unread' = Unread /\ Range(chan) = {m} \cup Range(chan')
           /\ \A w \in C : End(w) \in Int /\ \A v \in N : w < v
<1>1. /\ m \in 1..nread /\ chan # <<>> /\ m = Head(chan) /\ chan' = Tail(chan)
      /\ UNCHANGED <<nread, replay, input>>
  BY DEF Feed
<1>2. /\ nread \in Nat /\ Len(input) \in Nat /\ 1..nread \subseteq 1..Len(input) /\ input \in Inputs
      /\ ToCome \subseteq 1..nread
      /\ \A i \in 1..Len(input) : X(i) \in Int /\ X(i) >= -1
  BY ItemRange
<1>3. chan \in Seq(1..nread) /\ active \in SUBSET Int /\ Length \in Nat
  BY Constants DEF Types
<1>4. Range(chan) = {m} \cup Range(chan')
  BY <1>1, <1>3, SeqTail
<1>5. \A x \in Range(chan') : m < x
  BY <1>1, <1>2, <1>3, IncreasingTail DEF Order
<1>6. \A x \in Range(replay) : m < x
  BY <1>4 DEF Order
<1>7. m \in ToCome /\ wm <= X(m)
  BY <1>4 DEF ToCome, Order
<1>8. m \in Int /\ m \in 1..Len(input)
  BY <1>1, <1>2
<1>9. ToCome' = Range(chan') \cup Range(replay)
  BY <1>1 DEF ToCome
<1>10. \A t \in ToCome' : m < t
  BY <1>5, <1>6, <1>9
<1>11. ToCome' = ToCome \ {m}
  <2>1. m \notin ToCome'
    BY <1>8, <1>10
  <2>2. ToCome = ToCome' \cup {m}
    BY <1>4, <1>9 DEF ToCome
  <2>3. QED
    BY <2>1, <2>2
<1>12. C \in SUBSET Int /\ N \in SUBSET WindowsOf(m) /\ (N # {} => Accept(m))
  BY <1>3 DEF Feed
<1>13. WindowsOf(m) \subseteq Int /\ \A w \in WindowsOf(m) : X(m) < End(w) \/ ~Accept(m)
  BY <1>2, <1>8, WindowFacts
<1>14. \A w \in C : End(w) \in Int
  BY <1>3, <1>12 DEF End
<1>15. \A w \in C : \A v \in N : w < v
  BY DEF Feed
<1>16. Unread' = Unread
  BY <1>1 DEF Unread
<1>17. QED
  BY <1>1, <1>2, <1>4, <1>7, <1>8, <1>10, <1>11, <1>12, <1>13, <1>14, <1>15, <1>16

\* The steps that touch no window.
LEMMA WindowsFrame ==
    ASSUME [Next]_vars, ~ConsumeData, ~ConsumeWmb, ~GcWindow, ~Exit, ~Kill, ~Boot
    PROVE  UNCHANGED <<active, closed, wm, maxDel, saved, gcq, gcEnd, accepted, up>>
<1>1. CASE Replay \/ Read
  BY <1>1 DEF Replay, Read
<1>2. CASE ReducerNext
  BY <1>2 DEF ReducerNext, Drain, HandleError, StreamEnds
<1>3. CASE ActorNext
  BY <1>3 DEF ActorNext, ActorOpen, ActorAppend, ActorClose
<1>4. CASE TaskNext
  BY <1>4 DEF TaskNext, CloseCancelled, Respond, WriteResults
<1>5. CASE HardShutdown \/ Publish
  BY <1>5 DEF HardShutdown, Publish
<1>6. CASE FaultNext
  BY <1>6 DEF FaultNext, CloseFails, GiveUpWrite, TaskFails, Cancel
<1>7. CASE Idle \/ UNCHANGED vars
  BY <1>7 DEF Idle, vars
<1>8. QED
  BY <1>1, <1>2, <1>3, <1>4, <1>5, <1>6, <1>7 DEF Next

\* A closed window is older than an active one, and than one that the next item is put into.
LEMMA ClosedOlder ==
    ASSUME Types, Order, Windows, NEW m, NEW C, NEW N, NEW cls, NEW msgs, Feed(m, C, N, cls, msgs)
    PROVE  \A c \in closed : \A w \in active \cup N : c < w /\ c # w /\ End(c) <= X(m)
<1> TAKE c \in closed
<1> TAKE w \in active \cup N
<1>1. c \in Int /\ Length \in Nat /\ active \in SUBSET Int /\ wm \in Int
  BY Constants DEF Types
<1>2. wm <= X(m) /\ X(m) \in Int /\ N \in SUBSET Int /\ \A v \in N : X(m) < End(v)
  BY FeedFacts
<1>3. c + Length <= wm
  BY DEF Windows, End
<1>4. w \in Int
  BY <1>1, <1>2
<1>5. c < w
  <2>1. CASE w \in active
    BY <2>1 DEF Windows
  <2>2. CASE w \in N
    <3>1. X(m) < w + Length
      BY <1>2, <2>2 DEF End
    <3>2. QED
      BY <1>1, <1>2, <1>3, <1>4, <3>1
  <2>3. QED
    BY <2>1, <2>2
<1>6. QED
  BY <1>1, <1>2, <1>3, <1>4, <1>5 DEF End

\* Windows are closed from the oldest on.
LEMMA WindowsNext == Types /\ Stopped /\ Order /\ Windows /\ [Next]_vars => Windows'
<1> SUFFICES ASSUME Types, Stopped, Order, Windows, [Next]_vars PROVE Windows'
  OBVIOUS
<1>1. \A w : End(w)' = End(w)
  BY InputStays, Rigid
<1>2. CASE ConsumeData \/ ConsumeWmb
  <2>1. PICK m, C, N, cls, msgs : Feed(m, C, N, cls, msgs)
    BY <1>2, ConsumeFeeds DEF Feeds
  <2>2. \A c \in closed : \A w \in active \cup N : c < w /\ End(c) <= X(m)
    BY <2>1, ClosedOlder
  <2>3. /\ active' = (active \ C) \cup N /\ closed' = closed \cup C /\ wm' = X(m)
        /\ C \in SUBSET active /\ \A w \in C : End(w) <= X(m)
        /\ C = {} \/ \A w \in active \ C, c \in C : c < w
        /\ \A w \in N, c \in C : c < w
    BY <2>1 DEF Feed
  <2>4. \A c \in closed', a \in active' : c < a
    BY <2>2, <2>3
  <2>5. \A c \in closed' : End(c) <= wm'
    BY <2>2, <2>3
  <2>6. QED
    BY <1>1, <2>4, <2>5 DEF Windows
<1>3. CASE GcWindow
  BY <1>1, <1>3 DEF GcWindow, Windows
<1>4. CASE Exit \/ Kill
  BY <1>4 DEF Exit, Kill, Down, Windows
<1>5. CASE Boot
  <2>1. closed' = {}
    BY <1>5 DEF Boot, Stopped
  <2>2. QED
    BY <2>1 DEF Windows
<1>6. CASE ~(ConsumeData \/ ConsumeWmb \/ GcWindow \/ Exit \/ Kill \/ Boot)
  BY <1>1, <1>6, WindowsFrame DEF Windows
<1>7. QED
  BY <1>2, <1>3, <1>4, <1>5, <1>6

(***************************************************************************)
(* What the actor has still to do.                                         *)
(***************************************************************************)

\* The places of three sequences put together.
Placed(q, a, b, c, n, k, l) ==
    /\ DOMAIN a = 1..n /\ DOMAIN b = 1..k /\ DOMAIN c = 1..l
    /\ DOMAIN q = 1..(n + k + l)
    /\ \A i \in 1..n : q[i] = a[i]
    /\ \A i \in 1..k : q[n + i] = b[i] /\ n + i \in 1..(n + k + l)
    /\ \A i \in 1..l : q[n + k + i] = c[i] /\ n + k + i \in 1..(n + k + l)
    /\ \A i \in 1..(n + k + l) : \/ i \in 1..n
                                 \/ \E j \in 1..k : i = n + j /\ q[i] = b[j]
                                 \/ \E j \in 1..l : i = n + k + j /\ q[i] = c[j]

\* Every place of the whole is a place of one of the three.
LEMMA ThreeParts ==
    ASSUME NEW S, NEW a \in Seq(S), NEW b \in Seq(S), NEW c \in Seq(S)
    PROVE  \E n \in Nat, k \in Nat, l \in Nat : Placed(a \o b \o c, a, b, c, n, k, l)
<1>0. PICK q : q = a \o b \o c
  OBVIOUS
<1>1. PICK n \in Nat, k \in Nat, l \in Nat : n = Len(a) /\ k = Len(b) /\ l = Len(c)
  OBVIOUS
<1>2. DOMAIN a = 1..n /\ DOMAIN b = 1..k /\ DOMAIN c = 1..l
  BY <1>1
<1>3. PICK p : p = a \o b /\ p \in Seq(S)
  <2>1. a \o b \in Seq(S)
    OBVIOUS
  <2>2. QED
    BY <2>1
<1>4. /\ Len(p) = n + k /\ DOMAIN p = 1..(n + k)
      /\ \A i \in 1..(n + k) : p[i] = IF i <= n THEN a[i] ELSE b[i - n]
  BY <1>1, <1>3
<1>5. q = p \o c
  BY <1>0, <1>3
<1>6. /\ Len(q) = n + k + l /\ DOMAIN q = 1..(n + k + l)
      /\ \A i \in 1..(n + k + l) : q[i] = IF i <= n + k THEN p[i] ELSE c[i - (n + k)]
  BY <1>1, <1>3, <1>4, <1>5
<1>7. \A i \in 1..n : q[i] = a[i]
  BY <1>4, <1>6
<1>8. \A i \in 1..(n + k + l) : i - n \in 1..k => q[i] = b[i - n]
  BY <1>4, <1>6
<1>9. \A i \in 1..(n + k + l) : i - (n + k) \in 1..l => q[i] = c[i - (n + k)]
  BY <1>6
<1>10. \A i \in 1..k : q[n + i] = b[i] /\ n + i \in 1..(n + k + l)
  <2> TAKE i \in 1..k
  <2>1. n + i \in 1..(n + k + l) /\ (n + i) - n = i
    OBVIOUS
  <2>2. QED
    BY <1>8, <2>1
<1>11. \A i \in 1..l : q[n + k + i] = c[i] /\ n + k + i \in 1..(n + k + l)
  <2> TAKE i \in 1..l
  <2>1. n + k + i \in 1..(n + k + l) /\ (n + k + i) - (n + k) = i
    OBVIOUS
  <2>2. QED
    BY <1>9, <2>1
<1>12. ASSUME NEW i \in 1..(n + k + l)
       PROVE  \/ i \in 1..n
              \/ \E j \in 1..k : i = n + j /\ q[i] = b[j]
              \/ \E j \in 1..l : i = n + k + j /\ q[i] = c[j]
  <2>1. CASE i \in 1..n
    BY <2>1
  <2>2. CASE i > n /\ i <= n + k
    <3>1. i - n \in 1..k /\ i = n + (i - n)
      BY <2>2
    <3>2. QED
      BY <1>8, <3>1
  <2>3. CASE i > n + k
    <3>1. i - (n + k) \in 1..l /\ i = n + k + (i - (n + k))
      BY <2>3
    <3>2. QED
      BY <1>9, <3>1
  <2>4. QED
    BY <2>1, <2>2, <2>3
<1>13. Placed(q, a, b, c, n, k, l)
  BY <1>2, <1>6, <1>7, <1>10, <1>11, <1>12 DEF Placed
<1>14. QED
  BY <1>0, <1>13

\* What the reducer sends keeps the order of the actor's messages.
LEMMA ActorFeed ==
    ASSUME Types, Order, Windows, Actor,
           NEW m, NEW C, NEW N, NEW cls, NEW msgs, Feed(m, C, N, cls, msgs)
    PROVE  Actor'
<1>1. /\ C \in SUBSET active
      /\ \A i \in DOMAIN cls : cls[i].op = "close" /\ cls[i].w \in C
      /\ \A i, j \in DOMAIN cls : i < j => cls[i].w < cls[j].w
      /\ \A w \in C : \E i \in DOMAIN cls : cls[i].w = w
      /\ \A i \in DOMAIN msgs : /\ msgs[i].m = m /\ msgs[i].w \in N
                                /\ msgs[i].op = IF msgs[i].w \in active \ C THEN "append" ELSE "open"
      /\ \A i, j \in DOMAIN msgs : msgs[i].w = msgs[j].w => i = j
      /\ active' = (active \ C) \cup N /\ closed' = closed \cup C
      /\ UNCHANGED <<stream, closing>>
  BY DEF Feed
<1>2. C \in SUBSET Int /\ N \in SUBSET Int /\ \A c \in C : \A w \in N : c < w
  BY FeedFacts
<1>3. \A c \in closed : \A w \in active \cup N : c < w /\ c # w
  BY ClosedOlder
<1>4. PICK q : q = aq'
  OBVIOUS
<1>5. q = aq \o cls \o msgs /\ aq \in Seq(WindowOp) /\ cls \in Seq(WindowOp) /\ msgs \in Seq(WindowOp)
  BY <1>4 DEF Feed, Types
<1>6. PICK n \in Nat, k \in Nat, l \in Nat : Placed(q, aq, cls, msgs, n, k, l)
  BY <1>5, ThreeParts
<1> DEFINE D == 1..(n + k + l)
           Old(i) == i \in 1..n
           Cls(i) == \E j \in 1..k : i = n + j /\ q[i] = cls[j]
           Msg(i) == \E j \in 1..l : i = n + k + j /\ q[i] = msgs[j]
<1>7. \A i \in D : Old(i) => q[i] = aq[i] /\ i \in DOMAIN aq
  BY <1>6 DEF Placed
<1>8. \A i \in D : Cls(i) => q[i].op = "close" /\ q[i].w \in C
  <2>1. \A j \in 1..k : cls[j].op = "close" /\ cls[j].w \in C
    BY <1>1, <1>6 DEF Placed
  <2>2. QED
    BY <2>1
<1>9. \A i \in D : Msg(i) => q[i].op # "close" /\ q[i].w \in N
                             /\ (q[i].op = "open" => q[i].w \notin active \ C)
  BY <1>1, <1>6 DEF Placed
<1>10. \A i, j \in D : Cls(i) /\ Cls(j) /\ i < j => q[i].w < q[j].w
  <2> TAKE i, j \in D
  <2> HAVE Cls(i) /\ Cls(j) /\ i < j
  <2>1. PICK a \in 1..k : i = n + a /\ q[i] = cls[a]
    OBVIOUS
  <2>2. PICK b \in 1..k : j = n + b /\ q[j] = cls[b]
    OBVIOUS
  <2>3. a < b
    BY <2>1, <2>2
  <2>4. \A x, y \in 1..k : x < y => cls[x].w < cls[y].w
    BY <1>1, <1>6 DEF Placed
  <2>5. QED
    BY <2>1, <2>2, <2>3, <2>4
<1>11. \A i, j \in D : Msg(i) /\ Msg(j) /\ j < i => q[i].w # q[j].w
  <2> TAKE i, j \in D
  <2> HAVE Msg(i) /\ Msg(j) /\ j < i
  <2>1. PICK a \in 1..l : i = n + k + a /\ q[i] = msgs[a]
    OBVIOUS
  <2>2. PICK b \in 1..l : j = n + k + b /\ q[j] = msgs[b]
    OBVIOUS
  <2>3. a # b
    BY <2>1, <2>2
  <2>4. DOMAIN msgs = 1..l
    BY <1>6 DEF Placed
  <2>5. \A x, y \in 1..l : msgs[x].w = msgs[y].w => x = y
    BY <1>1, <2>4
  <2>6. msgs[a].w # msgs[b].w
    BY <2>3, <2>5
  <2>7. QED
    BY <2>1, <2>2, <2>6
<1>12. \A i \in D : Old(i) \/ Cls(i) \/ Msg(i)
  BY <1>6 DEF Placed
<1>13. \A i, j \in D : i < j => /\ ~(Cls(i) /\ Old(j)) /\ ~(Msg(i) /\ Old(j)) /\ ~(Msg(i) /\ Cls(j))
  OBVIOUS
<1>14. \A i \in 1..n : i \in D
  OBVIOUS
<1>15. \A w : CloseComes(w) => \E i \in D : q[i].op = "close" /\ q[i].w = w
  BY <1>6, <1>14 DEF CloseComes, Placed
<1>16. \A w \in C : \E i \in D : q[i].op = "close" /\ q[i].w = w
  <2> TAKE w \in C
  <2>1. PICK i \in 1..k : cls[i].w = w
    BY <1>1, <1>6 DEF Placed
  <2>2. q[n + i] = cls[i] /\ n + i \in D /\ cls[i].op = "close"
    BY <1>1, <1>6 DEF Placed
  <2>3. QED
    BY <2>1, <2>2
<1>17. \A w : w \in active \/ CloseComes(w) => w \in active' \/ \E i \in D : q[i].op = "close" /\ q[i].w = w
  BY <1>1, <1>15, <1>16
<1>18. \A w : CloseComes(w)' <=> \E i \in D : q[i].op = "close" /\ q[i].w = w
  BY <1>4, <1>6 DEF CloseComes, Placed
<1>19. \A w : CloseComes(w) => w \in closed
  BY DEF CloseComes, Actor
<1>20. \A i \in DOMAIN aq : aq[i].w \in active \/ aq[i].w \in closed
  BY <1>19 DEF Actor
<1>21. \A i, j \in DOMAIN aq : aq[i].op = "close" /\ i < j =>
          aq[j].w # aq[i].w /\ (aq[j].op = "close" => aq[i].w < aq[j].w)
  <2>1. \A i \in DOMAIN aq : i \in Int
    BY <1>6 DEF Placed
  <2>2. QED
    BY <2>1 DEF Actor
<1> HIDE DEF D, Old, Cls, Msg
<1>22. ASSUME NEW i \in D, q[i].op = "close"
       PROVE  /\ q[i].w \in closed'
              /\ \A j \in D : j > i => q[j].w # q[i].w /\ (q[j].op = "close" => q[i].w < q[j].w)
  <2>1. CASE Old(i)
    <3>1. q[i].w \in closed
      BY <1>7, <1>22, <2>1 DEF Actor
    <3>2. ASSUME NEW j \in D, j > i PROVE q[j].w # q[i].w /\ (q[j].op = "close" => q[i].w < q[j].w)
      <4>1. CASE Old(j)
        <5>1. i < j
          BY <3>2 DEF D
        <5>2. QED
          BY <1>7, <1>21, <1>22, <2>1, <4>1, <5>1
      <4>2. CASE Cls(j)
        BY <1>1, <1>3, <1>8, <3>1, <4>2
      <4>3. CASE Msg(j)
        BY <1>3, <1>9, <3>1, <4>3
      <4>4. QED
        BY <1>12, <4>1, <4>2, <4>3
    <3>3. QED
      BY <1>1, <3>1, <3>2
  <2>2. CASE Cls(i)
    <3>1. q[i].w \in C /\ q[i].w \in Int
      BY <1>2, <1>8, <2>2
    <3>2. ASSUME NEW j \in D, j > i PROVE q[j].w # q[i].w /\ (q[j].op = "close" => q[i].w < q[j].w)
      <4>0. i < j
        BY <3>2 DEF D
      <4>1. CASE Old(j)
        BY <1>13, <2>2, <4>0, <4>1
      <4>2. CASE Cls(j)
        <5>1. q[i].w < q[j].w /\ q[j].w \in Int
          BY <1>2, <1>8, <1>10, <2>2, <4>0, <4>2
        <5>2. QED
          BY <3>1, <5>1
      <4>3. CASE Msg(j)
        <5>1. q[i].w < q[j].w /\ q[j].w \in Int
          BY <1>2, <1>9, <3>1, <4>3
        <5>2. QED
          BY <3>1, <5>1
      <4>4. QED
        BY <1>12, <4>1, <4>2, <4>3
    <3>3. QED
      BY <1>1, <3>1, <3>2
  <2>3. CASE Msg(i)
    BY <1>9, <1>22, <2>3
  <2>4. QED
    BY <1>12, <2>1, <2>2, <2>3
<1>23. ASSUME NEW i \in D, q[i].op # "close"
       PROVE  q[i].w \in active' \/ \E j \in D : q[j].op = "close" /\ q[j].w = q[i].w
  <2>1. CASE Old(i)
    <3>1. q[i] = aq[i] /\ i \in DOMAIN aq
      BY <1>7, <2>1
    <3>2. aq[i].w \in active \/ CloseComes(aq[i].w)
      BY <1>23, <3>1 DEF Actor
    <3>3. QED
      BY <1>17, <3>1, <3>2
  <2>2. CASE Msg(i)
    BY <1>1, <1>9, <2>2
  <2>3. QED
    BY <1>8, <1>12, <1>23, <2>1, <2>2
<1>24. ASSUME NEW i \in D, q[i].op = "open"
       PROVE  q[i].w \notin DOMAIN stream /\ \A j \in D : j < i => q[j].w # q[i].w
  <2>1. CASE Old(i)
    <3>1. q[i] = aq[i] /\ i \in DOMAIN aq
      BY <1>7, <2>1
    <3>2. ASSUME NEW j \in D, j < i PROVE q[j].w # q[i].w
      <4>1. Old(j)
        BY <1>12, <1>13, <2>1, <3>2
      <4>2. q[j] = aq[j] /\ j \in DOMAIN aq
        BY <1>7, <4>1
      <4>3. QED
        BY <1>24, <3>1, <3>2, <4>2 DEF Actor
    <3>3. QED
      BY <1>24, <3>1, <3>2 DEF Actor
  <2>2. CASE Msg(i)
    <3>1. q[i].w \in N /\ q[i].w \notin active \ C
      BY <1>9, <1>24, <2>2
    <3>2. q[i].w \notin C
      <4>1. SUFFICES ASSUME q[i].w \in C PROVE FALSE
        OBVIOUS
      <4>2. q[i].w < q[i].w /\ q[i].w \in Int
        BY <1>2, <3>1, <4>1
      <4>3. QED
        BY <4>2
    <3>3. q[i].w \notin active /\ q[i].w \notin closed
      BY <1>3, <3>1, <3>2
    <3>4. q[i].w \notin DOMAIN stream
      BY <1>19, <3>3 DEF Actor
    <3>5. ASSUME NEW j \in D, j < i PROVE q[j].w # q[i].w
      <4>1. CASE Old(j)
        BY <1>7, <1>20, <3>3, <4>1
      <4>2. CASE Cls(j)
        BY <1>8, <3>2, <4>2
      <4>3. CASE Msg(j)
        BY <1>11, <2>2, <3>5, <4>3
      <4>4. QED
        BY <1>12, <4>1, <4>2, <4>3
    <3>6. QED
      BY <3>4, <3>5
  <2>3. QED
    BY <1>8, <1>12, <1>24, <2>1, <2>2
<1>25. \A w \in DOMAIN stream : w \in active' \/ \E i \in D : q[i].op = "close" /\ q[i].w = w
  BY <1>17 DEF Actor
<1>26. ASSUME closing # None
       PROVE  /\ closing.w \in closed' /\ closing.w \notin DOMAIN stream
              /\ \A i \in D : q[i].w # closing.w
              /\ \A i \in D : q[i].op = "close" => closing.w < q[i].w
  <2>1. closing.w \in closed /\ closing.w \notin DOMAIN stream
    BY <1>26 DEF Actor
  <2>2. ASSUME NEW i \in D PROVE q[i].w # closing.w /\ (q[i].op = "close" => closing.w < q[i].w)
    <3>1. CASE Old(i)
      BY <1>7, <1>26, <3>1 DEF Actor
    <3>2. CASE Cls(i)
      BY <1>1, <1>3, <1>8, <2>1, <3>2
    <3>3. CASE Msg(i)
      BY <1>3, <1>9, <2>1, <3>3
    <3>4. QED
      BY <1>12, <3>1, <3>2, <3>3
  <2>3. QED
    BY <1>1, <2>1, <2>2
<1>27. DOMAIN q = D
  BY <1>6 DEF D, Placed
<1>28. QED
  <2>1. /\ \A i \in DOMAIN aq' : aq'[i].op = "close" =>
              /\ aq'[i].w \in closed'
              /\ \A j \in DOMAIN aq' : j > i => aq'[j].w # aq'[i].w
              /\ \A j \in DOMAIN aq' : j > i /\ aq'[j].op = "close" => aq'[i].w < aq'[j].w
    BY <1>4, <1>22, <1>27
  <2>2. \A i \in DOMAIN aq' : aq'[i].op # "close" => aq'[i].w \in active' \/ \E j \in DOMAIN aq' : aq'[j].op = "close" /\ aq'[j].w = aq'[i].w
    BY <1>4, <1>23, <1>27
  <2>3. \A i \in DOMAIN aq' : aq'[i].op = "open" =>
          /\ aq'[i].w \notin DOMAIN stream'
          /\ \A j \in DOMAIN aq' : j < i => aq'[j].w # aq'[i].w
    BY <1>1, <1>4, <1>24, <1>27
  <2>4. \A w \in DOMAIN stream' : w \in active' \/ CloseComes(w)'
    BY <1>1, <1>18, <1>25
  <2>5. closing' # None =>
          /\ closing'.w \in closed' /\ closing'.w \notin DOMAIN stream'
          /\ \A i \in DOMAIN aq' : aq'[i].w # closing'.w
          /\ \A i \in DOMAIN aq' : aq'[i].op = "close" => closing'.w < aq'[i].w
    BY <1>1, <1>4, <1>26, <1>27
  <2>6. QED
    BY <2>1, <2>2, <2>3, <2>4, <2>5 DEF Actor, CloseComes

\* What is left when the actor takes a message.
Popped(q, n) ==
    /\ DOMAIN aq = 1..n /\ DOMAIN q = 1..(n - 1)
    /\ \A i \in 1..(n - 1) : q[i] = aq[i + 1] /\ i + 1 \in 1..n /\ 1 < i + 1
    /\ \A i \in 1..n : i = 1 \/ \E j \in 1..(n - 1) : i = j + 1

\* The actor takes the first message.
LEMMA PopFacts ==
    ASSUME Types, aq # <<>>
    PROVE  \E n \in Nat : n >= 1 /\ Head(aq) = aq[1] /\ 1 \in 1..n /\ Popped(Tail(aq), n)
<1>1. aq \in Seq(WindowOp)
  BY DEF Types
<1>2. PICK n \in Nat : n = Len(aq) /\ n >= 1
  BY <1>1, SeqTail
<1>3. PICK q : q = Tail(aq)
  OBVIOUS
<1>4. /\ DOMAIN aq = 1..n /\ DOMAIN q = 1..(n - 1)
      /\ Head(aq) = aq[1] /\ \A i \in 1..(n - 1) : q[i] = aq[i + 1]
  BY <1>1, <1>2, <1>3, SeqTail
<1>5. \A i \in 1..(n - 1) : i + 1 \in 1..n /\ 1 < i + 1
  BY <1>2
<1>6. \A i \in 1..n : i = 1 \/ \E j \in 1..(n - 1) : i = j + 1
  <2> TAKE i \in 1..n
  <2>1. CASE i = 1
    BY <2>1
  <2>2. CASE i # 1
    <3>1. i - 1 \in 1..(n - 1) /\ i = (i - 1) + 1
      BY <2>2
    <3>2. QED
      BY <3>1
  <2>3. QED
    BY <2>1, <2>2
<1>7. Popped(q, n)
  BY <1>4, <1>5, <1>6 DEF Popped
<1>8. QED
  BY <1>2, <1>3, <1>4, <1>7

\* Taking a message keeps the order of the others.
LEMMA ActorPops ==
    ASSUME Types, Actor, closing = None, aq # <<>>, aq' = Tail(aq),
           UNCHANGED <<active, closed>>,
           DOMAIN stream' \subseteq DOMAIN stream \cup {Head(aq).w},
           Head(aq).op = "close" => Head(aq).w \notin DOMAIN stream',
           closing' # None => Head(aq).op = "close" /\ closing'.w = Head(aq).w
    PROVE  Actor'
<1>1. PICK n \in Nat : n >= 1 /\ Head(aq) = aq[1] /\ 1 \in 1..n /\ Popped(Tail(aq), n)
  BY PopFacts
<1>2. PICK q : q = aq' /\ q = Tail(aq)
  OBVIOUS
<1>3. /\ DOMAIN aq = 1..n /\ DOMAIN q = 1..(n - 1)
      /\ \A i \in 1..(n - 1) : q[i] = aq[i + 1] /\ i + 1 \in 1..n /\ 1 < i + 1
      /\ \A i \in 1..n : i = 1 \/ \E j \in 1..(n - 1) : i = j + 1
  BY <1>1, <1>2 DEF Popped
<1>4. PICK a : a = aq[1] /\ a = Head(aq)
  BY <1>1
<1>5. \A i \in 1..n : aq[i].op = "close" =>
          /\ aq[i].w \in closed
          /\ \A j \in 1..n : i < j => aq[j].w # aq[i].w
          /\ \A j \in 1..n : i < j /\ aq[j].op = "close" => aq[i].w < aq[j].w
  <2>1. \A i, j \in 1..n : i < j => j > i
    OBVIOUS
  <2>2. QED
    BY <1>3, <2>1 DEF Actor
<1>6. \A w : CloseComes(w) => \/ a.op = "close" /\ w = a.w
                              \/ \E i \in 1..(n - 1) : q[i].op = "close" /\ q[i].w = w
  <2> TAKE w
  <2> HAVE CloseComes(w)
  <2>1. PICK i \in 1..n : aq[i].op = "close" /\ aq[i].w = w
    BY <1>3 DEF CloseComes
  <2>2. QED
    BY <1>3, <1>4, <2>1
<1>7. a.op = "close" => /\ a.w \in closed /\ \A i \in 1..(n - 1) : q[i].w # a.w
                        /\ \A i \in 1..(n - 1) : q[i].op = "close" => a.w < q[i].w
  BY <1>1, <1>3, <1>4, <1>5
<1>8. \A i \in 1..(n - 1) : q[i].op = "close" =>
          /\ q[i].w \in closed
          /\ \A j \in 1..(n - 1) : j > i => q[j].w # q[i].w
          /\ \A j \in 1..(n - 1) : j > i /\ q[j].op = "close" => q[i].w < q[j].w
  <2> TAKE i \in 1..(n - 1)
  <2> HAVE q[i].op = "close"
  <2>1. \A j \in 1..(n - 1) : j > i => i + 1 < j + 1
    OBVIOUS
  <2>2. q[i] = aq[i + 1] /\ i + 1 \in 1..n
    BY <1>3
  <2>3. /\ aq[i + 1].w \in closed
        /\ \A j \in 1..n : i + 1 < j => aq[j].w # aq[i + 1].w
        /\ \A j \in 1..n : i + 1 < j /\ aq[j].op = "close" => aq[i + 1].w < aq[j].w
    BY <1>5, <2>2
  <2>4. QED
    BY <1>3, <2>1, <2>2, <2>3
<1>9. \A i \in 1..(n - 1) : q[i].op # "close" =>
          q[i].w \in active \/ \E j \in 1..(n - 1) : q[j].op = "close" /\ q[j].w = q[i].w
  <2> TAKE i \in 1..(n - 1)
  <2> HAVE q[i].op # "close"
  <2>1. q[i].w \in active \/ CloseComes(q[i].w)
    BY <1>3 DEF Actor
  <2>2. QED
    BY <1>6, <1>7, <2>1
<1>10. \A i \in 1..(n - 1) : q[i].op = "open" =>
          /\ q[i].w \notin DOMAIN stream /\ q[i].w # a.w
          /\ \A j \in 1..(n - 1) : j < i => q[j].w # q[i].w
  <2>1. \A i, j \in 1..(n - 1) : j < i => j + 1 < i + 1
    OBVIOUS
  <2>2. \A i \in 1..n : aq[i].op = "open" =>
          /\ aq[i].w \notin DOMAIN stream /\ \A j \in 1..n : j < i => aq[j].w # aq[i].w
    BY <1>3 DEF Actor
  <2>3. QED
    BY <1>1, <1>3, <1>4, <2>1, <2>2
<1>11. ASSUME NEW w \in DOMAIN stream'
       PROVE  w \in active \/ \E i \in 1..(n - 1) : q[i].op = "close" /\ q[i].w = w
  <2>1. CASE w \in DOMAIN stream
    <3>1. w \in active \/ CloseComes(w)
      BY <2>1 DEF Actor
    <3>2. QED
      BY <1>4, <1>6, <1>11, <3>1
  <2>2. CASE w = a.w /\ a.op # "close"
    <3>1. w \in active \/ CloseComes(w)
      BY <1>1, <1>3, <1>4, <2>2 DEF Actor
    <3>2. QED
      BY <1>6, <2>2, <3>1
  <2>3. QED
    BY <1>4, <1>11, <2>1, <2>2
<1>12. \A w : CloseComes(w)' <=> \E i \in 1..(n - 1) : q[i].op = "close" /\ q[i].w = w
  BY <1>2, <1>3 DEF CloseComes
<1>13. closing' # None =>
          /\ closing'.w \in closed /\ closing'.w \notin DOMAIN stream'
          /\ \A i \in 1..(n - 1) : q[i].w # closing'.w
          /\ \A i \in 1..(n - 1) : q[i].op = "close" => closing'.w < q[i].w
  BY <1>4, <1>7
<1>14. QED
  <2>1. /\ \A i \in DOMAIN aq' : aq'[i].op = "close" =>
              /\ aq'[i].w \in closed'
              /\ \A j \in DOMAIN aq' : j > i => aq'[j].w # aq'[i].w
              /\ \A j \in DOMAIN aq' : j > i /\ aq'[j].op = "close" => aq'[i].w < aq'[j].w
    BY <1>2, <1>3, <1>8
  <2>2. \A i \in DOMAIN aq' : aq'[i].op # "close" =>
            aq'[i].w \in active' \/ \E j \in DOMAIN aq' : aq'[j].op = "close" /\ aq'[j].w = aq'[i].w
    BY <1>2, <1>3, <1>9
  <2>3. \A i \in DOMAIN aq' : aq'[i].op = "open" =>
          /\ aq'[i].w \notin DOMAIN stream'
          /\ \A j \in DOMAIN aq' : j < i => aq'[j].w # aq'[i].w
    BY <1>2, <1>3, <1>4, <1>10
  <2>4. \A w \in DOMAIN stream' : w \in active' \/ CloseComes(w)'
    BY <1>11, <1>12
  <2>5. closing' # None =>
          /\ closing'.w \in closed' /\ closing'.w \notin DOMAIN stream'
          /\ \A i \in DOMAIN aq' : aq'[i].w # closing'.w
          /\ \A i \in DOMAIN aq' : aq'[i].op = "close" => closing'.w < aq'[i].w
    BY <1>2, <1>3, <1>13
  <2>6. QED
    BY <2>1, <2>2, <2>3, <2>4, <2>5 DEF Actor, CloseComes

\* The steps that touch neither the actor's messages nor its tasks.
LEMMA ActorFrame ==
    ASSUME [Next]_vars, ~ConsumeData, ~ConsumeWmb, ~ActorNext, ~TaskNext, ~FaultNext, ~HardShutdown,
           ~Exit, ~Boot
    PROVE  UNCHANGED <<aq, stream, closing>>
<1>1. CASE Replay \/ Read
  BY <1>1 DEF Replay, Read
<1>2. CASE ReducerNext
  BY <1>2 DEF ReducerNext, Drain, HandleError, StreamEnds
<1>3. CASE Publish \/ Idle \/ UNCHANGED vars
  BY <1>3 DEF Publish, Idle, vars
<1>4. QED
  BY <1>1, <1>2, <1>3 DEF Next

\* What the actor has to do stays in order.
LEMMA ActorKept == Types /\ Stopped /\ Order /\ Windows /\ Actor /\ [Next]_vars => Actor'
<1> SUFFICES ASSUME Types, Stopped, Order, Windows, Actor, [Next]_vars PROVE Actor'
  OBVIOUS
<1>1. CASE ConsumeData \/ ConsumeWmb
  BY <1>1, ConsumeFeeds, ActorFeed DEF Feeds
<1>2. CASE ActorNext
  <2>1. closing = None /\ aq # <<>> /\ aq' = Tail(aq) /\ UNCHANGED <<active, closed>>
    BY <1>2 DEF ActorNext, ActorOpen, ActorAppend, ActorClose
  <2>2. CASE ActorOpen
    <3>1. stream' = With(stream, Head(aq).w, [st |-> IF hard THEN "dead" ELSE "run", ms |-> <<Head(aq).m>>])
          /\ Head(aq).op # "close" /\ closing' = None
      BY <2>1, <2>2 DEF ActorOpen, Opened
    <3>2. DOMAIN stream' = DOMAIN stream \cup {Head(aq).w}
      BY <3>1 DEF With
    <3>3. QED
      BY <2>1, <3>1, <3>2, ActorPops
  <2>3. CASE ActorAppend
    <3>1. /\ stream' = IF stream[Head(aq).w].st = "run"
                       THEN [stream EXCEPT ![Head(aq).w].ms = Append(@, Head(aq).m)] ELSE stream
          /\ Head(aq).op # "close" /\ closing' = None
      BY <2>1, <2>3 DEF ActorAppend
    <3>2. DOMAIN stream' = DOMAIN stream
      BY <3>1
    <3>3. QED
      BY <2>1, <3>1, <3>2, ActorPops
  <2>4. CASE ActorClose
    <3>1. Head(aq).op = "close"
      BY <2>4 DEF ActorClose
    <3>2. CASE Head(aq).w \in DOMAIN stream
      <4>1. /\ stream' = Without(stream, Head(aq).w)
            /\ closing' = IF stream[Head(aq).w].st = "run"
                          THEN [w |-> Head(aq).w, ms |-> stream[Head(aq).w].ms, st |-> "udf"] ELSE None
        BY <2>4, <3>2 DEF ActorClose
      <4>2. DOMAIN stream' = DOMAIN stream \ {Head(aq).w}
        BY <4>1 DEF Without
      <4>3. closing' # None => closing'.w = Head(aq).w
        BY <4>1
      <4>4. QED
        BY <2>1, <3>1, <4>2, <4>3, ActorPops
    <3>3. CASE Head(aq).w \notin DOMAIN stream
      <4>1. UNCHANGED <<stream, closing>>
        BY <2>4, <3>3 DEF ActorClose
      <4>2. QED
        BY <2>1, <3>1, <3>3, <4>1, ActorPops
    <3>4. QED
      BY <3>2, <3>3
  <2>5. QED
    BY <1>2, <2>2, <2>3, <2>4 DEF ActorNext
<1>3. CASE GcWindow
  BY <1>3 DEF GcWindow, Actor, CloseComes
<1>4. CASE CloseCancelled \/ Respond \/ WriteResults
  <2>1. UNCHANGED <<active, closed, aq, stream>> /\ (closing' = None \/ closing'.w = closing.w)
        /\ closing # None
    <3>1. closing # None => closing \in Closing
      BY DEF Types
    <3>2. QED
      BY <1>4, <3>1 DEF CloseCancelled, Respond, WriteResults, Closing
  <2>2. QED
    BY <2>1 DEF Actor, CloseComes
<1>5. CASE FaultNext /\ ~Kill
  <2>1. UNCHANGED <<active, closed, aq>> /\ (closing' = None \/ (closing # None /\ closing'.w = closing.w))
    <3>1. closing # None => closing \in Closing
      BY DEF Types
    <3>2. QED
      BY <1>5, <3>1 DEF FaultNext, CloseFails, GiveUpWrite, TaskFails, Cancel, Closing
  <2>2. DOMAIN stream' = DOMAIN stream
    BY <1>5 DEF FaultNext, CloseFails, GiveUpWrite, TaskFails, Cancel
  <2>3. QED
    BY <2>1, <2>2 DEF Actor, CloseComes
<1>6. CASE HardShutdown
  <2>1. DOMAIN stream' = DOMAIN stream /\ UNCHANGED <<active, closed, aq, closing>>
    BY <1>6 DEF HardShutdown
  <2>2. QED
    BY <2>1 DEF Actor, CloseComes
<1>7. CASE Exit \/ Kill
  <2>1. aq' = <<>> /\ stream' = <<>> /\ closing' = None
    BY <1>7 DEF Exit, Kill, Down
  <2>2. QED
    BY <2>1 DEF Actor
<1>8. CASE Boot
  <2>1. aq' = <<>> /\ stream' = <<>> /\ closing' = None
    BY <1>8 DEF Boot, Stopped
  <2>2. QED
    BY <2>1 DEF Actor
<1>9. CASE ~(ConsumeData \/ ConsumeWmb \/ ActorNext \/ TaskNext \/ FaultNext \/ HardShutdown
             \/ Exit \/ Boot)
  <2>1. UNCHANGED <<aq, stream, closing>>
    BY <1>9, ActorFrame
  <2>2. UNCHANGED <<active, closed>>
    BY <1>9, WindowsFrame DEF TaskNext, FaultNext
  <2>3. QED
    BY <2>1, <2>2 DEF Actor, CloseComes
<1>10. QED
  BY <1>1, <1>2, <1>3, <1>4, <1>5, <1>6, <1>7, <1>8, <1>9 DEF TaskNext

----------------------------------------------------------------------------
(***************************************************************************)
(* What the vertex promises: its results, its watermark, and what it lets  *)
(* go from the WAL.                                                        *)
(***************************************************************************)

\* What a step leaves alone unless it is the one that changes it.
Stays ==
    /\ ~Respond => results' = results /\ again' = again
    /\ ~WriteResults => finished' = finished
    /\ ~GiveUpWrite => lost' = lost
    /\ ~Kill => killed' = killed /\ gone' = gone
    /\ ~Publish => early' = early /\ pub' = pub
    /\ ~HandleError /\ ~Exit /\ ~Kill => shutting' = shutting
    /\ ~HardShutdown /\ ~Exit /\ ~Kill => hard' = hard
    /\ ~Read => nread' = nread
    /\ ~Exit /\ ~Kill => gcEnd' = gcEnd
    /\ ~Exit /\ ~Kill /\ ~GcWindow => gcq' = gcq
    /\ ~Exit /\ ~Kill /\ ~Boot => up' = up /\ saved' = saved

\* A step changes what it says.
LEMMA StaysNext == [Next]_vars => Stays
<1> SUFFICES ASSUME [Next]_vars PROVE Stays
  OBVIOUS
<1>1. CASE Replay \/ Read
  BY <1>1 DEF Replay, Read, Stays
<1>2. CASE ConsumeData \/ ConsumeWmb \/ Drain
  BY <1>2 DEF ConsumeData, ConsumeWmb, Drain, Stays
<1>3. CASE HandleError \/ StreamEnds
  BY <1>3 DEF HandleError, StreamEnds, Stays
<1>4. CASE ActorNext
  BY <1>4 DEF ActorNext, ActorOpen, ActorAppend, ActorClose, Stays
<1>5. CASE TaskNext
  BY <1>5 DEF TaskNext, CloseCancelled, Respond, WriteResults, GcWindow, Stays
<1>6. CASE Publish \/ HardShutdown
  BY <1>6 DEF Publish, HardShutdown, Stays
<1>7. CASE Exit \/ Kill \/ Boot
  BY <1>7 DEF Exit, Kill, Boot, Stays
<1>8. CASE CloseFails \/ GiveUpWrite \/ Cancel
  BY <1>8 DEF CloseFails, GiveUpWrite, Cancel, Stays
<1>9. CASE \E w \in DOMAIN stream : TaskFails(w)
  BY <1>9 DEF TaskFails, Stays
<1>10. CASE Idle \/ UNCHANGED vars
  BY <1>10 DEF Idle, vars, Stays
<1>11. QED
  BY <1>1, <1>2, <1>3, <1>4, <1>5, <1>6, <1>7, <1>8, <1>9, <1>10 DEF Next, ReducerNext, FaultNext

(***************************************************************************)
(* No second result.                                                       *)
(***************************************************************************)

\* The task that the actor waits for is in one of three states.
LEMMA ClosingType ==
    ASSUME Types, closing # None
    PROVE  closing \in Closing /\ closing.w \in Int /\ closing.st \in {"udf", "some", "written"}
BY DEF Types, Closing

\* Results are sequences of messages.
Result == [w : Int, ms : Seq(Nat)]
ResultType == finished \subseteq Int /\ results \subseteq Result

\* What is written is a sequence of messages.
LEMMA ResultTypeNext == Types /\ ResultType /\ [Next]_vars => ResultType'
<1> SUFFICES ASSUME Types, ResultType, [Next]_vars PROVE ResultType'
  OBVIOUS
<1>1. CASE Respond \/ WriteResults
  <2>1. closing # None /\ closing \in Closing
    BY <1>1, ClosingType DEF Respond, WriteResults
  <2>2. closing.w \in Int /\ closing.ms \in Seq(Nat)
    BY <2>1 DEF Closing
  <2>3. [w |-> closing.w, ms |-> closing.ms] \in Result
    BY <2>2 DEF Result
  <2>4. results' = results \/ results' = results \cup {[w |-> closing.w, ms |-> closing.ms]}
    BY <1>1 DEF Respond, WriteResults
  <2>5. finished' \subseteq finished \cup {closing.w}
    BY <1>1 DEF Respond, WriteResults
  <2>6. QED
    BY <2>2, <2>3, <2>4, <2>5 DEF ResultType
<1>2. CASE ~Respond /\ ~WriteResults
  BY <1>2, StaysNext DEF Stays, ResultType
<1>3. QED
  BY <1>1, <1>2

\* A sliding window with a result is done, and stays so across a graceful restart.
LEMMA OnceNext == Types /\ Stopped /\ Order /\ Windows /\ Actor /\ ResultType /\ Once /\ [Next]_vars => Once'
<1> SUFFICES ASSUME Types, Stopped, Order, Windows, Actor, ResultType, Once, [Next]_vars,
                    kind' = "sliding", ~killed'
             PROVE  /\ again' = {}
                    /\ \A w \in finished' :
                          /\ up' => \/ closing' # None /\ closing'.w = w /\ closing'.st = "written"
                                    \/ w \notin active' \cup closed' /\ End(w)' <= maxDel'
                          /\ ~up' => \E s \in saved' : w \notin s.ws /\ End(w)' <= s.maxDel
  BY DEF Once
<1>1. kind = "sliding" /\ \A w : End(w)' = End(w)
  BY InputStays, Rigid
<1>2. Stays
  BY StaysNext
<1>3. ~killed /\ ~Kill
  BY <1>2 DEF Stays, Kill
<1>4. /\ again = {}
      /\ \A w \in finished :
            /\ up => \/ closing # None /\ closing.w = w /\ closing.st = "written"
                     \/ w \notin active \cup closed /\ End(w) <= maxDel
            /\ ~up => \E s \in saved : w \notin s.ws /\ End(w) <= s.maxDel
  BY <1>1, <1>3 DEF Once
<1>5. CASE ConsumeData \/ ConsumeWmb
  <2>1. PICK m, C, N, cls, msgs : Feed(m, C, N, cls, msgs)
    BY <1>5, ConsumeFeeds DEF Feeds
  <2>2. /\ C \in SUBSET active /\ \A w \in N : w \in active \ C \/ Creatable(w)
        /\ active' = (active \ C) \cup N /\ closed' = closed \cup C /\ up
        /\ UNCHANGED <<up, closing, maxDel, finished, again>>
    BY <2>1 DEF Feed
  <2>3. \A w \in N : w \in active \/ End(w) > maxDel
    BY <1>1, <2>2 DEF Creatable
  <2>4. ASSUME NEW w \in finished, w \notin active \cup closed, End(w) <= maxDel
        PROVE  w \notin active' \cup closed'
    <3>1. N \in SUBSET Int /\ Length \in Nat /\ maxDel \in Int
      BY <2>1, FeedFacts, Constants DEF Types
    <3>2. w \notin N
      <4>1. SUFFICES ASSUME w \in N PROVE FALSE
        OBVIOUS
      <4>2. End(w) > maxDel /\ End(w) <= maxDel
        BY <2>3, <2>4, <4>1
      <4>3. End(w) \in Int
        <5>1. w \in Int
          BY DEF ResultType
        <5>2. QED
          BY <3>1, <5>1 DEF End
      <4>4. QED
        BY <3>1, <4>2, <4>3
    <3>3. QED
      BY <2>2, <2>4, <3>2
  <2>5. QED
    BY <1>1, <1>4, <2>2, <2>4
<1>6. CASE Respond \/ WriteResults
  <2>1. up /\ closing # None /\ closing.st \in {"udf", "some"}
        /\ UNCHANGED <<up, active, closed, maxDel>>
    BY <1>6 DEF Respond, WriteResults
  <2>2. closing.w \in closed /\ closing \in Closing
    BY <2>1, ClosingType DEF Actor
  <2>3. \A w \in finished : w \notin active \cup closed /\ End(w) <= maxDel
    BY <1>4, <2>1
  <2>4. closing.w \notin finished
    BY <2>2, <2>3
  <2>5. CASE Respond
    <3>1. again' = again /\ finished' = finished
      BY <2>4, <2>5 DEF Respond
    <3>2. QED
      BY <1>1, <1>4, <2>1, <2>3, <3>1
  <2>6. CASE WriteResults
    <3>1. /\ again' = again /\ finished' = finished \cup {closing.w}
          /\ closing' = [closing EXCEPT !.st = "written"]
      BY <2>6 DEF WriteResults
    <3>2. closing'.w = closing.w /\ closing'.st = "written" /\ closing' # None
      <4>1. closing \in Closing /\ closing' = [closing EXCEPT !.st = "written"]
        BY <2>2, <3>1
      <4>2. QED
        BY <4>1 DEF Closing, None
    <3>3. QED
      BY <1>1, <1>4, <2>1, <2>3, <3>1, <3>2
  <2>7. QED
    BY <1>6, <2>5, <2>6
<1>7. CASE GcWindow
  <2>1. /\ up /\ closing # None /\ closed' = closed \ {closing.w} /\ maxDel' = Larger(maxDel, End(closing.w))
        /\ UNCHANGED <<up, active, finished, again>>
    BY <1>1, <1>7 DEF GcWindow
  <2>2. closing.w \in closed /\ closing.w \in Int /\ maxDel \in Int /\ Length \in Nat
    BY <2>1, ClosingType, Constants DEF Actor, Types
  <2>3. closing.w \notin active
    BY <2>2 DEF Windows
  <2>4. End(closing.w) <= maxDel' /\ maxDel <= maxDel' /\ maxDel' \in Int
    BY <2>1, <2>2 DEF Larger, End
  <2>5. ASSUME NEW w \in finished PROVE w \notin active' \cup closed' /\ End(w) <= maxDel'
    <3>1. CASE w = closing.w
      BY <2>1, <2>3, <2>4, <3>1
    <3>2. CASE w # closing.w
      <4>1. w \notin active \cup closed /\ End(w) <= maxDel
        BY <1>4, <2>1, <3>2
      <4>2. closed' \subseteq closed /\ active' = active
        BY <2>1
      <4>3. End(w) <= maxDel'
        <5>1. End(w) \in Int
          BY <2>2 DEF ResultType, End
        <5>2. QED
          BY <2>2, <2>4, <4>1, <5>1
      <4>4. QED
        BY <4>1, <4>2, <4>3
    <3>3. QED
      BY <3>1, <3>2
  <2>6. QED
    BY <1>1, <1>4, <2>1, <2>5
<1>8. CASE Exit
  <2>1. up /\ closing = None /\ saved' = {State} /\ ~up' /\ UNCHANGED <<finished, again>>
    BY <1>1, <1>8 DEF Exit, Down
  <2>2. \A w \in finished : w \notin active \cup closed /\ End(w) <= maxDel
    BY <1>4, <2>1
  <2>3. State.ws = active \cup closed /\ State.maxDel = maxDel
    BY DEF State
  <2>4. QED
    BY <1>1, <1>4, <2>1, <2>2, <2>3
<1>9. CASE Boot
  <2>1. ~up /\ up' /\ closed' = {} /\ UNCHANGED <<finished, again>>
    BY <1>9 DEF Boot, Stopped
  <2>2. CASE saved = NoFile
    BY <1>4, <2>1, <2>2 DEF NoFile
  <2>3. CASE saved # NoFile
    <3>1. PICK s \in File : saved = {s} /\ active' = s.ws /\ maxDel' = s.maxDel
      BY <1>9, <2>3, BootLoads
    <3>2. \A w \in finished : w \notin s.ws /\ End(w) <= s.maxDel
      BY <1>4, <2>1, <3>1
    <3>3. QED
      BY <1>1, <1>4, <2>1, <3>1, <3>2
  <2>4. QED
    BY <2>2, <2>3
<1>10. CASE ActorNext
  <2>1. closing = None /\ up
    BY <1>10 DEF ActorNext, ActorOpen, ActorAppend, ActorClose
  <2>2. UNCHANGED <<active, closed, maxDel, finished, again, up>>
    BY <1>10 DEF ActorNext, ActorOpen, ActorAppend, ActorClose
  <2>3. QED
    BY <1>1, <1>4, <2>1, <2>2
<1>11. CASE CloseCancelled \/ CloseFails \/ GiveUpWrite
  <2>1. closing.st \in {"udf", "some"} /\ up
    BY <1>11 DEF CloseCancelled, CloseFails, GiveUpWrite
  <2>2. UNCHANGED <<active, closed, maxDel, finished, again, up>>
    BY <1>11 DEF CloseCancelled, CloseFails, GiveUpWrite
  <2>3. QED
    BY <1>1, <1>4, <2>1, <2>2
<1>12. CASE HardShutdown \/ Cancel \/ \E w \in DOMAIN stream : TaskFails(w)
  <2>1. UNCHANGED <<active, closed, maxDel, finished, again, up, closing, saved>>
    BY <1>12 DEF HardShutdown, Cancel, TaskFails
  <2>2. QED
    BY <1>1, <1>4, <2>1
<1>13. CASE ~(ConsumeData \/ ConsumeWmb \/ ActorNext \/ TaskNext \/ FaultNext \/ HardShutdown
              \/ Exit \/ Boot)
  <2>1. UNCHANGED <<active, closed, maxDel, up, saved, closing>>
    BY <1>13, <1>3, WindowsFrame, ActorFrame DEF TaskNext
  <2>2. UNCHANGED <<finished, again>>
    BY <1>2, <1>13 DEF Stays, TaskNext
  <2>3. QED
    BY <1>1, <1>4, <2>1, <2>2
<1>14. QED
  BY <1>3, <1>5, <1>6, <1>7, <1>8, <1>9, <1>10, <1>11, <1>12, <1>13 DEF TaskNext, FaultNext

(***************************************************************************)
(* What is in its windows.                                                 *)
(***************************************************************************)

\* What a boot will read only shrinks, apart from what is read anew.
LEMMA LoggedStays ==
    ASSUME Types, [Next]_vars
    PROVE  /\ gcEnd' >= gcEnd /\ nread' >= nread
           /\ ~Read => nread' = nread
           /\ gone \subseteq gone'
           /\ \A m \in 1..nread : Logged(m)' => Logged(m)
<1>1. \A m : Accept(m)' = Accept(m) /\ input' = input
  BY InputStays, Rigid
<1>2. Stays
  BY StaysNext
<1>3. nread \in Nat /\ gcEnd \in Nat
  BY ItemRange DEF Types
<1>4. gcEnd' >= gcEnd /\ gcEnd' \in Nat
  <2>1. CASE Exit \/ Kill
    <3>1. gcEnd' \in Frozen
      BY <2>1 DEF Exit, Kill, Down
    <3>2. QED
      BY <3>1, FrozenIs
  <2>2. CASE ~Exit /\ ~Kill
    BY <1>2, <1>3, <2>2 DEF Stays
  <2>3. QED
    BY <2>1, <2>2
<1>5. nread' >= nread /\ (~Read => nread' = nread)
  <2>1. CASE Read
    BY <1>3, <2>1 DEF Read
  <2>2. CASE ~Read
    BY <1>2, <1>3, <2>2 DEF Stays
  <2>3. QED
    BY <2>1, <2>2
<1>6. gone \subseteq gone'
  <2>1. CASE Kill
    BY <2>1 DEF Kill
  <2>2. CASE ~Kill
    BY <1>2, <2>2 DEF Stays
  <2>3. QED
    BY <2>1, <2>2
<1>7. \A m \in 1..nread : Logged(m)' => Logged(m)
  <2> TAKE m \in 1..nread
  <2> HAVE Logged(m)'
  <2>1. input[m].et >= gcEnd' /\ Accept(m) /\ m \notin gone
    BY <1>1, <1>6 DEF Logged
  <2>2. input[m].et \in Nat
    <3>1. m \in 1..Len(input) /\ input \in Inputs
      BY ItemRange
    <3>2. QED
      BY <3>1, ItemType
  <2>3. input[m].et >= gcEnd
    BY <1>3, <1>4, <2>1, <2>2
  <2>4. QED
    BY <2>1, <2>3 DEF Logged
<1>8. QED
  BY <1>4, <1>5, <1>6, <1>7

\* A result that is finished is written, or was given up.
LEMMA WrittenNext ==
    ASSUME Types, Stopped, Cover, [Next]_vars
    PROVE  closing' # None /\ closing'.st = "written" => closing'.w \in finished' \/ lost'
<1> SUFFICES ASSUME closing' # None, closing'.st = "written"
             PROVE  closing'.w \in finished' \/ lost'
  OBVIOUS
<1>1. Stays
  BY StaysNext
<1>2. closing # None /\ closing.st = "written" => closing.w \in finished \/ lost
  BY DEF Cover
<1>3. CASE WriteResults
  <2>1. closing # None /\ closing' = [closing EXCEPT !.st = "written"]
    BY <1>3 DEF WriteResults
  <2>2. closing'.w = closing.w
    BY <2>1, ClosingType DEF Closing
  <2>3. closing.w \in finished'
    BY <1>3 DEF WriteResults
  <2>4. QED
    BY <2>2, <2>3
<1>4. CASE GiveUpWrite
  BY <1>4 DEF GiveUpWrite
<1>5. CASE Respond
  <2>1. closing # None /\ closing' = [closing EXCEPT !.st = "some"]
    BY <1>5 DEF Respond
  <2>2. closing'.st = "some"
    BY <2>1, ClosingType DEF Closing
  <2>3. QED
    BY <2>2
<1>6. CASE ~WriteResults /\ ~GiveUpWrite /\ ~Respond
  <2>1. finished' = finished /\ lost' = lost
    BY <1>1, <1>6 DEF Stays
  <2>2. closing' = closing
    <3>1. CASE ConsumeData \/ ConsumeWmb
      BY <3>1 DEF ConsumeData, ConsumeWmb
    <3>2. CASE ActorNext
      BY <3>2 DEF ActorNext, ActorOpen, ActorAppend, ActorClose, None
    <3>3. CASE TaskNext
      BY <1>6, <3>3 DEF TaskNext, CloseCancelled, GcWindow
    <3>4. CASE FaultNext
      BY <1>6, <3>4 DEF FaultNext, CloseFails, TaskFails, Cancel, Kill, Down
    <3>5. CASE HardShutdown
      BY <3>5 DEF HardShutdown
    <3>6. CASE Exit
      BY <3>6 DEF Exit, Down
    <3>7. CASE Boot
      BY <3>7 DEF Boot, Stopped
    <3>8. CASE ~(ConsumeData \/ ConsumeWmb \/ ActorNext \/ TaskNext \/ FaultNext \/ HardShutdown
                 \/ Exit \/ Boot)
      BY <3>8, ActorFrame
    <3>9. QED
      BY <3>1, <3>2, <3>3, <3>4, <3>5, <3>6, <3>7, <3>8
  <2>3. QED
    BY <1>2, <2>1, <2>2
<1>7. QED
  BY <1>3, <1>4, <1>5, <1>6

\* The windows that are known: open, closed, or with a result.
Known == active \cup closed \cup finished

\* The second and the third part of Cover.
InWindows ==
    ~lost /\ up => \A m \in 1..nread :
        Logged(m) /\ m \notin ToCome => (shutting /\ wm <= X(m)) \/ WindowsOf(m) \subseteq Known
Remembered ==
    ~lost => \A m \in 1..nread : Logged(m) => \A w \in WindowsOf(m) :
        /\ End(w) <= maxDel => w \in Known
        /\ \A s \in saved : End(w) <= s.maxDel => w \in s.ws \cup finished

\* The parts of Cover, named.
LEMMA CoverParts ==
    Cover <=> /\ closing # None /\ closing.st = "written" => closing.w \in finished \/ lost
              /\ InWindows /\ Remembered
BY DEF Cover, InWindows, Remembered, Known

\* A step that keeps the windows known, the items to come and the watermarks.
LEMMA CoverFrame ==
    ASSUME Types, [Next]_vars, InWindows, Remembered, ~Read, lost' \/ ~lost, up' => up,
           ToCome \subseteq ToCome' \cup {m \in 1..nread : ~Logged(m) \/ WindowsOf(m) \subseteq Known'
                                                             \/ (shutting' /\ wm' <= X(m))},
           Known \subseteq Known', shutting => shutting', shutting => wm' = wm,
           maxDel' = maxDel, saved' = saved
    PROVE  InWindows' /\ Remembered'
<1>1. \A m : X(m)' = X(m) /\ WindowsOf(m)' = WindowsOf(m)
  BY InputStays, Rigid
<1>2. \A w : End(w)' = End(w)
  BY InputStays, Rigid
<1>3. nread' = nread /\ \A m \in 1..nread : Logged(m)' => Logged(m)
  BY LoggedStays
<1>4. InWindows'
  <2> SUFFICES ASSUME ~lost', up', NEW m \in 1..nread, Logged(m)', m \notin ToCome'
               PROVE  (shutting' /\ wm' <= X(m)) \/ WindowsOf(m) \subseteq Known'
    BY <1>1, <1>3 DEF InWindows
  <2>1. Logged(m)
    BY <1>3
  <2>2. CASE m \in ToCome
    BY <2>1, <2>2
  <2>3. CASE m \notin ToCome
    BY <2>1, <2>3 DEF InWindows
  <2>4. QED
    BY <2>2, <2>3
<1>5. Remembered'
  <2> SUFFICES ASSUME ~lost', NEW m \in 1..nread, Logged(m)', NEW w \in WindowsOf(m)
               PROVE  /\ End(w) <= maxDel' => w \in Known'
                      /\ \A s \in saved' : End(w) <= s.maxDel => w \in s.ws \cup finished'
    BY <1>1, <1>2, <1>3 DEF Remembered
  <2>1. Logged(m)
    BY <1>3
  <2>2. finished \subseteq finished'
    <3>1. CASE WriteResults
      BY <3>1 DEF WriteResults
    <3>2. CASE ~WriteResults
      BY <3>2, StaysNext DEF Stays
    <3>3. QED
      BY <3>1, <3>2
  <2>3. QED
    BY <2>1, <2>2 DEF Remembered
<1>6. QED
  BY <1>4, <1>5

\* Windows of a message end after its time.
LEMMA WindowEnds ==
    ASSUME Types, NEW m \in 1..Len(input), NEW w \in WindowsOf(m)
    PROVE  /\ w \in Int /\ End(w) \in Int /\ End(w) > 0 /\ input[m].et \in Nat
           /\ w <= input[m].et /\ input[m].et < End(w)
           /\ Accept(m) => X(m) < End(w) /\ X(m) \in Int
<1>1. input \in Inputs
  BY DEF Types
<1>2. input[m].et \in Nat
  BY <1>1, ItemType
<1>3. w \in Int /\ End(w) \in Int /\ w <= input[m].et /\ input[m].et < End(w) /\ (X(m) < End(w) \/ ~Accept(m))
  BY <1>1, WindowFacts
<1>4. X(m) \in Int
  BY <1>1, XFacts
<1>5. QED
  BY <1>2, <1>3, <1>4

\* Every logged message that has come is in all of its windows.
LEMMA CoverNext ==
    Types /\ Stopped /\ Order /\ Windows /\ Actor /\ Cover /\ [Next]_vars => Cover'
<1> SUFFICES ASSUME Types, Stopped, Order, Windows, Actor, Cover, [Next]_vars
             PROVE  InWindows' /\ Remembered'
  BY WrittenNext DEF Cover, InWindows, Remembered, Known
<1>1. \A m : X(m)' = X(m) /\ WindowsOf(m)' = WindowsOf(m) /\ Accept(m)' = Accept(m)
  BY InputStays, Rigid
<1>2. \A w : End(w)' = End(w)
  BY InputStays, Rigid
<1>3. \A m \in 1..nread : Logged(m)' => Logged(m)
  BY LoggedStays
<1>4. InWindows /\ Remembered
  BY CoverParts
<1>5. Stays
  BY StaysNext
<1>6. /\ nread \in Nat /\ Len(input) \in Nat /\ 1..nread \subseteq 1..Len(input)
      /\ ToCome \subseteq 1..nread
      /\ \A i \in 1..Len(input) : X(i) \in Int
      /\ wm \in Int /\ maxDel \in Int
  BY ItemRange DEF Types
<1>7. CASE Read
  <2>1. /\ replay = <<>> /\ nread < Len(input) /\ nread' = nread + 1 /\ chan' = Append(chan, nread + 1)
        /\ UNCHANGED <<up, replay, active, closed, wm, maxDel, saved, shutting, lost, finished>>
    BY <1>7 DEF Read
  <2>2. PICK n \in 1..Len(input) : n = nread + 1
    BY <1>6, <2>1
  <2>3. n \in Unread
    BY <1>6, <2>1, <2>2 DEF Unread
  <2>4. ToCome' = ToCome \cup {n}
    <3>1. chan \in Seq(1..nread)
      BY DEF Types
    <3>2. 1..nread \subseteq 1..n /\ n \in 1..n
      BY <1>6, <2>2
    <3>3. chan \in Seq(1..n)
      BY <3>1, <3>2, SeqOfMore
    <3>4. Range(chan') = Range(chan) \cup {n}
      BY <2>1, <2>2, <3>2, <3>3, RangeAppend
    <3>5. QED
      BY <2>1, <3>4 DEF ToCome
  <2>5. \A m \in 1..nread' : m \in 1..nread \/ m = n
    BY <1>6, <2>1, <2>2
  <2>6. Known' = Known
    BY <2>1 DEF Known
  <2>7. InWindows'
    <3> SUFFICES ASSUME ~lost', up', NEW m \in 1..nread', Logged(m)', m \notin ToCome'
                 PROVE  (shutting' /\ wm' <= X(m)) \/ WindowsOf(m) \subseteq Known'
      BY <1>1 DEF InWindows
    <3>1. m \in 1..nread /\ m \notin ToCome
      BY <2>4, <2>5
    <3>2. QED
      BY <1>3, <1>4, <2>1, <2>6, <3>1 DEF InWindows
  <2>8. Remembered'
    <3> SUFFICES ASSUME ~lost', NEW m \in 1..nread', Logged(m)', NEW w \in WindowsOf(m)
                 PROVE  /\ End(w) <= maxDel' => w \in Known'
                        /\ \A s \in saved' : End(w) <= s.maxDel => w \in s.ws \cup finished'
      BY <1>1, <1>2 DEF Remembered
    <3>1. CASE m \in 1..nread
      BY <1>3, <1>4, <2>1, <2>6, <3>1 DEF Remembered
    <3>2. CASE m = n
      <4>1. Accept(n)
        BY <1>1, <3>2 DEF Logged
      <4>2. X(n) < End(w) /\ X(n) \in Int /\ End(w) \in Int
        BY <3>2, <4>1, WindowEnds
      <4>3. maxDel <= X(n)
        BY <2>3 DEF Order
      <4>4. up /\ saved = {}
        BY <1>7 DEF Read, Stopped, NoFile
      <4>5. QED
        BY <1>6, <2>1, <4>2, <4>3, <4>4
    <3>3. QED
      BY <2>5, <3>1, <3>2
  <2>9. QED
    BY <2>7, <2>8
<1>8. CASE ConsumeData \/ ConsumeWmb
  <2>1. PICK m, C, N, cls, msgs : Feed(m, C, N, cls, msgs)
    BY <1>8, ConsumeFeeds DEF Feeds
  <2>2. m \in 1..nread /\ m \in 1..Len(input) /\ ToCome' = ToCome \ {m}
    BY <2>1, FeedFacts
  <2>3. /\ Accept(m) => \A w \in WindowsOf(m) : w \in N \/ End(w) <= maxDel
        /\ active' = (active \ C) \cup N /\ closed' = closed \cup C /\ ~shutting
        /\ UNCHANGED <<nread, up, maxDel, saved, shutting, lost, finished>>
    BY <2>1 DEF Feed
  <2>4. Known \subseteq Known' /\ N \subseteq Known'
    BY <2>3 DEF Known
  <2>5. ~lost => ~Logged(m) \/ WindowsOf(m) \subseteq Known'
    <3> SUFFICES ASSUME ~lost, Logged(m), NEW w \in WindowsOf(m) PROVE w \in Known'
      OBVIOUS
    <3>1. Accept(m)
      BY DEF Logged
    <3>2. w \in N \/ w \in Known
      BY <1>4, <2>2, <2>3, <3>1 DEF Remembered
    <3>3. QED
      BY <2>4, <3>2
  <2>6. CASE lost
    BY <2>3, <2>6 DEF InWindows, Remembered
  <2>7. CASE ~lost
    <3>1. ToCome \subseteq ToCome' \cup {i \in 1..nread : ~Logged(i) \/ WindowsOf(i) \subseteq Known'
                                                             \/ (shutting' /\ wm' <= X(i))}
      BY <2>2, <2>5, <2>7
    <3>2. ~Read
      BY <2>3, <1>6 DEF Read
    <3>3. QED
      BY <1>4, <2>3, <2>4, <3>1, <3>2, CoverFrame
  <2>8. QED
    BY <2>6, <2>7
<1>9. CASE Drain
  <2>1. /\ chan # <<>> /\ chan' = Tail(chan) /\ shutting
        /\ UNCHANGED <<nread, up, replay, active, closed, wm, maxDel, saved, shutting, lost, finished>>
    BY <1>9 DEF Drain
  <2>2. Range(chan) = {Head(chan)} \cup Range(chan') /\ Head(chan) \in 1..nread
    BY <2>1, SeqTail DEF Types
  <2>3. Head(chan) \in ToCome /\ ToCome \subseteq ToCome' \cup {Head(chan)}
    BY <2>1, <2>2 DEF ToCome
  <2>4. wm' <= X(Head(chan)) /\ shutting'
    BY <2>1, <2>3 DEF Order
  <2>5. ToCome \subseteq ToCome' \cup {i \in 1..nread : ~Logged(i) \/ WindowsOf(i) \subseteq Known'
                                                           \/ (shutting' /\ wm' <= X(i))}
    BY <2>2, <2>3, <2>4
  <2>6. Known' = Known /\ ~Read
    BY <1>6, <1>9, <2>1 DEF Known, Read
  <2>7. QED
    BY <1>4, <2>1, <2>5, <2>6, CoverFrame
<1>10. CASE GcWindow
  <2>1. /\ up /\ closing # None /\ closing.st = "written" /\ closed' = closed \ {closing.w}
        /\ maxDel' = maxDel \/ maxDel' = Larger(maxDel, End(closing.w))
        /\ UNCHANGED <<nread, up, chan, replay, active, wm, saved, shutting, lost, finished>>
    BY <1>10 DEF GcWindow
  <2>2. CASE lost
    BY <2>1, <2>2 DEF InWindows, Remembered
  <2>3. CASE ~lost
    <3>1. closing.w \in finished
      BY <2>1, <2>3 DEF Cover
    <3>2. Known' = Known
      BY <2>1, <3>1 DEF Known
    <3>3. ToCome' = ToCome
      BY <2>1 DEF ToCome
    <3>4. closing.w \in closed /\ closing.w \in Int /\ Length \in Nat
      BY <2>1, ClosingType, Constants DEF Actor
    <3>5. End(closing.w) <= wm /\ End(closing.w) \in Int
      BY <3>4 DEF Windows, End
    <3>6. InWindows'
      BY <1>1, <1>3, <1>4, <2>1, <3>2, <3>3 DEF InWindows
    <3>7. Remembered'
      <4> SUFFICES ASSUME NEW m \in 1..nread, Logged(m)', NEW w \in WindowsOf(m)
                   PROVE  /\ End(w) <= maxDel' => w \in Known'
                          /\ \A s \in saved' : End(w) <= s.maxDel => w \in s.ws \cup finished'
        BY <1>1, <1>2, <2>1 DEF Remembered
      <4>1. Logged(m) /\ Accept(m)
        BY <1>3 DEF Logged
      <4>2. End(w) <= maxDel => w \in Known
        BY <1>4, <2>3, <4>1 DEF Remembered
      <4>3. \A s \in saved' : End(w) <= s.maxDel => w \in s.ws \cup finished'
        BY <1>4, <2>1, <2>3, <4>1 DEF Remembered
      <4>4. X(m) < End(w) /\ X(m) \in Int /\ End(w) \in Int
        BY <1>6, <4>1, WindowEnds
      <4>5. ASSUME End(w) <= maxDel', ~(End(w) <= maxDel) PROVE w \in Known
        <5>1. End(w) <= End(closing.w)
          BY <1>6, <2>1, <3>5, <4>4, <4>5 DEF Larger
        <5>2. ~(wm <= X(m))
          BY <1>6, <3>5, <4>4, <5>1
        <5>3. m \notin ToCome
          BY <5>2 DEF Order
        <5>4. QED
          BY <1>4, <2>1, <2>3, <4>1, <5>2, <5>3 DEF InWindows
      <4>6. QED
        BY <3>2, <4>2, <4>3, <4>5
    <3>8. QED
      BY <3>6, <3>7
  <2>4. QED
    BY <2>2, <2>3
<1>11. CASE Exit \/ Kill
  <2>1. Down /\ ~up' /\ maxDel' = -1 /\ UNCHANGED <<nread, finished, lost>> /\ up
    BY <1>11 DEF Exit, Kill, Down
  <2>2. InWindows'
    BY <2>1 DEF InWindows
  <2>3. \A s \in saved' : s.ws = active \cup closed /\ s.maxDel = maxDel
    <3>1. saved = NoFile
      BY <2>1 DEF Stopped
    <3>2. QED
      BY <1>11, <3>1 DEF Exit, Kill, State, NoFile
  <2>4. Remembered'
    <3> SUFFICES ASSUME ~lost, NEW m \in 1..nread, Logged(m)', NEW w \in WindowsOf(m)
                 PROVE  /\ End(w) <= maxDel' => w \in Known'
                        /\ \A s \in saved' : End(w) <= s.maxDel => w \in s.ws \cup finished'
      BY <1>1, <1>2, <2>1 DEF Remembered
    <3>1. End(w) > 0 /\ End(w) \in Int
      BY <1>6, WindowEnds
    <3>2. Logged(m)
      BY <1>3
    <3>3. End(w) <= maxDel => w \in Known
      BY <1>4, <3>2 DEF Remembered
    <3>4. QED
      BY <2>1, <2>3, <3>1, <3>3 DEF Known
  <2>5. QED
    BY <2>2, <2>4
<1>12. CASE Boot
  <2>1. ~up /\ saved' = NoFile /\ closed' = closed /\ UNCHANGED <<nread, finished, lost, gcEnd, chan>>
    BY <1>12 DEF Boot
  <2>2. Range(replay') = {i \in (1..nread) \ gone : input[i].et >= gcEnd}
    BY <1>12, BootReplays
  <2>3. \A m \in 1..nread : Logged(m) => m \in ToCome'
    BY <2>2 DEF Logged, ToCome
  <2>4. InWindows'
    BY <1>3, <2>1, <2>3 DEF InWindows
  <2>5. Remembered'
    <3> SUFFICES ASSUME ~lost, NEW m \in 1..nread, Logged(m)', NEW w \in WindowsOf(m), End(w) <= maxDel'
                 PROVE  w \in Known'
      BY <1>1, <1>2, <2>1 DEF Remembered, NoFile
    <3>1. End(w) > 0 /\ End(w) \in Int
      BY <1>6, WindowEnds
    <3>2. Logged(m)
      BY <1>3
    <3>3. CASE maxDel' = -1
      BY <3>1, <3>3
    <3>4. CASE \E s \in saved : active' = s.ws /\ maxDel' = s.maxDel
      <4>1. PICK s \in saved : active' = s.ws /\ maxDel' = s.maxDel
        BY <3>4
      <4>2. w \in s.ws \cup finished
        BY <1>4, <3>2, <4>1 DEF Remembered
      <4>3. QED
        BY <2>1, <4>1, <4>2 DEF Known
    <3>5. QED
      BY <1>12, <3>3, <3>4, BootLoads
  <2>6. QED
    BY <2>4, <2>5
<1>13. CASE ~(Read \/ ConsumeData \/ ConsumeWmb \/ Drain \/ GcWindow \/ Exit \/ Kill \/ Boot)
  <2>0. ~Read /\ ~ConsumeData /\ ~ConsumeWmb /\ ~GcWindow /\ ~Exit /\ ~Kill /\ ~Boot /\ ~Drain
    BY <1>13
  <2>1. UNCHANGED <<active, closed, wm, maxDel, saved, up>>
    BY <2>0, WindowsFrame
  <2>2. ToCome' = ToCome
    <3>1. CASE Replay
      <4>1. replay # <<>> /\ chan' = Append(chan, Head(replay)) /\ replay' = Tail(replay)
        BY <3>1 DEF Replay
      <4>2. chan \in Seq(1..nread) /\ replay \in Seq(1..nread)
        BY DEF Types
      <4>3. Head(replay) \in 1..nread /\ Range(replay) = {Head(replay)} \cup Range(replay')
        BY <4>1, <4>2, SeqTail
      <4>4. Range(chan') = Range(chan) \cup {Head(replay)}
        BY <4>1, <4>2, <4>3, RangeAppend
      <4>5. QED
        BY <4>3, <4>4 DEF ToCome
    <3>2. CASE Publish
      BY <3>2 DEF Publish, ToCome
    <3>3. CASE ~Replay /\ ~Publish
      BY <2>0, <3>3, OrderFrame DEF ToCome
    <3>4. QED
      BY <3>1, <3>2, <3>3
  <2>3. finished \subseteq finished'
    <3>1. CASE WriteResults
      BY <3>1 DEF WriteResults
    <3>2. CASE ~WriteResults
      BY <1>5, <3>2 DEF Stays
    <3>3. QED
      BY <3>1, <3>2
  <2>4. Known \subseteq Known'
    BY <2>1, <2>3 DEF Known
  <2>5. shutting => shutting'
    <3>1. CASE HandleError
      BY <3>1 DEF HandleError
    <3>2. CASE ~HandleError
      BY <1>5, <2>0, <3>2 DEF Stays
    <3>3. QED
      BY <3>1, <3>2
  <2>6. lost' \/ ~lost
    <3>1. CASE GiveUpWrite
      BY <3>1 DEF GiveUpWrite
    <3>2. CASE ~GiveUpWrite
      BY <1>5, <3>2 DEF Stays
    <3>3. QED
      BY <3>1, <3>2
  <2>7. QED
    BY <1>4, <2>0, <2>1, <2>2, <2>4, <2>5, <2>6, CoverFrame
<1>14. QED
  BY <1>7, <1>8, <1>9, <1>10, <1>11, <1>12, <1>13

(***************************************************************************)
(* The published watermark.                                                *)
(***************************************************************************)

\* The end of a GC event is not after the end of the finished window.
LEMMA GcEndIs ==
    ASSUME Types, Windows, Actor, closing # None
    PROVE  /\ closing.w \in closed /\ closing.w \in Int /\ GcEndOf(closing.w) \in Int
           /\ End(closing.w) <= wm /\ End(closing.w) \in Int
           /\ GcEndOf(closing.w) <= End(closing.w)
           /\ kind = "sliding" => /\ GcEndOf(closing.w) \in closed
                                  /\ \A w \in closed : GcEndOf(closing.w) <= w
<1>1. /\ active \in SUBSET Int /\ closed \in SUBSET Int /\ IsFiniteSet(active) /\ IsFiniteSet(closed)
      /\ Length \in Nat /\ wm \in Int
  BY Constants DEF Types
<1>2. closing.w \in closed /\ closing.w \in Int
  BY ClosingType DEF Actor
<1>3. End(closing.w) <= wm /\ End(closing.w) \in Int /\ closing.w <= End(closing.w)
  BY <1>1, <1>2 DEF Windows, End
<1>4. active \cup closed # {} /\ closed # {}
  BY <1>2
<1>5. Oldest(active, closed) \in closed /\ \A w \in closed : Oldest(active, closed) <= w
  BY <1>1, <1>4, OldestIs
<1>6. CASE kind = "sliding"
  <2>1. GcEndOf(closing.w) = Oldest(active, closed)
    BY <1>6 DEF GcEndOf
  <2>2. GcEndOf(closing.w) <= closing.w /\ GcEndOf(closing.w) \in Int
    BY <1>1, <1>2, <1>5, <2>1
  <2>3. QED
    BY <1>2, <1>3, <1>5, <2>1, <2>2
<1>7. CASE kind # "sliding"
  <2>1. GcEndOf(closing.w) = End(closing.w)
    BY <1>7 DEF GcEndOf
  <2>2. QED
    BY <1>2, <1>3, <1>7, <2>1
<1>8. QED
  BY <1>6, <1>7

\* The GC events change with a finished window and at the end of a life.
LEMMA GcEventsNext ==
    ASSUME Types, Windows, Actor, [Next]_vars
    PROVE  /\ GcWindow => GcEvents' = GcEvents \cup {GcEndOf(closing.w)}
           /\ Exit \/ Kill => GcEvents' \subseteq GcEvents /\ GcEvents' = {gcEnd'}
           /\ ~GcWindow /\ ~Exit /\ ~Kill => GcEvents' = GcEvents
           /\ gcEnd \in GcEvents /\ GcEvents \subseteq Int
<1>1. gcq \in Seq(Int) /\ gcEnd \in Nat
  BY DEF Types
<1>2. ASSUME GcWindow PROVE GcEvents' = GcEvents \cup {GcEndOf(closing.w)}
  <2>1. closing # None /\ gcq' = Append(gcq, GcEndOf(closing.w)) /\ gcEnd' = gcEnd
    BY <1>2 DEF GcWindow
  <2>2. GcEndOf(closing.w) \in Int
    BY <2>1, GcEndIs
  <2>3. Range(gcq') = Range(gcq) \cup {GcEndOf(closing.w)}
    BY <1>1, <2>1, <2>2, RangeAppend
  <2>4. QED
    BY <2>1, <2>3 DEF GcEvents
<1>3. ASSUME Exit \/ Kill PROVE GcEvents' \subseteq GcEvents /\ GcEvents' = {gcEnd'}
  <2>1. gcq' = <<>> /\ gcEnd' \in Frozen
    BY <1>3 DEF Exit, Kill, Down
  <2>2. gcEnd' \in GcEvents
    BY <2>1, FrozenIs
  <2>3. Range(gcq') = {}
    BY <2>1 DEF Range
  <2>4. GcEvents' = {gcEnd'}
    BY <2>3 DEF GcEvents
  <2>5. QED
    BY <2>2, <2>4
<1>4. ASSUME ~GcWindow, ~Exit, ~Kill PROVE GcEvents' = GcEvents
  <2>1. gcq' = gcq /\ gcEnd' = gcEnd
    BY <1>4, StaysNext DEF Stays
  <2>2. QED
    BY <2>1 DEF GcEvents
<1>5. GcEvents \subseteq Int /\ gcEnd \in GcEvents
  BY <1>1, SeqRange DEF GcEvents
<1>6. QED
  BY <1>2, <1>3, <1>4, <1>5

\* How the items to come change.
LEMMA ToComeNext ==
    ASSUME Types, Stopped, Order, [Next]_vars
    PROVE  /\ Read => ToCome' = ToCome \cup {nread + 1} /\ nread + 1 \in Unread
                      /\ nread' = nread + 1 /\ Unread' \subseteq Unread
           /\ Boot => ToCome' = {i \in (1..nread) \ gone : input[i].et >= gcEnd}
           /\ Exit \/ Kill => ToCome' = {}
           /\ ~Read /\ ~Boot => ToCome' \subseteq ToCome
           /\ ~Read => Unread' = Unread
           /\ ~Read /\ ~Boot /\ ~ConsumeData /\ ~ConsumeWmb /\ ~Drain /\ ~Exit /\ ~Kill => ToCome' = ToCome
<1>1. /\ nread \in Nat /\ Len(input) \in Nat /\ chan \in Seq(1..nread) /\ replay \in Seq(1..nread)
  BY ItemRange DEF Types
<1>2. input' = input
  BY InputStays
<1>3. ASSUME Read PROVE ToCome' = ToCome \cup {nread + 1} /\ nread + 1 \in Unread
                        /\ nread' = nread + 1 /\ Unread' \subseteq Unread
  <2>1. nread' = nread + 1 /\ chan' = Append(chan, nread + 1) /\ replay' = replay /\ nread < Len(input)
    BY <1>3 DEF Read
  <2>2. 1..nread \subseteq 1..(nread + 1) /\ nread + 1 \in 1..(nread + 1)
    BY <1>1
  <2>3. chan \in Seq(1..(nread + 1))
    BY <1>1, <2>2, SeqOfMore
  <2>4. Range(chan') = Range(chan) \cup {nread + 1}
    BY <2>1, <2>2, <2>3, RangeAppend
  <2>5. nread + 1 \in Unread /\ Unread' \subseteq Unread
    BY <1>1, <1>2, <2>1 DEF Unread
  <2>6. QED
    BY <2>1, <2>4, <2>5 DEF ToCome
<1>4. ASSUME Boot PROVE ToCome' = {i \in (1..nread) \ gone : input[i].et >= gcEnd}
  <2>1. Range(replay') = {i \in (1..nread) \ gone : input[i].et >= gcEnd}
    BY <1>4, BootReplays
  <2>2. chan' = <<>>
    <3>1. ~up /\ chan' = chan
      BY <1>4 DEF Boot, Readable
    <3>2. QED
      BY <3>1 DEF Stopped
  <2>3. Range(chan') = {}
    BY <2>2 DEF Range
  <2>4. QED
    BY <2>1, <2>3 DEF ToCome
<1>5. ASSUME Exit \/ Kill PROVE ToCome' = {}
  BY <1>5 DEF Exit, Kill, Down, ToCome, Range
<1>6. ASSUME ConsumeData \/ ConsumeWmb PROVE ToCome' \subseteq ToCome
  <2>1. PICK m, C, N, cls, msgs : Feed(m, C, N, cls, msgs)
    BY <1>6, ConsumeFeeds DEF Feeds
  <2>2. QED
    BY <2>1, FeedFacts
<1>7. ASSUME Drain PROVE ToCome' \subseteq ToCome
  <2>1. chan # <<>> /\ chan' = Tail(chan) /\ replay' = replay
    BY <1>7 DEF Drain
  <2>2. Range(chan) = {Head(chan)} \cup Range(chan')
    BY <1>1, <2>1, SeqTail
  <2>3. QED
    BY <2>1, <2>2 DEF ToCome
<1>8. ASSUME ~Read, ~Boot, ~ConsumeData, ~ConsumeWmb, ~Drain, ~Exit, ~Kill PROVE ToCome' = ToCome
  <2>1. CASE Replay
    <3>1. replay # <<>> /\ chan' = Append(chan, Head(replay)) /\ replay' = Tail(replay)
      BY <2>1 DEF Replay
    <3>2. Head(replay) \in 1..nread /\ Range(replay) = {Head(replay)} \cup Range(replay')
      BY <1>1, <3>1, SeqTail
    <3>3. Range(chan') = Range(chan) \cup {Head(replay)}
      BY <1>1, <3>1, <3>2, RangeAppend
    <3>4. QED
      BY <3>2, <3>3 DEF ToCome
  <2>2. CASE Publish \/ GcWindow
    BY <2>2 DEF Publish, GcWindow, ToCome
  <2>3. CASE ~Replay /\ ~Publish /\ ~GcWindow
    BY <1>8, <2>3, OrderFrame DEF ToCome
  <2>4. QED
    BY <2>1, <2>2, <2>3
<1>9. ~Read => Unread' = Unread
  BY <1>2, StaysNext DEF Stays, Unread
<1>10. QED
  BY <1>3, <1>4, <1>5, <1>6, <1>7, <1>8, <1>9

\* What is to come will be read again.
LEMMA BehindNext ==
    Types /\ Stopped /\ Order /\ Windows /\ Actor /\ Behind /\ [Next]_vars => Behind'
<1> SUFFICES ASSUME Types, Stopped, Order, Windows, Actor, Behind, [Next]_vars PROVE Behind'
  OBVIOUS
<1>1. \A m : X(m)' = X(m) /\ Accept(m)' = Accept(m) /\ input' = input
  BY InputStays, Rigid
<1>2. /\ Read => ToCome' = ToCome \cup {nread + 1} /\ nread + 1 \in Unread /\ Unread' \subseteq Unread
      /\ Boot => ToCome' = {i \in (1..nread) \ gone : input[i].et >= gcEnd}
      /\ Exit \/ Kill => ToCome' = {}
      /\ ~Read /\ ~Boot => ToCome' \subseteq ToCome
      /\ ~Read => Unread' = Unread
  BY ToComeNext
<1>3. /\ GcWindow => GcEvents' = GcEvents \cup {GcEndOf(closing.w)}
      /\ Exit \/ Kill => GcEvents' \subseteq GcEvents
      /\ ~GcWindow /\ ~Exit /\ ~Kill => GcEvents' = GcEvents
      /\ gcEnd \in GcEvents
  BY GcEventsNext
<1>4. Stays
  BY StaysNext
<1>5. Unread \subseteq 1..Len(input) /\ input \in Inputs /\ wm \in Int /\ gcEnd \in Nat
      /\ \A i \in 1..Len(input) : X(i) \in Int
  BY ItemRange DEF Types
<1>6. \A e \in GcEvents' : \A i \in Unread' : e <= 0 \/ e <= X(i)
  <2>1. CASE GcWindow
    <3>1. closing # None /\ ~Read
      BY <1>5, <2>1, ItemRange DEF GcWindow, Read
    <3>2. GcEndOf(closing.w) <= End(closing.w) /\ End(closing.w) <= wm
          /\ GcEndOf(closing.w) \in Int /\ End(closing.w) \in Int
      BY <3>1, GcEndIs
    <3>3. \A i \in Unread : GcEndOf(closing.w) <= X(i)
      BY <1>5, <3>2 DEF Order
    <3>4. QED
      BY <1>2, <1>3, <2>1, <3>1, <3>3 DEF Behind
  <2>2. CASE ~GcWindow
    BY <1>2, <1>3, <2>2 DEF Behind
  <2>3. QED
    BY <2>1, <2>2
<1>7. \A m \in ToCome' : m \notin gone' /\ (Accept(m) => input[m].et >= gcEnd')
  <2>1. CASE Exit \/ Kill
    BY <1>2, <2>1
  <2>2. CASE ~Exit /\ ~Kill
    <3>1. gcEnd' = gcEnd /\ gone' = gone
      BY <1>4, <2>2 DEF Stays
    <3>2. ASSUME Read PROVE nread + 1 \notin gone /\ (Accept(nread + 1) => input[nread + 1].et >= gcEnd)
      <4>1. PICK n \in Unread : n = nread + 1
        BY <1>2, <3>2
      <4>2. n \in 1..Len(input) /\ (gcEnd <= 0 \/ gcEnd <= X(n))
        BY <1>3, <1>5 DEF Behind
      <4>3. X(n) \in Int /\ (Accept(n) => X(n) <= input[n].et) /\ input[n].et \in Nat
        BY <1>5, <4>2, XFacts, ItemType
      <4>4. Accept(n) => input[n].et >= gcEnd
        BY <1>5, <4>2, <4>3
      <4>5. nread + 1 \notin gone
        <5>1. nread \in Nat /\ gone \subseteq 1..nread
          BY ItemRange DEF Types
        <5>2. QED
          BY <5>1
      <4>6. QED
        BY <4>1, <4>4, <4>5
    <3>3. QED
      BY <1>2, <3>1, <3>2 DEF Behind
  <2>3. QED
    BY <2>1, <2>2
<1>8. \A e \in Range(gcq') : e <= wm'
  <2>1. gcq \in Seq(Int) /\ Range(gcq) \subseteq Int /\ \A e \in Range(gcq) : e <= wm
    BY SeqRange DEF Behind, Types
  <2>2. CASE GcWindow
    <3>1. closing # None /\ gcq' = Append(gcq, GcEndOf(closing.w)) /\ wm' = wm
      BY <2>2 DEF GcWindow
    <3>2. GcEndOf(closing.w) <= End(closing.w) /\ End(closing.w) <= wm
          /\ GcEndOf(closing.w) \in Int /\ End(closing.w) \in Int
      BY <3>1, GcEndIs
    <3>3. Range(gcq') = Range(gcq) \cup {GcEndOf(closing.w)}
      BY <2>1, <3>1, <3>2, RangeAppend
    <3>4. QED
      BY <1>5, <2>1, <3>1, <3>2, <3>3
  <2>3. CASE Exit \/ Kill \/ Boot
    <3>1. gcq' = <<>>
      BY <2>3 DEF Exit, Kill, Down, Boot, Stopped
    <3>2. QED
      BY <3>1 DEF Range
  <2>4. CASE ConsumeData \/ ConsumeWmb
    <3>1. PICK m, C, N, cls, msgs : Feed(m, C, N, cls, msgs)
      BY <2>4, ConsumeFeeds DEF Feeds
    <3>2. wm' = X(m) /\ gcq' = gcq
      BY <3>1 DEF Feed
    <3>3. wm <= X(m) /\ X(m) \in Int
      BY <3>1, FeedFacts
    <3>4. QED
      BY <1>5, <2>1, <3>2, <3>3
  <2>5. CASE ~(GcWindow \/ Exit \/ Kill \/ Boot \/ ConsumeData \/ ConsumeWmb)
    <3>1. gcq' = gcq /\ wm' = wm
      BY <2>5, WindowsFrame
    <3>2. QED
      BY <2>1, <3>1
  <2>6. QED
    BY <2>2, <2>3, <2>4, <2>5
<1>9. QED
  BY <1>1, <1>6, <1>7, <1>8 DEF Behind

\* The oldest window is the least.
LEMMA OldestLeast ==
    ASSUME Types, Windows, NEW w \in active \cup closed
    PROVE  Oldest(active, closed) \in Int /\ Oldest(active, closed) <= w /\ w \in Int
<1>1. /\ active \in SUBSET Int /\ closed \in SUBSET Int /\ IsFiniteSet(active) /\ IsFiniteSet(closed)
      /\ active \cup closed # {}
  BY DEF Types
<1>2. /\ Oldest(active, closed) \in Int
      /\ closed # {} => Oldest(active, closed) \in closed /\ \A v \in closed : Oldest(active, closed) <= v
  BY <1>1, OldestIs
<1>3. w \in Int
  BY <1>1
<1>4. CASE closed # {}
  <2>1. CASE w \in closed
    BY <1>2, <1>3, <1>4, <2>1
  <2>2. CASE w \in active
    <3>1. Oldest(active, closed) < w
      BY <1>2, <1>4, <2>2 DEF Windows
    <3>2. QED
      BY <1>2, <1>3, <3>1
  <2>3. QED
    BY <2>1, <2>2
<1>5. CASE closed = {}
  <2>1. w \in active
    BY <1>5
  <2>2. Oldest(active, closed) = Min(active)
    BY <1>5 DEF Oldest
  <2>3. Min(active) <= w
    BY <1>1, <2>1, MinIs
  <2>4. QED
    BY <1>2, <1>3, <2>2, <2>3
<1>6. QED
  BY <1>4, <1>5

\* A window without result is not passed.
Held(w) == w \in finished \/ pub < End(w)

\* No window without result is passed by the watermark that was published.
LEMMA PublishedNext ==
    Types /\ Stopped /\ Order /\ Windows /\ Actor /\ Cover /\ Behind /\ Published /\ [Next]_vars
        => Published'
<1> SUFFICES ASSUME Types, Stopped, Order, Windows, Actor, Cover, Behind, Published, [Next]_vars
             PROVE  Published'
  OBVIOUS
<1> SUFFICES ASSUME ~early', ~lost'
             PROVE  /\ \A m \in 1..nread' : Logged(m)' => \A w \in WindowsOf(m) : Held(w)'
                    /\ \A w \in active' \cup closed' : Held(w)'
                    /\ \A s \in saved' : \A w \in s.ws : Held(w)'
  <2>1. \A m : WindowsOf(m)' = WindowsOf(m)
    BY InputStays, Rigid
  <2>2. QED
    BY <2>1 DEF Published, Held
<1>1. \A m : Accept(m)' = Accept(m)
  BY InputStays, Rigid
<1>2. \A w : End(w)' = End(w)
  BY InputStays, Rigid
<1>3. Stays
  BY StaysNext
<1>4. ~early /\ ~lost
  <2>1. ~early
    <3>1. CASE Publish
      BY <3>1 DEF Publish, Types
    <3>2. CASE ~Publish
      BY <1>3, <3>2 DEF Stays
    <3>3. QED
      BY <3>1, <3>2
  <2>2. ~lost
    <3>1. CASE GiveUpWrite
      BY <3>1 DEF GiveUpWrite
    <3>2. CASE ~GiveUpWrite
      BY <1>3, <3>2 DEF Stays
    <3>3. QED
      BY <3>1, <3>2
  <2>3. QED
    BY <2>1, <2>2
<1>5. /\ \A m \in 1..nread : Logged(m) => \A w \in WindowsOf(m) : Held(w)
      /\ \A w \in active \cup closed : Held(w)
      /\ \A s \in saved : \A w \in s.ws : Held(w)
  BY <1>4 DEF Published, Held
<1>6. \A m \in 1..nread : Logged(m)' => Logged(m)
  BY LoggedStays
<1>7. /\ nread \in Nat /\ 1..nread \subseteq 1..Len(input) /\ Unread \subseteq 1..Len(input)
      /\ pub \in Int /\ fetched \in Int /\ Length \in Nat
  BY ItemRange, Constants DEF Types
<1>8. CASE Publish
  <2>1. /\ up /\ MinWatermark > pub /\ pub' = MinWatermark /\ early' = (early \/ chan # <<>> \/ shutting)
        /\ UNCHANGED <<nread, active, closed, saved, finished, chan>>
    BY <1>8 DEF Publish
  <2>2. chan = <<>> /\ ~shutting
    BY <2>1 DEF Types
  <2>3. /\ active \cup closed = {} => MinWatermark = fetched
        /\ active \cup closed # {} =>
              MinWatermark = Smaller(fetched, End(Oldest(active, closed)) - 1)
    BY DEF MinWatermark
  <2>4. ASSUME NEW w \in active \cup closed
        PROVE  MinWatermark < End(w) /\ MinWatermark <= fetched /\ MinWatermark \in Int
    <3>1. Oldest(active, closed) \in Int /\ Oldest(active, closed) <= w /\ w \in Int
      BY OldestLeast
    <3>2. MinWatermark = Smaller(fetched, End(Oldest(active, closed)) - 1)
      BY <2>3
    <3>3. QED
      BY <1>7, <3>1, <3>2 DEF Smaller, End
  <2>5. fetched # -1
    <3>1. MinWatermark <= fetched /\ MinWatermark \in Int
      BY <1>7, <2>3, <2>4
    <3>2. pub >= -1
      BY DEF Order
    <3>3. QED
      BY <1>7, <2>1, <3>1, <3>2
  <2>6. replay = <<>>
    BY <2>5 DEF Order
  <2>7. ToCome = {}
    BY <2>2, <2>6 DEF ToCome, Range
  <2>8. \A w \in active \cup closed : Held(w)'
    BY <1>2, <2>1, <2>4 DEF Held
  <2>9. ASSUME NEW m \in 1..nread', Logged(m)', NEW w \in WindowsOf(m) PROVE Held(w)'
    <3>1. m \in 1..nread /\ Logged(m)
      BY <1>6, <2>1, <2>9
    <3>2. w \in Known
      <4>1. InWindows
        BY CoverParts
      <4>2. QED
        BY <1>4, <2>1, <2>2, <2>7, <3>1, <4>1 DEF InWindows
    <3>3. QED
      BY <2>1, <2>8, <3>2 DEF Known, Held
  <2>10. saved' = {}
    BY <2>1 DEF Stopped, NoFile
  <2>11. QED
    BY <2>1, <2>8, <2>9, <2>10
<1>9. CASE ~Publish
  <2>1. \A w : Held(w) => Held(w)'
    <3>1. finished \subseteq finished'
      <4>1. CASE WriteResults
        BY <4>1 DEF WriteResults
      <4>2. CASE ~WriteResults
        BY <1>3, <4>2 DEF Stays
      <4>3. QED
        BY <4>1, <4>2
    <3>2. pub' = pub
      BY <1>3, <1>9 DEF Stays
    <3>3. QED
      BY <1>2, <3>1, <3>2 DEF Held
  <2>2. ASSUME NEW m \in 1..nread', Logged(m)', NEW w \in WindowsOf(m) PROVE Held(w)
    <3>1. CASE m \in 1..nread
      BY <1>5, <1>6, <2>2, <3>1
    <3>2. CASE m \notin 1..nread
      <4>1. Read
        BY <3>2, LoggedStays
      <4>2. m = nread + 1 /\ m \in Unread
        BY <1>7, <3>2, <4>1, ToComeNext
      <4>3. Accept(m) /\ m \in 1..Len(input)
        BY <1>1, <1>7, <2>2, <4>2 DEF Logged
      <4>4. X(m) < End(w) /\ X(m) \in Int /\ End(w) \in Int
        BY <4>3, WindowEnds
      <4>5. pub <= X(m)
        BY <4>2 DEF Order
      <4>6. QED
        BY <1>7, <4>4, <4>5 DEF Held
    <3>3. QED
      BY <3>1, <3>2
  <2>3. ASSUME NEW w \in active' \cup closed' PROVE Held(w)
    <3>1. CASE ConsumeData \/ ConsumeWmb
      <4>1. PICK m, C, N, cls, msgs : Feed(m, C, N, cls, msgs)
        BY <3>1, ConsumeFeeds DEF Feeds
      <4>2. /\ C \in SUBSET active /\ N \in SUBSET WindowsOf(m) /\ (N # {} => Accept(m))
            /\ active' = (active \ C) \cup N /\ closed' = closed \cup C
        BY <4>1 DEF Feed
      <4>3. m \in 1..nread /\ m \in ToCome
        BY <4>1, FeedFacts
      <4>4. w \in N => Logged(m)
        BY <4>2, <4>3 DEF Behind, Logged
      <4>5. QED
        BY <1>5, <2>3, <4>2, <4>3, <4>4
    <3>2. CASE GcWindow
      BY <1>5, <2>3, <3>2 DEF GcWindow
    <3>3. CASE Exit \/ Kill
      BY <2>3, <3>3 DEF Exit, Kill, Down
    <3>4. CASE Boot
      <4>1. closed' = {}
        BY <3>4 DEF Boot, Stopped
      <4>2. active' = {} \/ \E s \in saved : active' = s.ws
        BY <3>4, BootLoads
      <4>3. QED
        BY <1>5, <2>3, <4>1, <4>2
    <3>5. CASE ~(ConsumeData \/ ConsumeWmb \/ GcWindow \/ Exit \/ Kill \/ Boot)
      BY <1>5, <2>3, <3>5, WindowsFrame
    <3>6. QED
      BY <3>1, <3>2, <3>3, <3>4, <3>5
  <2>4. ASSUME NEW s \in saved', NEW w \in s.ws PROVE Held(w)
    <3>1. CASE Exit
      <4>1. s.ws = active \cup closed
        BY <2>4, <3>1 DEF Exit, State, NoFile
      <4>2. QED
        BY <1>5, <2>4, <4>1
    <3>2. CASE Kill
      BY <1>5, <2>4, <3>2 DEF Kill
    <3>3. CASE Boot
      BY <2>4, <3>3 DEF Boot, NoFile
    <3>4. CASE ~Exit /\ ~Kill /\ ~Boot
      BY <1>3, <1>5, <2>4, <3>4 DEF Stays
    <3>5. QED
      BY <3>1, <3>2, <3>3, <3>4
  <2>5. QED
    BY <2>1, <2>2, <2>3, <2>4
<1>10. QED
  BY <1>8, <1>9

(***************************************************************************)
(* What may be deleted.                                                    *)
(***************************************************************************)

\* Every message that a GC event covers was accepted.
LEMMA AcceptedNext ==
    Types /\ Stopped /\ Order /\ Windows /\ Actor /\ Behind /\ Accepted /\ [Next]_vars => Accepted'
<1> SUFFICES ASSUME Types, Stopped, Order, Windows, Actor, Behind, Accepted, [Next]_vars
             PROVE  Accepted'
  OBVIOUS
<1>1. \A m : X(m)' = X(m) /\ Accept(m)' = Accept(m) /\ input' = input
  BY InputStays, Rigid
<1>2. Stays
  BY StaysNext
<1>3. gone \subseteq gone' /\ \A m \in 1..nread : Logged(m)' => Logged(m)
  BY LoggedStays
<1>4. /\ \A m \in accepted : Accept(m)
      /\ up => \A m \in 1..nread :
            Logged(m) /\ m \notin ToCome => m \in accepted \/ (shutting /\ wm <= X(m))
      /\ \A e \in GcEvents : \A m \in 1..nread :
          Accept(m) /\ input[m].et < e => m \in accepted \/ m \in gone
  BY DEF Accepted
<1>5. /\ GcWindow => GcEvents' = GcEvents \cup {GcEndOf(closing.w)}
      /\ ~GcWindow => GcEvents' \subseteq GcEvents
      /\ gcEnd \in GcEvents /\ GcEvents \subseteq Int
  BY GcEventsNext
<1>6. /\ nread \in Nat /\ 1..nread \subseteq 1..Len(input) /\ input \in Inputs /\ wm \in Int /\ gcEnd \in Nat
      /\ \A i \in 1..Len(input) : X(i) \in Int
  BY ItemRange DEF Types
<1>7. accepted \subseteq accepted' /\ \A m \in accepted' : Accept(m)
  <2>1. CASE ConsumeData \/ ConsumeWmb
    <3>1. PICK m, C, N, cls, msgs : Feed(m, C, N, cls, msgs)
      BY <2>1, ConsumeFeeds DEF Feeds
    <3>2. accepted' = IF Accept(m) THEN accepted \cup {m} ELSE accepted
      BY <3>1 DEF Feed
    <3>3. QED
      BY <1>4, <3>2
  <2>2. CASE ~ConsumeData /\ ~ConsumeWmb
    <3>1. CASE GcWindow \/ Exit \/ Kill \/ Boot
      BY <1>4, <3>1 DEF GcWindow, Exit, Kill, Boot
    <3>2. CASE ~GcWindow /\ ~Exit /\ ~Kill /\ ~Boot
      BY <1>4, <2>2, <3>2, WindowsFrame
    <3>3. QED
      BY <3>1, <3>2
  <2>3. QED
    BY <2>1, <2>2
<1>8. ASSUME NEW m \in 1..nread', m \notin 1..nread
      PROVE  m \in ToCome' /\ m \in Unread /\ m \in 1..Len(input)
  <2>1. Read
    BY <1>8, LoggedStays
  <2>2. ToCome' = ToCome \cup {nread + 1} /\ nread + 1 \in Unread /\ nread' = nread + 1
    BY <2>1, ToComeNext
  <2>3. m = nread + 1
    BY <1>6, <1>8, <2>2
  <2>4. Unread \subseteq 1..Len(input)
    BY ItemRange
  <2>5. QED
    BY <2>2, <2>3, <2>4
<1>9. ASSUME up', NEW m \in 1..nread', Logged(m)', m \notin ToCome'
      PROVE  m \in accepted' \/ (shutting' /\ wm' <= X(m))
  <2>1. m \in 1..nread /\ Logged(m) /\ Accept(m)
    BY <1>3, <1>8, <1>9 DEF Logged
  <2>2. CASE Boot
    <3>1. ToCome' = {i \in (1..nread) \ gone : input[i].et >= gcEnd}
      BY <2>2, ToComeNext
    <3>2. QED
      BY <1>9, <2>1, <3>1 DEF Logged
  <2>3. CASE ConsumeData \/ ConsumeWmb
    <3>1. PICK k, C, N, cls, msgs : Feed(k, C, N, cls, msgs)
      BY <2>3, ConsumeFeeds DEF Feeds
    <3>2. ToCome' = ToCome \ {k}
      BY <3>1, FeedFacts
    <3>3. accepted' = (IF Accept(k) THEN accepted \cup {k} ELSE accepted) /\ up /\ ~shutting
      BY <3>1 DEF Feed
    <3>4. QED
      BY <1>4, <1>7, <1>9, <2>1, <3>2, <3>3
  <2>4. CASE Drain
    <3>1. up /\ shutting /\ UNCHANGED <<wm, shutting>>
      BY <2>4 DEF Drain
    <3>2. CASE m \in ToCome
      BY <3>1, <3>2 DEF Order
    <3>3. CASE m \notin ToCome
      BY <1>4, <1>7, <2>1, <3>1, <3>3
    <3>4. QED
      BY <3>2, <3>3
  <2>5. CASE Exit \/ Kill
    BY <1>9, <2>5 DEF Exit, Kill, Down
  <2>6. CASE ~Boot /\ ~ConsumeData /\ ~ConsumeWmb /\ ~Drain /\ ~Exit /\ ~Kill
    <3>1. ToCome \subseteq ToCome'
      BY <2>6, ToComeNext
    <3>2. up' = up
      BY <1>2, <2>6 DEF Stays
    <3>3. shutting => shutting'
      BY <1>2, <2>6 DEF Stays, HandleError
    <3>4. wm' = wm
      BY <2>6, WindowsFrame DEF GcWindow
    <3>5. QED
      BY <1>4, <1>7, <1>9, <2>1, <3>1, <3>2, <3>3, <3>4
  <2>7. QED
    BY <2>2, <2>3, <2>4, <2>5, <2>6
<1>10. ASSUME NEW e \in GcEvents', NEW m \in 1..nread', Accept(m), input[m].et < e
       PROVE  m \in accepted' \/ m \in gone'
  <2>1. CASE m \notin 1..nread
    <3>1. m \in Unread /\ m \in 1..Len(input)
      BY <1>8, <2>1
    <3>2. Read /\ ~GcWindow
      <4>1. Read
        BY <2>1, LoggedStays
      <4>2. nread' = nread + 1
        BY <4>1 DEF Read
      <4>3. GcWindow => nread' = nread
        BY DEF GcWindow
      <4>4. QED
        BY <1>6, <4>1, <4>2, <4>3
    <3>3. e \in GcEvents /\ e \in Int
      BY <1>5, <3>2
    <3>4. e <= 0 \/ e <= X(m)
      BY <3>1, <3>3 DEF Behind
    <3>5. X(m) \in Int /\ X(m) <= input[m].et /\ input[m].et \in Nat
      BY <1>6, <1>10, <3>1, XFacts, ItemType
    <3>6. QED
      BY <1>10, <3>3, <3>4, <3>5
  <2>2. CASE m \in 1..nread /\ e \in GcEvents
    BY <1>3, <1>4, <1>7, <1>10, <2>2
  <2>3. CASE m \in 1..nread /\ e \notin GcEvents
    <3>1. GcWindow /\ e = GcEndOf(closing.w)
      BY <1>5, <2>3
    <3>2. closing # None /\ up
      BY <3>1 DEF GcWindow
    <3>3. e \in Int /\ e <= End(closing.w) /\ End(closing.w) <= wm /\ End(closing.w) \in Int
      BY <3>1, <3>2, GcEndIs
    <3>4. X(m) \in Int /\ X(m) <= input[m].et /\ input[m].et \in Nat
      BY <1>6, <1>10, <2>3, XFacts, ItemType
    <3>5. ~(wm <= X(m))
      BY <1>6, <1>10, <3>3, <3>4
    <3>6. m \notin ToCome
      BY <3>5 DEF Order
    <3>7. CASE Logged(m)
      BY <1>4, <1>7, <2>3, <3>2, <3>5, <3>6, <3>7
    <3>8. CASE m \in gone
      BY <1>3, <3>8
    <3>9. CASE ~Logged(m) /\ m \notin gone
      <4>1. input[m].et < gcEnd
        BY <1>6, <1>10, <2>3, <3>4, <3>9 DEF Logged
      <4>2. QED
        BY <1>3, <1>4, <1>5, <1>7, <1>10, <2>3, <4>1
    <3>10. QED
      BY <3>7, <3>8, <3>9
  <2>4. QED
    BY <2>1, <2>2, <2>3
<1>11. QED
  BY <1>1, <1>7, <1>9, <1>10 DEF Accepted

\* What the reducer adds to the actor's messages.
LEMMA FeedQueue ==
    ASSUME Types, NEW m, NEW C, NEW N, NEW cls, NEW msgs, Feed(m, C, N, cls, msgs)
    PROVE  /\ \A i \in DOMAIN aq : i \in DOMAIN aq' /\ aq'[i] = aq[i]
           /\ \A w \in C : \E i \in DOMAIN aq' : aq'[i].op = "close" /\ aq'[i].w = w
           /\ \A w \in N : \E i \in DOMAIN aq' : aq'[i].op # "close" /\ aq'[i].w = w /\ aq'[i].m = m
           /\ \A i \in DOMAIN aq' :
                 \/ i \in DOMAIN aq /\ aq'[i] = aq[i]
                 \/ i \notin DOMAIN aq /\ aq'[i].op = "close" /\ aq'[i].w \in C
                 \/ i \notin DOMAIN aq /\ aq'[i].op # "close" /\ aq'[i].w \in N /\ aq'[i].m = m
           /\ \A i, j \in DOMAIN aq' :
                 i < j /\ aq'[i].op # "close" /\ aq'[j].op # "close" /\ aq'[i].w = aq'[j].w
                     => i \in DOMAIN aq
           /\ \A i \in DOMAIN aq', j \in DOMAIN aq : i < j => i \in DOMAIN aq
<1>1. /\ \A i \in DOMAIN cls : cls[i].op = "close" /\ cls[i].w \in C
      /\ \A w \in C : \E i \in DOMAIN cls : cls[i].w = w
      /\ \A i \in DOMAIN msgs : /\ msgs[i].m = m /\ msgs[i].w \in N
                                /\ msgs[i].op = IF msgs[i].w \in active \ C THEN "append" ELSE "open"
      /\ \A i, j \in DOMAIN msgs : msgs[i].w = msgs[j].w => i = j
      /\ \A w \in N : \E i \in DOMAIN msgs : msgs[i].w = w
  BY DEF Feed
<1>2. PICK q : q = aq'
  OBVIOUS
<1>3. q = aq \o cls \o msgs /\ aq \in Seq(WindowOp) /\ cls \in Seq(WindowOp) /\ msgs \in Seq(WindowOp)
  BY <1>2 DEF Feed, Types
<1>4. PICK n \in Nat, k \in Nat, l \in Nat : Placed(q, aq, cls, msgs, n, k, l)
  BY <1>3, ThreeParts
<1>51. \A i \in 1..n : i \in 1..(n + k + l)
  OBVIOUS
<1>5. /\ DOMAIN aq = 1..n /\ DOMAIN q = 1..(n + k + l)
      /\ \A i \in 1..n : q[i] = aq[i] /\ i \in 1..(n + k + l)
      /\ \A i \in 1..k : q[n + i] = cls[i] /\ n + i \in 1..(n + k + l)
      /\ \A i \in 1..l : q[n + k + i] = msgs[i] /\ n + k + i \in 1..(n + k + l)
      /\ \A i \in 1..(n + k + l) : \/ i \in 1..n
                                   \/ \E j \in 1..k : i = n + j /\ q[i] = cls[j]
                                   \/ \E j \in 1..l : i = n + k + j /\ q[i] = msgs[j]
  BY <1>4, <1>51 DEF Placed
<1>61. DOMAIN cls = 1..k /\ DOMAIN msgs = 1..l
  BY <1>4 DEF Placed
<1>6. \A j \in 1..k : cls[j].op = "close" /\ cls[j].w \in C
  BY <1>1, <1>61
<1>7. \A j \in 1..l : msgs[j].op # "close" /\ msgs[j].w \in N /\ msgs[j].m = m
  BY <1>1, <1>61
<1>8. \A w \in C : \E i \in 1..(n + k + l) : q[i].op = "close" /\ q[i].w = w
  <2> TAKE w \in C
  <2>1. PICK j \in 1..k : cls[j].w = w
    BY <1>1, <1>61
  <2>2. q[n + j] = cls[j] /\ n + j \in 1..(n + k + l) /\ cls[j].op = "close"
    BY <1>5, <1>6
  <2>3. QED
    BY <2>1, <2>2
<1>9. \A w \in N : \E i \in 1..(n + k + l) : q[i].op # "close" /\ q[i].w = w /\ q[i].m = m
  <2> TAKE w \in N
  <2>1. PICK j \in 1..l : msgs[j].w = w
    BY <1>1, <1>61
  <2>2. q[n + k + j] = msgs[j] /\ n + k + j \in 1..(n + k + l) /\ msgs[j].op # "close" /\ msgs[j].m = m
    BY <1>5, <1>7
  <2>3. QED
    BY <2>1, <2>2
<1>10. ASSUME NEW i \in 1..(n + k + l)
       PROVE  \/ i \in 1..n /\ q[i] = aq[i]
              \/ i \notin 1..n /\ q[i].op = "close" /\ q[i].w \in C
              \/ i \notin 1..n /\ q[i].op # "close" /\ q[i].w \in N /\ q[i].m = m
  <2>1. CASE i \in 1..n
    BY <1>5, <2>1
  <2>2. CASE \E j \in 1..k : i = n + j /\ q[i] = cls[j]
    <3>1. i \notin 1..n
      BY <2>2
    <3>2. QED
      BY <1>6, <2>2, <3>1
  <2>3. CASE \E j \in 1..l : i = n + k + j /\ q[i] = msgs[j]
    <3>1. i \notin 1..n
      BY <2>3
    <3>2. QED
      BY <1>7, <2>3, <3>1
  <2>4. QED
    BY <1>5, <2>1, <2>2, <2>3
<1>11. ASSUME NEW i \in 1..(n + k + l), NEW j \in 1..(n + k + l),
              i < j, q[i].op # "close", q[j].op # "close", q[i].w = q[j].w
       PROVE  i \in 1..n
  <2>1. SUFFICES ASSUME i \notin 1..n PROVE FALSE
    OBVIOUS
  <2>2. j \notin 1..n
    BY <1>11, <2>1
  <2>0. \A x \in 1..(n + k + l) : x \notin 1..n /\ q[x].op # "close" =>
            \E y \in 1..l : x = n + k + y /\ q[x] = msgs[y]
    <3> TAKE x \in 1..(n + k + l)
    <3> HAVE x \notin 1..n /\ q[x].op # "close"
    <3>1. ~(\E y \in 1..k : x = n + y /\ q[x] = cls[y])
      BY <1>6
    <3>2. \/ x \in 1..n
          \/ \E y \in 1..k : x = n + y /\ q[x] = cls[y]
          \/ \E y \in 1..l : x = n + k + y /\ q[x] = msgs[y]
      BY <1>5
    <3>3. QED
      BY <3>1, <3>2
  <2>3. PICK a \in 1..l : i = n + k + a /\ q[i] = msgs[a]
    BY <1>11, <2>0, <2>1
  <2>4. PICK b \in 1..l : j = n + k + b /\ q[j] = msgs[b]
    BY <1>11, <2>0, <2>2
  <2>5. \A x, y \in 1..l : msgs[x].w = msgs[y].w => x = y
    BY <1>1, <1>61
  <2>6. a = b
    BY <1>11, <2>3, <2>4, <2>5
  <2>7. QED
    BY <1>11, <2>3, <2>4, <2>6
<1>12. \A i \in 1..(n + k + l), j \in 1..n : i < j => i \in 1..n
  OBVIOUS
<1>13. /\ \A i \in 1..n : i \in DOMAIN q /\ q[i] = aq[i]
       /\ DOMAIN q = 1..(n + k + l) /\ DOMAIN aq = 1..n
  BY <1>5
<1> HIDE DEF Feed
<1>14. QED
  BY <1>2, <1>8, <1>9, <1>10, <1>11, <1>12, <1>13

\* Fixed windows start at multiples of the length.
LEMMA FixedAligned ==
    ASSUME Types, kind = "fixed", NEW m \in 1..Len(input), NEW w \in WindowsOf(m)
    PROVE  Aligned(w)
<1>1. Length \in Nat /\ Length > 0 /\ Step = Length
  BY Constants DEF Step
<1>2. w \in Int /\ w % Length = 0
  BY <1>1, WindowEnds DEF WindowsOf
<1>3. PICK q \in Int : w - (w % Length) = Length * q
  BY <1>1, <1>2, DivMod
<1>4. w = q * Length
  BY <1>1, <1>2, <1>3
<1>5. QED
  BY <1>4 DEF Aligned

\* The end of an aligned window is aligned.
LEMMA EndAligned == ASSUME NEW w, Aligned(w) PROVE Aligned(End(w))
<1>1. PICK k \in Int : w = k * Length
  BY DEF Aligned
<1>2. Length \in Nat
  BY Constants
<1>3. (k + 1) * Length = k * Length + Length /\ k + 1 \in Int
  BY <1>2
<1>4. QED
  BY <1>1, <1>3 DEF Aligned, End

\* Failures are counted.
LEMMA NoFailure ==
    ASSUME Types, [Next]_vars, fails' = 0
    PROVE  fails = 0 /\ ~CloseFails /\ ~(\E w \in DOMAIN stream : TaskFails(w))
<1>1. fails \in Nat
  BY Constants DEF Types
<1>2. ~CloseFails /\ ~(\E w \in DOMAIN stream : TaskFails(w))
  BY <1>1 DEF CloseFails, TaskFails
<1>3. fails' = fails
  <2>1. CASE Replay \/ Read
    BY <2>1 DEF Replay, Read
  <2>2. CASE ReducerNext
    BY <2>2 DEF ReducerNext, ConsumeData, ConsumeWmb, Drain, HandleError, StreamEnds
  <2>3. CASE ActorNext
    BY <2>3 DEF ActorNext, ActorOpen, ActorAppend, ActorClose
  <2>4. CASE TaskNext
    BY <2>4 DEF TaskNext, CloseCancelled, Respond, WriteResults, GcWindow
  <2>5. CASE Publish \/ HardShutdown \/ Exit \/ Boot
    BY <2>5 DEF Publish, HardShutdown, Exit, Boot
  <2>6. CASE FaultNext
    BY <1>2, <2>6 DEF FaultNext, GiveUpWrite, Cancel, Kill
  <2>7. CASE Idle \/ UNCHANGED vars
    BY <2>7 DEF Idle, vars
  <2>8. QED
    BY <2>1, <2>2, <2>3, <2>4, <2>5, <2>6, <2>7 DEF Next
<1>4. QED
  BY <1>2, <1>3

\* Fixed windows and the ends of GC events stay aligned.
LEMMA FixedWindows ==
    ASSUME Types, Stopped, Order, Windows, Actor, Fixed, kind = "fixed", [Next]_vars
    PROVE  /\ \A w \in active' \cup closed' : Aligned(w)
           /\ \A e \in GcEvents' : Aligned(e)
<1>1. (\A w \in active \cup closed : Aligned(w)) /\ (\A e \in GcEvents : Aligned(e))
  BY DEF Fixed
<1>2. CASE ConsumeData \/ ConsumeWmb
  <2>1. PICK m, C, N, cls, msgs : Feed(m, C, N, cls, msgs)
    BY <1>2, ConsumeFeeds DEF Feeds
  <2>2. /\ C \in SUBSET active /\ N \in SUBSET WindowsOf(m)
        /\ active' = (active \ C) \cup N /\ closed' = closed \cup C /\ UNCHANGED gcVars
    BY <2>1 DEF Feed
  <2>3. m \in 1..Len(input)
    BY <2>1, FeedFacts
  <2>4. \A w \in N : Aligned(w)
    BY <2>2, <2>3, FixedAligned
  <2>5. GcEvents' = GcEvents
    BY <2>2 DEF GcEvents
  <2>6. QED
    BY <1>1, <2>2, <2>4, <2>5
<1>3. CASE GcWindow
  <2>1. closing # None /\ closed' = closed \ {closing.w} /\ active' = active
    BY <1>3 DEF GcWindow
  <2>2. closing.w \in closed
    BY <2>1 DEF Actor
  <2>3. GcEndOf(closing.w) = End(closing.w)
    BY DEF GcEndOf
  <2>4. Aligned(GcEndOf(closing.w))
    BY <1>1, <2>2, <2>3, EndAligned
  <2>5. GcEvents' = GcEvents \cup {GcEndOf(closing.w)}
    BY <1>3, GcEventsNext
  <2>6. QED
    BY <1>1, <2>1, <2>4, <2>5
<1>4. CASE Exit \/ Kill
  <2>1. active' = {} /\ closed' = {}
    BY <1>4 DEF Exit, Kill, Down
  <2>2. GcEvents' \subseteq GcEvents
    BY <1>4, GcEventsNext
  <2>3. QED
    BY <1>1, <2>1, <2>2
<1>5. CASE Boot
  <2>1. closed' = {} /\ saved = NoFile
    BY <1>5 DEF Boot, Stopped
  <2>2. active' = {}
    BY <1>5, <2>1, BootLoads DEF NoFile
  <2>3. GcEvents' = GcEvents
    BY <1>5 DEF Boot, GcEvents
  <2>4. QED
    BY <1>1, <2>1, <2>2, <2>3
<1>6. CASE ~(ConsumeData \/ ConsumeWmb \/ GcWindow \/ Exit \/ Kill \/ Boot)
  <2>1. UNCHANGED <<active, closed, gcq, gcEnd>>
    BY <1>6, WindowsFrame
  <2>2. GcEvents' = GcEvents
    BY <2>1 DEF GcEvents
  <2>3. QED
    BY <1>1, <2>1, <2>2
<1>7. QED
  BY <1>2, <1>3, <1>4, <1>5, <1>6

\* The tasks of open windows run, until one fails or the hard shutdown.
LEMMA FixedTasks ==
    ASSUME Types, Stopped, Fixed, kind = "fixed", [Next]_vars
    PROVE  /\ fails' = 0 /\ ~hard' => \A w \in DOMAIN stream' : stream'[w].st = "run"
           /\ hard' => \A w \in DOMAIN stream' : stream'[w].st # "run"
<1>1. /\ fails = 0 /\ ~hard => \A w \in DOMAIN stream : stream[w].st = "run"
      /\ hard => \A w \in DOMAIN stream : stream[w].st # "run"
  BY DEF Fixed
<1>2. \A w \in DOMAIN stream : stream[w] \in TaskState
  BY DEF Types
<1>3. Stays
  BY StaysNext
<1>4. fails' = 0 => fails = 0
  BY NoFailure
<1>5. CASE ActorNext
  <2>1. hard' = hard
    BY <1>5 DEF ActorNext, ActorOpen, ActorAppend, ActorClose
  <2>2. CASE ActorOpen
    <3>1. PICK a : stream' = With(stream, a.w, [st |-> IF hard THEN "dead" ELSE "run", ms |-> <<a.m>>])
      BY <2>2 DEF ActorOpen, Opened
    <3>2. DOMAIN stream' = DOMAIN stream \cup {a.w}
          /\ \A w \in DOMAIN stream' : IF w = a.w THEN stream'[w].st = (IF hard THEN "dead" ELSE "run")
                                                 ELSE stream'[w] = stream[w]
      BY <3>1 DEF With
    <3>3. QED
      BY <1>1, <1>4, <2>1, <3>2
  <2>3. CASE ActorAppend
    <3>1. PICK a : stream' = IF stream[a.w].st = "run"
                             THEN [stream EXCEPT ![a.w].ms = Append(@, a.m)] ELSE stream
      BY <2>3 DEF ActorAppend
    <3>2. DOMAIN stream' = DOMAIN stream
      BY <3>1
    <3>3. \A w \in DOMAIN stream : stream'[w].st = stream[w].st
      BY <1>2, <3>1 DEF TaskState
    <3>4. QED
      BY <1>1, <1>4, <2>1, <3>2, <3>3
  <2>4. CASE ActorClose
    <3>1. stream' = stream \/ \E w : stream' = Without(stream, w)
      BY <2>4 DEF ActorClose
    <3>2. DOMAIN stream' \subseteq DOMAIN stream /\ \A w \in DOMAIN stream' : stream'[w] = stream[w]
      BY <3>1 DEF Without
    <3>3. QED
      BY <1>1, <1>4, <2>1, <3>2
  <2>5. QED
    BY <1>5, <2>2, <2>3, <2>4 DEF ActorNext
<1>6. CASE FaultNext /\ ~Kill
  <2>1. CASE \E w \in DOMAIN stream : TaskFails(w)
    <3>1. PICK w \in DOMAIN stream : TaskFails(w)
      BY <2>1
    <3>2. stream' = [stream EXCEPT ![w].st = "failed"] /\ hard' = hard
      BY <3>1 DEF TaskFails
    <3>3. DOMAIN stream' = DOMAIN stream
          /\ \A v \in DOMAIN stream : stream'[v].st = "failed" \/ stream'[v] = stream[v]
      BY <1>2, <3>2 DEF TaskState
    <3>4. fails' # 0
      BY <2>1, NoFailure
    <3>5. QED
      BY <1>1, <3>2, <3>3, <3>4
  <2>2. CASE CloseFails \/ GiveUpWrite \/ Cancel
    <3>1. UNCHANGED <<stream, hard>>
      BY <2>2 DEF CloseFails, GiveUpWrite, Cancel
    <3>2. QED
      BY <1>1, <1>4, <3>1
  <2>3. QED
    BY <1>6, <2>1, <2>2 DEF FaultNext
<1>7. CASE HardShutdown
  <2>1. hard' /\ stream' = [w \in DOMAIN stream |->
                     IF stream[w].st = "run" THEN [stream[w] EXCEPT !.st = "dead"] ELSE stream[w]]
    BY <1>7 DEF HardShutdown
  <2>2. \A w \in DOMAIN stream' : stream'[w].st # "run"
    BY <1>2, <2>1 DEF TaskState
  <2>3. QED
    BY <2>1, <2>2
<1>8. CASE Exit \/ Kill \/ Boot
  <2>1. stream' = <<>>
    BY <1>8 DEF Exit, Kill, Down, Boot, Stopped
  <2>2. QED
    BY <2>1
<1>9. CASE ~(ActorNext \/ FaultNext \/ HardShutdown \/ Exit \/ Boot)
  <2>1. stream' = stream
    <3>1. CASE ConsumeData \/ ConsumeWmb
      BY <3>1 DEF ConsumeData, ConsumeWmb
    <3>2. CASE TaskNext
      BY <3>2 DEF TaskNext, CloseCancelled, Respond, WriteResults, GcWindow
    <3>3. CASE ~ConsumeData /\ ~ConsumeWmb /\ ~TaskNext
      BY <1>9, <3>3, ActorFrame
    <3>4. QED
      BY <3>1, <3>2, <3>3
  <2>2. hard' = hard
    BY <1>3, <1>9 DEF Stays, FaultNext
  <2>3. QED
    BY <1>1, <1>4, <2>1, <2>2
<1>10. QED
  BY <1>5, <1>6, <1>7, <1>8, <1>9

\* A message for the task of w is to come.
DataComes(w) == \E i \in DOMAIN aq : aq[i].w = w /\ aq[i].op # "close"

\* What is still to come when the actor has taken a message.
LEMMA PopComes ==
    ASSUME Types, Actor, aq # <<>>, aq' = Tail(aq)
    PROVE  /\ \A w : CloseComes(w)' => CloseComes(w)
           /\ \A w : CloseComes(w) => CloseComes(w)' \/ (Head(aq).op = "close" /\ w = Head(aq).w)
           /\ \A w : DataComes(w) => DataComes(w)' \/ (Head(aq).op # "close" /\ w = Head(aq).w)
           /\ \A w : DataComes(w)' => DataComes(w)
           /\ Head(aq).op = "close" =>
                 /\ CloseComes(Head(aq).w) /\ Head(aq).w \in closed /\ ~DataComes(Head(aq).w)
                 /\ \A i \in DOMAIN aq' : aq'[i].w # Head(aq).w
           /\ Head(aq).op # "close" => Head(aq).w \in active \/ CloseComes(Head(aq).w)
           /\ Head(aq).w \in Int
<1>1. PICK n \in Nat : n >= 1 /\ Head(aq) = aq[1] /\ 1 \in 1..n /\ Popped(Tail(aq), n)
  BY PopFacts
<1>2. PICK q : q = aq' /\ q = Tail(aq)
  OBVIOUS
<1>3. /\ DOMAIN aq = 1..n /\ DOMAIN q = 1..(n - 1)
      /\ \A i \in 1..(n - 1) : q[i] = aq[i + 1] /\ i + 1 \in 1..n /\ 1 < i + 1
      /\ \A i \in 1..n : i = 1 \/ \E j \in 1..(n - 1) : i = j + 1
  BY <1>1, <1>2 DEF Popped
<1>4. PICK a : a = aq[1] /\ a = Head(aq)
  BY <1>1
<1>5. /\ \A w : CloseComes(w) <=> \E i \in 1..n : aq[i].op = "close" /\ aq[i].w = w
      /\ \A w : DataComes(w) <=> \E i \in 1..n : aq[i].op # "close" /\ aq[i].w = w
  BY <1>3 DEF CloseComes, DataComes
<1>6. /\ \A w : CloseComes(w)' <=> \E i \in 1..(n - 1) : q[i].op = "close" /\ q[i].w = w
      /\ \A w : DataComes(w)' <=> \E i \in 1..(n - 1) : q[i].op # "close" /\ q[i].w = w
  BY <1>2, <1>3 DEF CloseComes, DataComes
<1>7. \A w : CloseComes(w)' => CloseComes(w)
  BY <1>3, <1>5, <1>6
<1>8. \A w : DataComes(w)' => DataComes(w)
  BY <1>3, <1>5, <1>6
<1>9. ASSUME NEW w, CloseComes(w) PROVE CloseComes(w)' \/ (a.op = "close" /\ w = a.w)
  <2>1. PICK i \in 1..n : aq[i].op = "close" /\ aq[i].w = w
    BY <1>5, <1>9
  <2>2. CASE i = 1
    BY <1>4, <2>1, <2>2
  <2>3. CASE i # 1
    <3>1. PICK j \in 1..(n - 1) : i = j + 1
      BY <1>3, <2>3
    <3>2. q[j].op = "close" /\ q[j].w = w
      BY <1>3, <2>1, <3>1
    <3>3. QED
      BY <1>6, <3>2
  <2>4. QED
    BY <2>2, <2>3
<1>10. ASSUME NEW w, DataComes(w) PROVE DataComes(w)' \/ (a.op # "close" /\ w = a.w)
  <2>1. PICK i \in 1..n : aq[i].op # "close" /\ aq[i].w = w
    BY <1>5, <1>10
  <2>2. CASE i = 1
    BY <1>4, <2>1, <2>2
  <2>3. CASE i # 1
    <3>1. PICK j \in 1..(n - 1) : i = j + 1
      BY <1>3, <2>3
    <3>2. q[j].op # "close" /\ q[j].w = w
      BY <1>3, <2>1, <3>1
    <3>3. QED
      BY <1>6, <3>2
  <2>4. QED
    BY <2>2, <2>3
<1>11. ASSUME a.op = "close"
       PROVE  /\ CloseComes(a.w) /\ a.w \in closed /\ ~DataComes(a.w)
              /\ \A i \in DOMAIN aq' : aq'[i].w # a.w
  <2>1. /\ a.w \in closed /\ \A j \in 1..n : j > 1 => aq[j].w # a.w
    BY <1>1, <1>3, <1>4, <1>11 DEF Actor
  <2>2. CloseComes(a.w)
    BY <1>1, <1>4, <1>5, <1>11
  <2>3. \A i \in 1..(n - 1) : i + 1 > 1
    OBVIOUS
  <2>4. \A i \in 1..(n - 1) : q[i].w # a.w
    BY <1>3, <2>1, <2>3
  <2>5. ~DataComes(a.w)
    <3>1. ~DataComes(a.w)'
      BY <1>6, <2>4
    <3>2. QED
      BY <1>10, <1>11, <3>1
  <2>6. QED
    BY <1>2, <1>3, <2>1, <2>2, <2>4, <2>5
<1>12. a.op # "close" => a.w \in active \/ CloseComes(a.w)
  BY <1>1, <1>3, <1>4 DEF Actor
<1>13. a.w \in Int
  <2>1. a \in WindowOp
    BY <1>4, SeqTail DEF Types
  <2>2. QED
    BY <2>1 DEF WindowOp
<1>14. QED
  BY <1>4, <1>7, <1>8, <1>9, <1>10, <1>11, <1>12, <1>13

\* The streams and the closing task after a step of the actor.
LEMMA ActorSteps ==
    ASSUME Types, ActorNext
    PROVE  /\ closing = None /\ aq # <<>> /\ aq' = Tail(aq) /\ up
           /\ UNCHANGED <<inVars, up, replay, chan, wm, winVars, saved, shutting, hard, gcVars, pubVars, histVars>>
           /\ \/ /\ Head(aq).op # "close" /\ closing' = None
                 /\ DOMAIN stream' = DOMAIN stream \cup {Head(aq).w}
              \/ /\ Head(aq).op = "close" /\ Head(aq).w \in DOMAIN stream
                 /\ stream' = Without(stream, Head(aq).w) /\ DOMAIN stream' = DOMAIN stream \ {Head(aq).w}
                 /\ closing' = IF stream[Head(aq).w].st = "run"
                               THEN [w |-> Head(aq).w, ms |-> stream[Head(aq).w].ms, st |-> "udf"]
                               ELSE None
              \/ /\ Head(aq).op = "close" /\ Head(aq).w \notin DOMAIN stream
                 /\ closing' = None /\ stream' = stream
<1>1. /\ closing = None /\ aq # <<>> /\ aq' = Tail(aq) /\ up
      /\ UNCHANGED <<inVars, up, replay, chan, wm, winVars, saved, shutting, hard, gcVars, pubVars, histVars>>
  BY DEF ActorNext, ActorOpen, ActorAppend, ActorClose
<1>2. CASE ActorOpen
  <2>1. stream' = With(stream, Head(aq).w, [st |-> IF hard THEN "dead" ELSE "run", ms |-> <<Head(aq).m>>])
        /\ Head(aq).op # "close" /\ closing' = None
    BY <1>1, <1>2 DEF ActorOpen, Opened
  <2>2. DOMAIN stream' = DOMAIN stream \cup {Head(aq).w}
    BY <2>1 DEF With
  <2>3. QED
    BY <1>1, <2>1, <2>2
<1>3. CASE ActorAppend
  <2>1. /\ stream' = IF stream[Head(aq).w].st = "run"
                     THEN [stream EXCEPT ![Head(aq).w].ms = Append(@, Head(aq).m)] ELSE stream
        /\ Head(aq).op # "close" /\ closing' = None /\ Head(aq).w \in DOMAIN stream
    BY <1>1, <1>3 DEF ActorAppend
  <2>2. DOMAIN stream' = DOMAIN stream
    BY <2>1
  <2>3. QED
    BY <1>1, <2>1, <2>2
<1>4. CASE ActorClose
  <2>1. Head(aq).op = "close"
    BY <1>4 DEF ActorClose
  <2>2. CASE Head(aq).w \in DOMAIN stream
    <3>1. /\ stream' = Without(stream, Head(aq).w)
          /\ closing' = IF stream[Head(aq).w].st = "run"
                        THEN [w |-> Head(aq).w, ms |-> stream[Head(aq).w].ms, st |-> "udf"] ELSE None
      BY <1>4, <2>2 DEF ActorClose
    <3>2. DOMAIN stream' = DOMAIN stream \ {Head(aq).w}
      BY <3>1 DEF Without
    <3>3. QED
      BY <1>1, <2>1, <2>2, <3>1, <3>2
  <2>3. CASE Head(aq).w \notin DOMAIN stream
    <3>1. UNCHANGED <<stream, closing>>
      BY <1>4, <2>3 DEF ActorClose
    <3>2. QED
      BY <1>1, <2>1, <2>3, <3>1
  <2>4. QED
    BY <2>2, <2>3
<1>5. QED
  BY <1>2, <1>3, <1>4 DEF ActorNext

\* Every fixed window that is open or to be closed has a task, or the actor will start one.
LEMMA FixedBegun ==
    ASSUME Types, Stopped, Order, Windows, Actor, Fixed, kind = "fixed", [Next]_vars
    PROVE  \A w \in Int : w \in active' \/ CloseComes(w)' => Begun(w)'
<1>1. \A w \in Int : w \in active \/ CloseComes(w) => w \in DOMAIN stream \/ DataComes(w)
  BY DEF Fixed, Begun, DataComes
<1>2. \A w : Begun(w)' <=> w \in DOMAIN stream' \/ DataComes(w)'
  BY DEF Begun, DataComes
<1>3. CASE ConsumeData \/ ConsumeWmb
  <2>1. PICK m, C, N, cls, msgs : Feed(m, C, N, cls, msgs)
    BY <1>3, ConsumeFeeds DEF Feeds
  <2>2. C \in SUBSET active /\ active' = (active \ C) \cup N /\ stream' = stream
    BY <2>1 DEF Feed
  <2>3. /\ \A i \in DOMAIN aq : i \in DOMAIN aq' /\ aq'[i] = aq[i]
        /\ \A w \in N : \E i \in DOMAIN aq' : aq'[i].op # "close" /\ aq'[i].w = w /\ aq'[i].m = m
        /\ \A i \in DOMAIN aq' :
              \/ i \in DOMAIN aq /\ aq'[i] = aq[i]
              \/ i \notin DOMAIN aq /\ aq'[i].op = "close" /\ aq'[i].w \in C
              \/ i \notin DOMAIN aq /\ aq'[i].op # "close" /\ aq'[i].w \in N /\ aq'[i].m = m
    BY <2>1, FeedQueue
  <2>4. \A w : DataComes(w) => DataComes(w)'
    BY <2>3 DEF DataComes
  <2>5. \A w \in N : DataComes(w)'
    BY <2>3 DEF DataComes
  <2>6. \A w : CloseComes(w)' => CloseComes(w) \/ w \in active
    BY <2>2, <2>3 DEF CloseComes
  <2>7. QED
    BY <1>1, <1>2, <2>2, <2>4, <2>5, <2>6
<1>4. CASE ActorNext
  <2>1. /\ aq # <<>> /\ aq' = Tail(aq) /\ UNCHANGED <<active, closed>>
        /\ \/ Head(aq).op # "close" /\ DOMAIN stream' = DOMAIN stream \cup {Head(aq).w}
           \/ Head(aq).op = "close" /\ DOMAIN stream' = DOMAIN stream \ {Head(aq).w}
    BY <1>4, ActorSteps
  <2>2. /\ \A w : CloseComes(w)' => CloseComes(w)
        /\ \A w : DataComes(w) => DataComes(w)' \/ (Head(aq).op # "close" /\ w = Head(aq).w)
        /\ Head(aq).op = "close" =>
              /\ Head(aq).w \in closed /\ \A i \in DOMAIN aq' : aq'[i].w # Head(aq).w
    BY <2>1, PopComes
  <2>3. Head(aq).op = "close" => Head(aq).w \notin active
    <3>1. \A c \in closed, a \in active : c < a /\ c \in Int
      BY DEF Windows, Types
    <3>2. QED
      BY <2>2, <3>1
  <2>4. \A w : Head(aq).op = "close" /\ w = Head(aq).w => ~CloseComes(w)'
    BY <2>2 DEF CloseComes
  <2>5. QED
    BY <1>1, <1>2, <2>1, <2>2, <2>3, <2>4
<1>5. CASE Exit \/ Kill \/ Boot
  <2>1. aq' = <<>>
    BY <1>5 DEF Exit, Kill, Down, Boot, Stopped
  <2>2. active' = {}
    <3>1. CASE Boot
      BY <3>1, BootLoads DEF Stopped, NoFile
    <3>2. CASE Exit \/ Kill
      BY <3>2 DEF Exit, Kill, Down
    <3>3. QED
      BY <1>5, <3>1, <3>2
  <2>3. QED
    BY <2>1, <2>2 DEF CloseComes
<1>6. CASE ~(ConsumeData \/ ConsumeWmb \/ ActorNext \/ Exit \/ Kill \/ Boot)
  <2>1. aq' = aq /\ DOMAIN stream' = DOMAIN stream /\ active' = active
    <3>1. CASE TaskNext
      BY <3>1 DEF TaskNext, CloseCancelled, Respond, WriteResults, GcWindow
    <3>2. CASE FaultNext
      BY <1>6, <3>2 DEF FaultNext, CloseFails, GiveUpWrite, TaskFails, Cancel
    <3>3. CASE HardShutdown
      BY <3>3 DEF HardShutdown
    <3>4. CASE ~TaskNext /\ ~FaultNext /\ ~HardShutdown
      <4>1. UNCHANGED <<aq, stream>>
        BY <1>6, <3>4, ActorFrame
      <4>2. active' = active
        BY <1>6, <3>4, WindowsFrame DEF TaskNext
      <4>3. QED
        BY <4>1, <4>2
    <3>5. QED
      BY <3>1, <3>2, <3>3, <3>4
  <2>2. \A w : (CloseComes(w)' <=> CloseComes(w)) /\ (DataComes(w)' <=> DataComes(w))
    BY <2>1 DEF CloseComes, DataComes
  <2>3. QED
    BY <1>1, <1>2, <2>1, <2>2
<1>7. QED
  BY <1>3, <1>4, <1>5, <1>6

\* Closed fixed windows are to be finished, one after the other.
LEMMA FixedClosed ==
    ASSUME Types, Stopped, Order, Windows, Actor, Fixed, kind = "fixed", [Next]_vars,
           fails' = 0, closing' # None \/ ~hard'
    PROVE  \A w \in closed' : (closing' # None /\ w = closing'.w) \/ CloseComes(w)'
<1>1. /\ \A w \in Int : w \in active \/ CloseComes(w) => w \in DOMAIN stream \/ DataComes(w)
      /\ fails = 0 /\ ~hard => \A w \in DOMAIN stream : stream[w].st = "run"
      /\ hard => \A w \in DOMAIN stream : stream[w].st # "run"
      /\ fails = 0 /\ (closing # None \/ ~hard) =>
            \A w \in closed : (closing # None /\ w = closing.w) \/ CloseComes(w)
  BY DEF Fixed, Begun, DataComes
<1>2. fails = 0 /\ ~CloseFails /\ ~(\E w \in DOMAIN stream : TaskFails(w))
  BY NoFailure
<1>3. Stays
  BY StaysNext
<1>4. CASE ConsumeData \/ ConsumeWmb
  <2>1. PICK m, C, N, cls, msgs : Feed(m, C, N, cls, msgs)
    BY <1>4, ConsumeFeeds DEF Feeds
  <2>2. closed' = closed \cup C /\ UNCHANGED <<closing, hard>>
    BY <2>1 DEF Feed
  <2>3. /\ \A i \in DOMAIN aq : i \in DOMAIN aq' /\ aq'[i] = aq[i]
        /\ \A w \in C : \E i \in DOMAIN aq' : aq'[i].op = "close" /\ aq'[i].w = w
    BY <2>1, FeedQueue
  <2>4. \A w : CloseComes(w) => CloseComes(w)'
    BY <2>3 DEF CloseComes
  <2>5. \A w \in C : CloseComes(w)'
    BY <2>3 DEF CloseComes
  <2>6. QED
    BY <1>1, <1>2, <2>2, <2>4, <2>5
<1>5. CASE ActorNext
  <2>1. /\ closing = None /\ aq # <<>> /\ aq' = Tail(aq) /\ UNCHANGED <<closed, hard>>
        /\ \/ Head(aq).op # "close" /\ closing' = None
           \/ /\ Head(aq).op = "close" /\ Head(aq).w \in DOMAIN stream
              /\ closing' = IF stream[Head(aq).w].st = "run"
                            THEN [w |-> Head(aq).w, ms |-> stream[Head(aq).w].ms, st |-> "udf"] ELSE None
           \/ Head(aq).op = "close" /\ Head(aq).w \notin DOMAIN stream /\ closing' = None
    BY <1>5, ActorSteps
  <2>2. /\ \A w : CloseComes(w) => CloseComes(w)' \/ (Head(aq).op = "close" /\ w = Head(aq).w)
        /\ Head(aq).op = "close" => CloseComes(Head(aq).w) /\ ~DataComes(Head(aq).w)
        /\ Head(aq).w \in Int
    BY <2>1, PopComes
  <2>3. ~hard
    BY <1>1, <2>1
  <2>4. \A w \in closed : CloseComes(w)
    BY <1>1, <1>2, <2>1, <2>3
  <2>5. Head(aq).op = "close" => closing' # None /\ closing'.w = Head(aq).w
    <3>1. ASSUME Head(aq).op = "close" PROVE Head(aq).w \in DOMAIN stream
      BY <1>1, <2>2, <3>1
    <3>2. ASSUME Head(aq).op = "close"
          PROVE  closing' = [w |-> Head(aq).w, ms |-> stream[Head(aq).w].ms, st |-> "udf"]
      BY <1>1, <1>2, <2>1, <2>3, <3>1, <3>2
    <3>3. QED
      BY <3>2 DEF None
  <2>6. QED
    BY <2>1, <2>2, <2>4, <2>5
<1>6. CASE GcWindow
  <2>1. /\ closing # None /\ closed' = closed \ {closing.w} /\ closing' = None
        /\ UNCHANGED <<aq, hard>>
    BY <1>6 DEF GcWindow
  <2>2. \A w : CloseComes(w)' <=> CloseComes(w)
    BY <2>1 DEF CloseComes
  <2>3. QED
    BY <1>1, <1>2, <2>1, <2>2
<1>7. CASE CloseCancelled
  BY <1>7 DEF CloseCancelled
<1>8. CASE Respond \/ WriteResults \/ GiveUpWrite
  <2>1. /\ closing # None
        /\ closing' = [closing EXCEPT !.st = "some"] \/ closing' = [closing EXCEPT !.st = "written"]
        /\ UNCHANGED <<aq, closed>>
    BY <1>8 DEF Respond, WriteResults, GiveUpWrite
  <2>2. closing'.w = closing.w /\ closing' # None
    BY <2>1, ClosingType DEF Closing, None
  <2>3. \A w : CloseComes(w)' <=> CloseComes(w)
    BY <2>1 DEF CloseComes
  <2>4. QED
    BY <1>1, <1>2, <2>1, <2>2, <2>3
<1>9. CASE HardShutdown \/ Cancel
  <2>1. UNCHANGED <<aq, closed, closing>> /\ (hard => hard')
    BY <1>9 DEF HardShutdown, Cancel
  <2>2. \A w : CloseComes(w)' <=> CloseComes(w)
    BY <2>1 DEF CloseComes
  <2>3. QED
    BY <1>1, <1>2, <2>1, <2>2
<1>10. CASE Exit \/ Kill \/ Boot
  BY <1>10 DEF Exit, Kill, Down, Boot, Stopped
<1>11. CASE ~(ConsumeData \/ ConsumeWmb \/ ActorNext \/ TaskNext \/ FaultNext \/ HardShutdown
             \/ Exit \/ Boot)
  <2>1. UNCHANGED <<aq, closing>>
    BY <1>11, ActorFrame
  <2>2. closed' = closed
    BY <1>11, WindowsFrame DEF TaskNext, FaultNext
  <2>3. hard' = hard
    BY <1>3, <1>11 DEF Stays, FaultNext
  <2>4. \A w : CloseComes(w)' <=> CloseComes(w)
    BY <2>1 DEF CloseComes
  <2>5. QED
    BY <1>1, <1>2, <2>1, <2>2, <2>3, <2>4
<1>12. QED
  BY <1>2, <1>4, <1>5, <1>6, <1>7, <1>8, <1>9, <1>10, <1>11 DEF TaskNext, FaultNext

\* With fixed windows and no failure, closed windows are finished in their order.
LEMMA FixedNext ==
    Types /\ Stopped /\ Order /\ Windows /\ Actor /\ Fixed /\ [Next]_vars => Fixed'
<1> SUFFICES ASSUME Types, Stopped, Order, Windows, Actor, Fixed, [Next]_vars, kind' = "fixed"
             PROVE  /\ \A w \in active' \cup closed' : Aligned(w)
                    /\ \A e \in GcEvents' : Aligned(e)
                    /\ \A w \in Int : w \in active' \/ CloseComes(w)' => Begun(w)'
                    /\ fails' = 0 /\ ~hard' => \A w \in DOMAIN stream' : stream'[w].st = "run"
                    /\ hard' => \A w \in DOMAIN stream' : stream'[w].st # "run"
                    /\ fails' = 0 /\ (closing' # None \/ ~hard') =>
                          \A w \in closed' : (closing' # None /\ w = closing'.w) \/ CloseComes(w)'
  BY DEF Fixed, Aligned
<1>1. kind = "fixed"
  BY InputStays
<1>2. QED
  BY <1>1, FixedWindows, FixedBegun, FixedTasks, FixedClosed

\* An aligned window after another starts when that ends, or later.
LEMMA AlignedApart ==
    ASSUME NEW v, NEW w, Aligned(v), Aligned(w), v < w
    PROVE  End(v) <= w /\ End(v) \in Int /\ v \in Int /\ w \in Int
<1>1. PICK p \in Int : v = p * Length
  BY DEF Aligned
<1>2. PICK q \in Int : w = q * Length
  BY DEF Aligned
<1>3. Length \in Nat /\ Length > 0
  BY Constants
<1>4. v = Length * p /\ w = Length * q /\ v \in Int /\ w \in Int
  BY <1>1, <1>2, <1>3
<1>5. p < q
  <2>1. SUFFICES ASSUME ~(p < q) PROVE FALSE
    OBVIOUS
  <2>2. p = q \/ q < p
    BY <2>1
  <2>3. CASE p = q
    BY <1>4, <2>3
  <2>4. CASE q < p
    <3>1. Length * q + Length <= Length * p
      BY <1>3, <2>4, MultiplesApart
    <3>2. QED
      BY <1>3, <1>4, <3>1
  <2>5. QED
    BY <2>2, <2>3, <2>4
<1>6. Length * p + Length <= Length * q
  BY <1>3, <1>5, MultiplesApart
<1>7. QED
  BY <1>3, <1>4, <1>6 DEF End

\* What a finished window lets go has the results of all of its windows.
LEMMA CollectedGc ==
    ASSUME Types, Windows, Order, Actor, Cover, Accepted, Fixed, Collected, GcWindow, ~Excepted,
           NEW m \in accepted \ gone, input[m].et < GcEndOf(closing.w)
    PROVE  Deletable(m)
<1>1. closing # None /\ up /\ closing.st = "written" /\ ~lost
  BY DEF GcWindow, Excepted
<1>2. /\ closing.w \in closed /\ closing.w \in Int /\ GcEndOf(closing.w) \in Int
      /\ End(closing.w) <= wm /\ End(closing.w) \in Int
      /\ GcEndOf(closing.w) <= End(closing.w)
      /\ kind = "sliding" => /\ GcEndOf(closing.w) \in closed
                             /\ \A w \in closed : GcEndOf(closing.w) <= w
  BY <1>1, GcEndIs
<1>3. m \in 1..nread /\ m \in 1..Len(input) /\ input \in Inputs /\ wm \in Int /\ gcEnd \in Nat
  BY ItemRange DEF Types
<1>4. Accept(m)
  BY DEF Accepted
<1>5. X(m) \in Int /\ X(m) <= input[m].et /\ input[m].et \in Nat
  BY <1>3, <1>4, XFacts, ItemType
<1>6. ~(wm <= X(m))
  BY <1>2, <1>3, <1>5
<1>7. CASE ~Logged(m)
  <2>1. input[m].et < gcEnd
    BY <1>3, <1>4, <1>5, <1>7 DEF Logged
  <2>2. QED
    BY <2>1 DEF Collected, GcEvents
<1>8. CASE Logged(m)
  <2>1. m \notin ToCome
    BY <1>6 DEF Order
  <2>2. WindowsOf(m) \subseteq Known
    <3>1. InWindows
      BY CoverParts
    <3>2. QED
      BY <1>1, <1>3, <1>6, <1>8, <2>1, <3>1 DEF InWindows
  <2>3. ASSUME NEW w \in WindowsOf(m), w \in active \cup closed PROVE w \in finished
    <3>1. w \in Int /\ w <= input[m].et
      BY <1>3, WindowEnds
    <3>2. w < GcEndOf(closing.w)
      BY <1>2, <1>5, <3>1
    <3>3. kind \in {"fixed", "sliding"}
      BY Constants DEF Types
    <3>4. CASE kind = "sliding"
      <4>1. GcEndOf(closing.w) <= w
        <5>1. CASE w \in closed
          BY <1>2, <3>4, <5>1
        <5>2. CASE w \in active
          <6>1. GcEndOf(closing.w) < w
            BY <1>2, <3>4, <5>2 DEF Windows
          <6>2. QED
            BY <1>2, <3>1, <6>1
        <5>3. QED
          BY <2>3, <5>1, <5>2
      <4>2. QED
        BY <1>2, <3>1, <3>2, <4>1
    <3>5. CASE kind = "fixed"
      <4>1. GcEndOf(closing.w) = End(closing.w)
        BY <3>5 DEF GcEndOf
      <4>2. Aligned(w) /\ Aligned(closing.w)
        BY <1>2, <2>3, <3>5 DEF Fixed
      <4>3. ~(closing.w < w)
        <5>1. SUFFICES ASSUME closing.w < w PROVE FALSE
          OBVIOUS
        <5>2. End(closing.w) <= w
          BY <4>2, <5>1, AlignedApart
        <5>3. QED
          BY <1>2, <3>1, <3>2, <4>1, <5>2
      <4>4. w \in closed
        BY <1>2, <2>3, <4>3 DEF Windows
      <4>5. fails = 0
        BY <3>5, Constants DEF Excepted, Types
      <4>6. w = closing.w \/ CloseComes(w)
        BY <1>1, <3>5, <4>4, <4>5 DEF Fixed
      <4>7. ~CloseComes(w)
        BY <1>1, <4>3 DEF Actor, CloseComes
      <4>8. QED
        BY <1>1, <4>6, <4>7 DEF Cover
    <3>6. QED
      BY <3>3, <3>4, <3>5
  <2>4. QED
    BY <2>2, <2>3 DEF Known, Deletable
<1>9. QED
  BY <1>7, <1>8

\* Each message that a GC event covers has the results of its windows.
LEMMA CollectedNext ==
    Types /\ Stopped /\ Order /\ Windows /\ Actor /\ Cover /\ Behind /\ Accepted /\ Fixed /\ Collected
        /\ [Next]_vars => Collected'
<1> SUFFICES ASSUME Types, Stopped, Order, Windows, Actor, Cover, Behind, Accepted, Fixed, Collected,
                    [Next]_vars
             PROVE  Collected'
  OBVIOUS
<1>1. /\ \A m : WindowsOf(m)' = WindowsOf(m)
      /\ input' = input /\ kind' = kind
  BY InputStays, Rigid
<1>2. SUFFICES ASSUME ~Excepted', NEW e \in GcEvents', NEW m \in accepted', m \notin gone', input[m].et < e
               PROVE  Deletable(m)'
  BY <1>1 DEF Collected
<1>3. Stays /\ m \notin gone
  BY <1>2, StaysNext, LoggedStays
<1>4. ~Excepted
  <2>1. ~lost
    <3>1. CASE GiveUpWrite
      BY <1>2, <3>1 DEF GiveUpWrite, Excepted
    <3>2. CASE ~GiveUpWrite
      BY <1>2, <1>3, <3>2 DEF Stays, Excepted
    <3>3. QED
      BY <3>1, <3>2
  <2>2. kind = "fixed" => fails = 0
    <3>1. kind = "fixed" => ~(fails' > 0)
      BY <1>1, <1>2 DEF Excepted
    <3>2. fails' \in Nat
      <4>1. Types'
        BY TypesNext
      <4>2. QED
        BY <4>1, Constants DEF Types
    <3>3. QED
      BY <3>1, <3>2, NoFailure
  <2>3. QED
    BY <2>1, <2>2 DEF Excepted
<1>5. Deletable(m) => Deletable(m)'
  <2>1. finished \subseteq finished'
    <3>1. CASE WriteResults
      BY <3>1 DEF WriteResults
    <3>2. CASE ~WriteResults
      BY <1>3, <3>2 DEF Stays
    <3>3. QED
      BY <3>1, <3>2
  <2>2. QED
    BY <1>1, <2>1 DEF Deletable
<1>6. /\ GcWindow => GcEvents' = GcEvents \cup {GcEndOf(closing.w)}
      /\ ~GcWindow => GcEvents' \subseteq GcEvents
      /\ GcEvents \subseteq Int
  BY GcEventsNext
<1>7. CASE ConsumeData \/ ConsumeWmb
  <2>1. PICK k, C, N, cls, msgs : Feed(k, C, N, cls, msgs)
    BY <1>7, ConsumeFeeds DEF Feeds
  <2>2. accepted' = (IF Accept(k) THEN accepted \cup {k} ELSE accepted) /\ UNCHANGED <<gcq, gcEnd>>
    BY <2>1 DEF Feed
  <2>3. e \in GcEvents /\ e \in Int
    BY <1>2, <1>6, <2>2 DEF GcEvents
  <2>4. CASE m \in accepted
    BY <1>2, <1>3, <1>4, <1>5, <2>3, <2>4 DEF Collected
  <2>5. CASE m \notin accepted
    <3>1. m = k /\ Accept(m)
      BY <1>2, <2>2, <2>5
    <3>2. m \in 1..Len(input) /\ m \in ToCome /\ wm <= X(m) /\ X(m) \in Int
      BY <2>1, <3>1, FeedFacts
    <3>3. X(m) <= input[m].et /\ input[m].et \in Nat /\ wm \in Int /\ gcEnd \in Nat
      BY <3>1, <3>2, XFacts, ItemType DEF Types
    <3>4. e = gcEnd \/ e \in Range(gcq)
      BY <2>3 DEF GcEvents
    <3>5. e <= input[m].et
      BY <2>3, <3>1, <3>2, <3>3, <3>4 DEF Behind
    <3>6. QED
      BY <1>2, <2>3, <3>3, <3>5
  <2>6. QED
    BY <2>4, <2>5
<1>8. CASE ~ConsumeData /\ ~ConsumeWmb
  <2>1. accepted' = accepted
    <3>1. CASE GcWindow \/ Exit \/ Kill \/ Boot
      BY <3>1 DEF GcWindow, Exit, Kill, Boot
    <3>2. CASE ~GcWindow /\ ~Exit /\ ~Kill /\ ~Boot
      BY <1>8, <3>2, WindowsFrame
    <3>3. QED
      BY <3>1, <3>2
  <2>2. CASE e \in GcEvents
    BY <1>2, <1>3, <1>4, <1>5, <2>1, <2>2 DEF Collected
  <2>3. CASE e \notin GcEvents
    <3>1. GcWindow /\ e = GcEndOf(closing.w)
      BY <1>2, <1>6, <2>3
    <3>2. QED
      BY <1>2, <1>3, <1>4, <1>5, <2>1, <3>1, CollectedGc
  <2>4. QED
    BY <2>2, <2>3
<1>9. QED
  BY <1>7, <1>8

(***************************************************************************)
(* What the tasks are sent.                                                *)
(***************************************************************************)

\* A message that has come is in its windows, as long as they are not over.
LEMMA ArrivedNext ==
    Types /\ Stopped /\ Order /\ Arrived /\ [Next]_vars => Arrived'
<1> SUFFICES ASSUME Types, Stopped, Order, Arrived, [Next]_vars PROVE Arrived'
  OBVIOUS
<1>1. /\ \A m : X(m)' = X(m) /\ WindowsOf(m)' = WindowsOf(m)
      /\ \A w : End(w)' = End(w)
  BY InputStays, Rigid
<1>2. SUFFICES ASSUME up', ~shutting', NEW m \in 1..nread', Logged(m)', m \notin ToCome', NEW w \in WindowsOf(m)
               PROVE  w \in active' \/ End(w) <= wm' \/ End(w) <= maxDel'
  BY <1>1 DEF Arrived
<1>3. Stays
  BY StaysNext
<1>4. ~Exit /\ ~Kill
  BY <1>2 DEF Exit, Kill, Down
<1>5. /\ Read => ToCome' = ToCome \cup {nread + 1} /\ nread' = nread + 1
      /\ Boot => ToCome' = {i \in (1..nread) \ gone : input[i].et >= gcEnd}
      /\ ~Read /\ ~Boot /\ ~ConsumeData /\ ~ConsumeWmb /\ ~Drain /\ ~Exit /\ ~Kill => ToCome' = ToCome
  BY ToComeNext
<1>6. nread \in Nat /\ 1..nread \subseteq 1..Len(input) /\ gcEnd \in Nat /\ wm \in Int /\ maxDel \in Int
  BY ItemRange DEF Types
<1>7. m \in 1..nread /\ Logged(m)
  <2>1. m \in 1..nread
    <3>1. CASE Read
      BY <1>2, <1>5, <1>6, <3>1
    <3>2. CASE ~Read
      BY <1>2, <1>3, <3>2 DEF Stays
    <3>3. QED
      BY <3>1, <3>2
  <2>2. QED
    BY <1>2, <2>1, LoggedStays
<1>8. w \in Int /\ End(w) \in Int
  BY <1>2, <1>6, <1>7, WindowEnds
<1>9. CASE Boot
  BY <1>2, <1>5, <1>7, <1>9 DEF Logged
<1>10. CASE Drain
  BY <1>2, <1>10 DEF Drain
<1>11. CASE ConsumeData \/ ConsumeWmb
  <2>1. PICK k, C, N, cls, msgs : Feed(k, C, N, cls, msgs)
    BY <1>11, ConsumeFeeds DEF Feeds
  <2>2. /\ ToCome' = ToCome \ {k} /\ wm <= X(k) /\ X(k) \in Int
    BY <2>1, FeedFacts
  <2>3. /\ up /\ ~shutting /\ wm' = X(k) /\ maxDel' = maxDel /\ active' = (active \ C) \cup N
        /\ \A v \in C : End(v) <= X(k)
        /\ Accept(k) => \A v \in WindowsOf(k) : v \in N \/ End(v) <= maxDel
    BY <2>1 DEF Feed
  <2>4. CASE m = k
    BY <1>2, <1>7, <2>3, <2>4 DEF Logged
  <2>5. CASE m # k
    <3>1. w \in active \/ End(w) <= wm \/ End(w) <= maxDel
      BY <1>2, <1>7, <2>2, <2>3, <2>5 DEF Arrived
    <3>2. QED
      BY <1>6, <1>8, <2>2, <2>3, <3>1
  <2>6. QED
    BY <2>4, <2>5
<1>12. CASE ~Boot /\ ~Drain /\ ~ConsumeData /\ ~ConsumeWmb
  <2>1. m \notin ToCome
    BY <1>2, <1>4, <1>5, <1>12
  <2>2. up /\ ~shutting
    <3>1. shutting' = shutting
      BY <1>2, <1>3, <1>4 DEF Stays, HandleError
    <3>2. QED
      BY <1>2, <1>3, <1>4, <1>12, <3>1 DEF Stays
  <2>3. w \in active \/ End(w) <= wm \/ End(w) <= maxDel
    BY <1>2, <1>7, <2>1, <2>2 DEF Arrived
  <2>4. CASE GcWindow
    <3>1. active' = active /\ wm' = wm /\ (maxDel' = maxDel \/ maxDel' = Larger(maxDel, End(closing.w)))
      BY <2>4 DEF GcWindow
    <3>2. closing # None
      BY <2>4 DEF GcWindow
    <3>3. End(closing.w) \in Int
      BY <3>2, ClosingType, Constants DEF End
    <3>4. QED
      BY <1>6, <1>8, <2>3, <3>1, <3>3 DEF Larger
  <2>5. CASE ~GcWindow
    <3>1. UNCHANGED <<active, wm, maxDel>>
      BY <1>4, <1>12, <2>5, WindowsFrame
    <3>2. QED
      BY <2>3, <3>1
  <2>6. QED
    BY <2>4, <2>5
<1>13. QED
  BY <1>9, <1>10, <1>11, <1>12

\* Who was sent a message.
LEMMA SentIs ==
    \A w, m : m \in Sent(w) <=> \/ w \in DOMAIN stream /\ m \in Range(stream[w].ms)
                                \/ \E i \in DOMAIN aq : aq[i].w = w /\ aq[i].op # "close" /\ aq[i].m = m
BY DEF Sent

\* After a step.
LEMMA SentWillBe ==
    \A w, m : m \in Sent(w)' <=> \/ w \in DOMAIN stream' /\ m \in Range(stream'[w].ms)
                                 \/ \E i \in DOMAIN aq' : aq'[i].w = w /\ aq'[i].op # "close" /\ aq'[i].m = m
BY DEF Sent, Range

\* The next item is sent to the windows that it is put into.
LEMMA SentFeed ==
    ASSUME Types, NEW m, NEW C, NEW N, NEW cls, NEW msgs, Feed(m, C, N, cls, msgs)
    PROVE  /\ \A w : Sent(w)' = IF w \in N THEN Sent(w) \cup {m} ELSE Sent(w)
           /\ \A w : Healthy(w)' <=> Healthy(w)
           /\ \A w : CloseComes(w)' <=> CloseComes(w) \/ w \in C
<1>1. stream' = stream
  BY DEF Feed
<1>2. /\ \A i \in DOMAIN aq : i \in DOMAIN aq' /\ aq'[i] = aq[i]
      /\ \A w \in C : \E i \in DOMAIN aq' : aq'[i].op = "close" /\ aq'[i].w = w
      /\ \A w \in N : \E i \in DOMAIN aq' : aq'[i].op # "close" /\ aq'[i].w = w /\ aq'[i].m = m
      /\ \A i \in DOMAIN aq' :
            \/ i \in DOMAIN aq /\ aq'[i] = aq[i]
            \/ i \notin DOMAIN aq /\ aq'[i].op = "close" /\ aq'[i].w \in C
            \/ i \notin DOMAIN aq /\ aq'[i].op # "close" /\ aq'[i].w \in N /\ aq'[i].m = m
  BY FeedQueue
<1>3. ASSUME NEW w, NEW k PROVE k \in Sent(w)' <=> k \in Sent(w) \/ (w \in N /\ k = m)
  <2>1. ASSUME k \in Sent(w)' PROVE k \in Sent(w) \/ (w \in N /\ k = m)
    BY <1>1, <1>2, <2>1, SentIs, SentWillBe
  <2>2. ASSUME k \in Sent(w) PROVE k \in Sent(w)'
    BY <1>1, <1>2, <2>2, SentIs, SentWillBe
  <2>3. ASSUME w \in N, k = m PROVE k \in Sent(w)'
    BY <1>2, <2>3, SentWillBe
  <2>4. QED
    BY <2>1, <2>2, <2>3
<1>4. ASSUME NEW w PROVE Sent(w)' = IF w \in N THEN Sent(w) \cup {m} ELSE Sent(w)
  <2>1. CASE w \in N
    <3>1. \A k : k \in Sent(w)' <=> k \in Sent(w) \cup {m}
      BY <1>3, <2>1
    <3>2. QED
      BY <2>1, <3>1
  <2>2. CASE w \notin N
    <3>1. \A k : k \in Sent(w)' <=> k \in Sent(w)
      BY <1>3, <2>2
    <3>2. Sent(w)' = Sent(w)
      BY <3>1
    <3>3. QED
      BY <2>2, <3>2
  <2>3. QED
    BY <2>1, <2>2
<1>5. \A w : Healthy(w)' <=> Healthy(w)
  BY <1>1 DEF Healthy
<1>6. \A w : CloseComes(w)' <=> CloseComes(w) \/ w \in C
  <2> TAKE w
  <2>1. ASSUME CloseComes(w)' PROVE CloseComes(w) \/ w \in C
    BY <1>2, <2>1 DEF CloseComes
  <2>2. ASSUME CloseComes(w) \/ w \in C PROVE CloseComes(w)'
    BY <1>2, <2>2 DEF CloseComes
  <2>3. QED
    BY <2>1, <2>2
<1>7. QED
  BY <1>4, <1>5, <1>6

\* The streams after a message was taken.
LEMMA StreamsAfter ==
    ASSUME Types, Actor, ActorNext
    PROVE  /\ \A w : w # Head(aq).w =>
                 (w \in DOMAIN stream' <=> w \in DOMAIN stream) /\ (w \in DOMAIN stream => stream'[w] = stream[w])
           /\ Head(aq).op # "close" /\ Head(aq).w \notin DOMAIN stream =>
                 /\ stream'[Head(aq).w].ms = <<Head(aq).m>>
                 /\ Head(aq).w \in DOMAIN stream'
           /\ Head(aq).op # "close" /\ Head(aq).w \in DOMAIN stream =>
                 /\ Head(aq).op = "append" /\ Head(aq).w \in DOMAIN stream'
                 /\ stream'[Head(aq).w].st = stream[Head(aq).w].st
                 /\ stream'[Head(aq).w].ms = IF stream[Head(aq).w].st = "run"
                                             THEN Append(stream[Head(aq).w].ms, Head(aq).m)
                                             ELSE stream[Head(aq).w].ms
<1>1. aq # <<>> /\ aq' = Tail(aq)
  BY ActorSteps
<1>2. PICK a : a = Head(aq)
  OBVIOUS
<1>3. a \in WindowOp /\ a.op \in {"open", "append", "close"}
  <2>1. a \in WindowOp
    BY <1>1, <1>2, SeqTail DEF Types
  <2>2. QED
    BY <2>1 DEF WindowOp
<1>4. a.op = "open" => a.w \notin DOMAIN stream
  <2>1. PICK n \in Nat : n >= 1 /\ Head(aq) = aq[1] /\ 1 \in 1..n /\ Popped(Tail(aq), n)
    BY <1>1, PopFacts
  <2>2. 1 \in DOMAIN aq /\ aq[1] = a
    BY <1>2, <2>1 DEF Popped
  <2>3. QED
    BY <2>2 DEF Actor
<1>5. \A w \in DOMAIN stream : stream[w] \in TaskState
  BY DEF Types
<1>6. CASE ActorOpen
  <2>1. /\ stream' = With(stream, a.w, [st |-> IF hard THEN "dead" ELSE "run", ms |-> <<a.m>>])
        /\ a.op # "close" /\ a.w \notin DOMAIN stream
    BY <1>2, <1>4, <1>6 DEF ActorOpen, Opened
  <2>2. stream'[a.w] = [st |-> IF hard THEN "dead" ELSE "run", ms |-> <<a.m>>]
        /\ DOMAIN stream' = DOMAIN stream \cup {a.w}
        /\ \A w \in DOMAIN stream : w # a.w => stream'[w] = stream[w]
    BY <2>1 DEF With
  <2>3. QED
    BY <1>2, <2>1, <2>2
<1>7. CASE ActorAppend
  <2>1. /\ a.op = "append" /\ a.w \in DOMAIN stream
        /\ stream' = IF stream[a.w].st = "run" THEN [stream EXCEPT ![a.w].ms = Append(@, a.m)] ELSE stream
    BY <1>2, <1>7 DEF ActorAppend
  <2>2. CASE stream[a.w].st = "run"
    <3>1. DOMAIN stream' = DOMAIN stream /\ \A w \in DOMAIN stream : w # a.w => stream'[w] = stream[w]
      BY <2>1, <2>2
    <3>2. stream'[a.w] = [stream[a.w] EXCEPT !.ms = Append(@, a.m)]
      BY <2>1, <2>2
    <3>3. stream'[a.w].st = stream[a.w].st /\ stream'[a.w].ms = Append(stream[a.w].ms, a.m)
      BY <1>5, <2>1, <3>2 DEF TaskState
    <3>4. QED
      BY <1>2, <2>1, <2>2, <3>1, <3>3
  <2>3. CASE stream[a.w].st # "run"
    BY <1>2, <2>1, <2>3
  <2>4. QED
    BY <2>2, <2>3
<1>8. CASE ActorClose
  <2>1. /\ a.op = "close"
        /\ IF a.w \in DOMAIN stream THEN stream' = Without(stream, a.w) ELSE stream' = stream
    BY <1>2, <1>8 DEF ActorClose
  <2>2. \A w : w # a.w => (w \in DOMAIN stream' <=> w \in DOMAIN stream)
                          /\ (w \in DOMAIN stream => stream'[w] = stream[w])
    BY <2>1 DEF Without
  <2>3. QED
    BY <1>2, <2>1, <2>2
<1>9. QED
  BY <1>6, <1>7, <1>8 DEF ActorNext

\* The message k for the task of w is to come.
Comes(w, k) == \E i \in DOMAIN aq : aq[i].w = w /\ aq[i].op # "close" /\ aq[i].m = k

\* What the actor takes is the first of what was to come.
LEMMA QueuePop ==
    ASSUME Types, aq # <<>>, aq' = Tail(aq)
    PROVE  /\ \A w, k : Comes(w, k) <=> \/ Comes(w, k)'
                                        \/ Head(aq).op # "close" /\ w = Head(aq).w /\ k = Head(aq).m
           /\ QueueInTurn => QueueInTurn'
           /\ QueueInTurn /\ Head(aq).op # "close" =>
                 \A i \in DOMAIN aq' : aq'[i].w = Head(aq).w /\ aq'[i].op # "close" => Head(aq).m < aq'[i].m
           /\ \A i \in DOMAIN aq' : \E j \in DOMAIN aq : aq'[i] = aq[j]
           /\ \E i \in DOMAIN aq : Head(aq) = aq[i]
<1>1. PICK n \in Nat : n >= 1 /\ Head(aq) = aq[1] /\ 1 \in 1..n /\ Popped(Tail(aq), n)
  BY PopFacts
<1>2. PICK q : q = aq' /\ q = Tail(aq)
  OBVIOUS
<1>3. /\ DOMAIN aq = 1..n /\ DOMAIN q = 1..(n - 1)
      /\ \A i \in 1..(n - 1) : q[i] = aq[i + 1] /\ i + 1 \in 1..n /\ 1 < i + 1
      /\ \A i \in 1..n : i = 1 \/ \E j \in 1..(n - 1) : i = j + 1
  BY <1>1, <1>2 DEF Popped
<1>4. PICK a : a = aq[1] /\ a = Head(aq)
  BY <1>1
<1>5. /\ \A w, k : Comes(w, k) <=> \E i \in 1..n : aq[i].w = w /\ aq[i].op # "close" /\ aq[i].m = k
      /\ \A w, k : Comes(w, k)' <=> \E i \in 1..(n - 1) : q[i].w = w /\ q[i].op # "close" /\ q[i].m = k
  BY <1>2, <1>3 DEF Comes
<1>6. ASSUME NEW w, NEW k PROVE Comes(w, k) <=> Comes(w, k)' \/ (a.op # "close" /\ w = a.w /\ k = a.m)
  <2>1. ASSUME Comes(w, k)' PROVE Comes(w, k)
    BY <1>3, <1>5, <2>1
  <2>2. ASSUME a.op # "close", w = a.w, k = a.m PROVE Comes(w, k)
    BY <1>1, <1>4, <1>5, <2>2
  <2>3. ASSUME Comes(w, k) PROVE Comes(w, k)' \/ (a.op # "close" /\ w = a.w /\ k = a.m)
    <3>1. PICK i \in 1..n : aq[i].w = w /\ aq[i].op # "close" /\ aq[i].m = k
      BY <1>5, <2>3
    <3>2. CASE i = 1
      BY <1>4, <3>1, <3>2
    <3>3. CASE i # 1
      <4>1. PICK j \in 1..(n - 1) : i = j + 1
        BY <1>3, <3>3
      <4>2. q[j] = aq[i]
        BY <1>3, <4>1
      <4>3. QED
        BY <1>5, <3>1, <4>2
    <3>4. QED
      BY <3>2, <3>3
  <2>4. QED
    BY <2>1, <2>2, <2>3
<1>7. ASSUME QueueInTurn PROVE QueueInTurn'
  <2>1. SUFFICES ASSUME NEW i \in 1..(n - 1), NEW j \in 1..(n - 1), i < j, q[i].w = q[j].w,
                        q[i].op # "close", q[j].op # "close"
                 PROVE  q[i].m < q[j].m
    BY <1>2, <1>3 DEF QueueInTurn
  <2>2. PICK x \in 1..n, y \in 1..n : x < y /\ q[i] = aq[x] /\ q[j] = aq[y]
    <3>1. i + 1 < j + 1 /\ i + 1 \in 1..n /\ j + 1 \in 1..n /\ q[i] = aq[i + 1] /\ q[j] = aq[j + 1]
      BY <1>3, <2>1
    <3>2. QED
      BY <3>1
  <2>3. x \in DOMAIN aq /\ y \in DOMAIN aq
    BY <1>3
  <2>4. QED
    BY <1>7, <2>1, <2>2, <2>3 DEF QueueInTurn
<1>8. ASSUME QueueInTurn, a.op # "close", NEW i \in 1..(n - 1), q[i].w = a.w, q[i].op # "close"
      PROVE  a.m < q[i].m
  <2>1. q[i] = aq[i + 1] /\ i + 1 \in 1..n /\ 1 < i + 1 /\ 1 \in 1..n
    BY <1>1, <1>3
  <2>2. QED
    BY <1>3, <1>4, <1>8, <2>1 DEF QueueInTurn
<1>9. \A i \in 1..(n - 1) : \E j \in 1..n : q[i] = aq[j]
  BY <1>3
<1>10. QED
  BY <1>1, <1>2, <1>3, <1>4, <1>6, <1>7, <1>8, <1>9

\* What was sent, in terms of Comes.
LEMMA SentComes ==
    /\ \A w, k : k \in Sent(w) <=> (w \in DOMAIN stream /\ k \in Range(stream[w].ms)) \/ Comes(w, k)
    /\ \A w, k : k \in Sent(w)' <=> (w \in DOMAIN stream' /\ k \in Range(stream'[w].ms)) \/ Comes(w, k)'
BY SentIs, SentWillBe DEF Comes

\* A task that runs takes what it was sent.
LEMMA SentActor ==
    ASSUME Types, Actor, ActorNext
    PROVE  /\ \A w : Sent(w)' \subseteq Sent(w)
           /\ \A w : Healthy(w)' /\ ~(Head(aq).op = "close" /\ w = Head(aq).w)
                         => Healthy(w) /\ Sent(w)' = Sent(w)
           /\ \A w : CloseComes(w)' => CloseComes(w) /\ ~(Head(aq).op = "close" /\ w = Head(aq).w)
<1>1. aq # <<>> /\ aq' = Tail(aq)
  BY ActorSteps
<1>2. PICK a : a = Head(aq)
  OBVIOUS
<1>3. \A w, k : Comes(w, k) <=> Comes(w, k)' \/ (a.op # "close" /\ w = a.w /\ k = a.m)
  BY <1>1, <1>2, QueuePop
<1>4. a \in WindowOp /\ a.m \in Nat
  <2>1. a \in WindowOp
    BY <1>1, <1>2, SeqTail DEF Types
  <2>2. QED
    BY <2>1 DEF WindowOp
<1>5. /\ \A w : w # a.w =>
            (w \in DOMAIN stream' <=> w \in DOMAIN stream) /\ (w \in DOMAIN stream => stream'[w] = stream[w])
      /\ a.op # "close" /\ a.w \notin DOMAIN stream =>
            /\ stream'[a.w].ms = <<a.m>>
            /\ a.w \in DOMAIN stream'
      /\ a.op # "close" /\ a.w \in DOMAIN stream =>
            /\ a.op = "append" /\ a.w \in DOMAIN stream'
            /\ stream'[a.w].st = stream[a.w].st
            /\ stream'[a.w].ms = IF stream[a.w].st = "run" THEN Append(stream[a.w].ms, a.m)
                                 ELSE stream[a.w].ms
  BY <1>2, StreamsAfter
<1>6. ASSUME NEW w, w # a.w PROVE Sent(w)' = Sent(w) /\ (Healthy(w)' <=> Healthy(w))
  <2>1. \A k : k \in Sent(w)' <=> k \in Sent(w)
    BY <1>3, <1>5, <1>6, SentComes
  <2>2. Healthy(w)' <=> Healthy(w)
    BY <1>5, <1>6 DEF Healthy
  <2>3. Sent(w)' = Sent(w)
    BY <2>1
  <2>4. QED
    BY <2>2, <2>3
<1>7. CASE a.op = "close"
  <2>1. Sent(a.w)' \subseteq Sent(a.w)
    <3>1. \A k : Comes(a.w, k)' => Comes(a.w, k)
      BY <1>3
    <3>2. a.w \notin DOMAIN stream'
      BY <1>2, <1>7, ActorSteps
    <3>3. QED
      BY <3>1, <3>2, SentComes
  <2>2. \A w : CloseComes(w)' => CloseComes(w) /\ w # a.w
    <3>1. /\ \A w : CloseComes(w)' => CloseComes(w)
          /\ \A i \in DOMAIN aq' : aq'[i].w # a.w
      BY <1>1, <1>2, <1>7, PopComes
    <3>2. QED
      BY <3>1 DEF CloseComes
  <2>3. QED
    BY <1>2, <1>6, <1>7, <2>1, <2>2
<1>8. CASE a.op # "close"
  <2>1. \A w : CloseComes(w)' => CloseComes(w)
    BY <1>1, PopComes
  <2>2. Sent(a.w)' \subseteq Sent(a.w) /\ (Healthy(a.w)' => Healthy(a.w) /\ Sent(a.w)' = Sent(a.w))
    <3>1. CASE a.w \notin DOMAIN stream
      <4>1. Range(<<a.m>>) = {a.m}
        BY DEF Range
      <4>2. \A k : k \in Sent(a.w)' <=> k \in Sent(a.w)
        BY <1>3, <1>5, <1>8, <3>1, <4>1, SentComes
      <4>3. Healthy(a.w)
        BY <3>1 DEF Healthy
      <4>4. Sent(a.w)' = Sent(a.w)
        BY <4>2
      <4>5. QED
        BY <4>3, <4>4
    <3>2. CASE a.w \in DOMAIN stream /\ stream[a.w].st = "run"
      <4>1. stream[a.w].ms \in Seq(Nat)
        BY <3>2 DEF Types, TaskState
      <4>2. Range(Append(stream[a.w].ms, a.m)) = Range(stream[a.w].ms) \cup {a.m}
        BY <1>4, <4>1, RangeAppend
      <4>3. \A k : k \in Sent(a.w)' <=> k \in Sent(a.w)
        BY <1>3, <1>5, <1>8, <3>2, <4>2, SentComes
      <4>4. Healthy(a.w)
        BY <3>2 DEF Healthy
      <4>5. Sent(a.w)' = Sent(a.w)
        BY <4>3
      <4>6. QED
        BY <4>4, <4>5
    <3>3. CASE a.w \in DOMAIN stream /\ stream[a.w].st # "run"
      <4>1. \A k : k \in Sent(a.w)' => k \in Sent(a.w)
        BY <1>3, <1>5, <1>8, <3>3, SentComes
      <4>2. PICK v : v = a.w
        OBVIOUS
      <4>3. v \in DOMAIN stream' /\ stream'[v].st # "run"
        BY <1>5, <1>8, <3>3, <4>2
      <4>4. ~Healthy(v)'
        BY <4>3 DEF Healthy
      <4>5. QED
        BY <4>1, <4>2, <4>4
    <3>4. QED
      BY <3>1, <3>2, <3>3
  <2>3. ASSUME NEW w PROVE /\ Sent(w)' \subseteq Sent(w)
                           /\ Healthy(w)' => Healthy(w) /\ Sent(w)' = Sent(w)
    <3>1. CASE w = a.w
      BY <2>2, <3>1
    <3>2. CASE w # a.w
      BY <1>6, <3>2
    <3>3. QED
      BY <3>1, <3>2
  <2>4. QED
    BY <1>2, <1>8, <2>1, <2>3
<1>9. QED
  BY <1>7, <1>8

\* The other steps send nothing.
LEMMA SentElse ==
    ASSUME Types, [Next]_vars, ~ConsumeData, ~ConsumeWmb, ~ActorNext, ~Exit, ~Kill, ~Boot
    PROVE  /\ aq' = aq /\ DOMAIN stream' = DOMAIN stream
           /\ \A w \in DOMAIN stream : stream'[w].ms = stream[w].ms
           /\ \A w : Sent(w)' = Sent(w)
           /\ \A w : Healthy(w)' => Healthy(w)
           /\ \A w : CloseComes(w)' <=> CloseComes(w)
           /\ closing' # None /\ closing'.st \in {"udf", "some"} =>
                 closing # None /\ closing.st \in {"udf", "some"} /\ closing'.w = closing.w /\ closing'.ms = closing.ms
<1>1. \A w \in DOMAIN stream : stream[w] \in TaskState
  BY DEF Types
<1>2. /\ aq' = aq /\ DOMAIN stream' = DOMAIN stream
      /\ \A w \in DOMAIN stream : stream'[w].ms = stream[w].ms /\ (stream'[w].st = "run" => stream[w].st = "run")
  <2>1. CASE TaskNext
    <3>1. aq' = aq /\ stream' = stream
      BY <2>1 DEF TaskNext, CloseCancelled, Respond, WriteResults, GcWindow
    <3>2. QED
      BY <3>1
  <2>2. CASE FaultNext
    <3>1. CASE \E w \in DOMAIN stream : TaskFails(w)
      <4>1. PICK w \in DOMAIN stream : TaskFails(w)
        BY <3>1
      <4>2. stream' = [stream EXCEPT ![w].st = "failed"] /\ aq' = aq
        BY <4>1 DEF TaskFails
      <4>3. DOMAIN stream' = DOMAIN stream
        BY <4>2
      <4>4. \A v \in DOMAIN stream : stream'[v].ms = stream[v].ms
                                     /\ (stream'[v].st = "failed" \/ stream'[v] = stream[v])
        BY <1>1, <4>2 DEF TaskState
      <4>5. QED
        BY <4>2, <4>3, <4>4
    <3>2. CASE CloseFails \/ GiveUpWrite \/ Cancel
      <4>1. aq' = aq /\ stream' = stream
        BY <3>2 DEF CloseFails, GiveUpWrite, Cancel
      <4>2. QED
        BY <4>1
    <3>3. QED
      BY <2>2, <3>1, <3>2 DEF FaultNext
  <2>3. CASE HardShutdown
    <3>1. aq' = aq /\ stream' = [w \in DOMAIN stream |->
                     IF stream[w].st = "run" THEN [stream[w] EXCEPT !.st = "dead"] ELSE stream[w]]
      BY <2>3 DEF HardShutdown
    <3>2. DOMAIN stream' = DOMAIN stream
      BY <3>1
    <3>3. \A w \in DOMAIN stream : stream'[w].ms = stream[w].ms /\ stream'[w].st # "run"
      BY <1>1, <3>1 DEF TaskState
    <3>4. QED
      BY <3>1, <3>2, <3>3
  <2>4. CASE ~TaskNext /\ ~FaultNext /\ ~HardShutdown
    <3>1. aq' = aq /\ stream' = stream
      BY <2>4, ActorFrame
    <3>2. QED
      BY <3>1
  <2>5. QED
    BY <2>1, <2>2, <2>3, <2>4
<1>3. closing' # None /\ closing'.st \in {"udf", "some"} =>
                 closing # None /\ closing.st \in {"udf", "some"} /\ closing'.w = closing.w /\ closing'.ms = closing.ms
  <2>1. CASE TaskNext \/ FaultNext \/ HardShutdown
    <3>1. CASE CloseCancelled \/ GcWindow \/ CloseFails
      BY <3>1 DEF CloseCancelled, GcWindow, CloseFails
    <3>2. CASE Respond
      <4>1. closing # None /\ closing.st = "udf" /\ closing' = [closing EXCEPT !.st = "some"]
        BY <3>2 DEF Respond
      <4>2. closing'.w = closing.w /\ closing'.ms = closing.ms
        BY <4>1, ClosingType DEF Closing
      <4>3. QED
        BY <4>1, <4>2
    <3>3. CASE WriteResults \/ GiveUpWrite
      <4>1. closing # None /\ closing' = [closing EXCEPT !.st = "written"]
        BY <3>3 DEF WriteResults, GiveUpWrite
      <4>2. closing'.st = "written"
        BY <4>1, ClosingType DEF Closing
      <4>3. QED
        BY <4>2
    <3>4. CASE Cancel \/ HardShutdown \/ \E w \in DOMAIN stream : TaskFails(w)
      BY <3>4 DEF Cancel, HardShutdown, TaskFails
    <3>5. QED
      BY <2>1, <3>1, <3>2, <3>3, <3>4 DEF TaskNext, FaultNext
  <2>2. CASE ~TaskNext /\ ~FaultNext /\ ~HardShutdown
    BY <2>2, ActorFrame
  <2>3. QED
    BY <2>1, <2>2
<1>4. ASSUME NEW w PROVE Sent(w)' = Sent(w)
  <2>1. \A k : k \in Sent(w)' <=> k \in Sent(w)
    BY <1>2, SentIs, SentWillBe
  <2>2. QED
    BY <2>1
<1>5. \A w : Healthy(w)' => Healthy(w)
  BY <1>2 DEF Healthy
<1>6. \A w : CloseComes(w)' <=> CloseComes(w)
  BY <1>2 DEF CloseComes
<1>7. QED
  BY <1>2, <1>3, <1>4, <1>5, <1>6

\* The messages of a window change when one is read, unless the window is closed.
LEMMA FullStays ==
    ASSUME Types, Stopped, Order, Windows, [Next]_vars, ~Exit, ~Kill
    PROVE  /\ ~Read => \A w : Full(w)' = Full(w)
           /\ Read => \A w : Full(w) \subseteq Full(w)' /\ Full(w)' \subseteq Full(w) \cup {nread + 1}
           /\ \A w \in closed : Full(w)' = Full(w)
<1>1. /\ \A m : X(m)' = X(m) /\ WindowsOf(m)' = WindowsOf(m) /\ Accept(m)' = Accept(m)
      /\ input' = input
  BY InputStays, Rigid
<1>2. Stays
  BY StaysNext
<1>3. gcEnd' = gcEnd /\ gone' = gone /\ (~Read => nread' = nread)
  BY <1>2 DEF Stays
<1>4. \A w, m : m \in Full(w) <=> m \in 1..nread /\ m \notin gone /\ Accept(m) /\ input[m].et >= gcEnd /\ w \in WindowsOf(m)
  BY DEF Full, Logged
<1>5. \A w, m : m \in Full(w)' <=> m \in 1..nread' /\ m \notin gone /\ Accept(m) /\ input[m].et >= gcEnd /\ w \in WindowsOf(m)
  <2>1. \A w, m : m \in Full(w)' <=> m \in 1..nread' /\ m \notin gone' /\ Accept(m)' /\ input'[m].et >= gcEnd' /\ w \in WindowsOf(m)'
    BY DEF Full, Logged
  <2>2. QED
    BY <1>1, <1>3, <2>1
<1>6. ASSUME ~Read, NEW w PROVE Full(w)' = Full(w)
  <2>1. \A m : m \in Full(w)' <=> m \in Full(w)
    BY <1>3, <1>4, <1>5, <1>6
  <2>2. QED
    BY <2>1
<1>7. ASSUME Read
      PROVE  /\ \A w : Full(w) \subseteq Full(w)' /\ Full(w)' \subseteq Full(w) \cup {nread + 1}
             /\ \A w \in closed : Full(w)' = Full(w)
  <2>1. nread' = nread + 1 /\ nread \in Nat /\ nread + 1 \in Unread /\ nread + 1 \in 1..Len(input)
    BY <1>7, ToComeNext, ItemRange
  <2>2. \A m : m \in 1..nread' <=> m \in 1..nread \/ m = nread + 1
    BY <2>1
  <2>3. \A w : Full(w) \subseteq Full(w)' /\ Full(w)' \subseteq Full(w) \cup {nread + 1}
    BY <1>4, <1>5, <2>2
  <2>4. ASSUME NEW w \in closed PROVE Full(w)' = Full(w)
    <3>1. End(w) <= wm /\ wm <= X(nread + 1)
      BY <2>1 DEF Windows, Order
    <3>2. nread + 1 \notin Full(w)'
      <4>1. SUFFICES ASSUME w \in WindowsOf(nread + 1), Accept(nread + 1) PROVE FALSE
        BY <1>5
      <4>2. X(nread + 1) < End(w) /\ X(nread + 1) \in Int /\ End(w) \in Int /\ wm \in Int
        BY <2>1, <4>1, WindowEnds DEF Types
      <4>3. QED
        BY <3>1, <4>2
    <3>3. QED
      BY <2>3, <3>2
  <2>5. QED
    BY <2>3, <2>4
<1>8. QED
  BY <1>6, <1>7

\* Of the messages of a window that the next item closes, none is to come.
LEMMA NoneToCome ==
    ASSUME Types, Order, NEW m, NEW C, NEW N, NEW cls, NEW msgs, Feed(m, C, N, cls, msgs),
           NEW w \in C
    PROVE  Full(w) \cap ToCome = {}
<1>1. SUFFICES ASSUME NEW t \in Full(w), t \in ToCome PROVE FALSE
  OBVIOUS
<1>2. t \in 1..nread /\ Accept(t) /\ w \in WindowsOf(t)
  BY <1>1 DEF Full, Logged
<1>3. t \in 1..Len(input) /\ input \in Inputs
  BY <1>2, ItemRange
<1>4. X(t) < End(w) /\ X(t) \in Int /\ End(w) \in Int
  BY <1>2, <1>3, WindowEnds
<1>5. End(w) <= X(m)
  BY DEF Feed
<1>6. m \in 1..Len(input) /\ X(m) \in Int /\ (t = m \/ m < t)
  BY <1>1, FeedFacts
<1>7. X(m) <= X(t)
  <2>1. m <= t /\ m \in Int /\ t \in Int
    BY <1>3, <1>6
  <2>2. QED
    BY <1>3, <1>6, <2>1, ItemRange
<1>8. QED
  BY <1>4, <1>5, <1>6, <1>7

\* A window that an item is put into first has got nothing, and there was nothing for it.
LEMMA NothingBefore ==
    ASSUME Types, Stopped, Order, Windows, Actor, Arrived,
           NEW m, NEW C, NEW N, NEW cls, NEW msgs, Feed(m, C, N, cls, msgs),
           NEW w \in N, w \notin active \ C
    PROVE  Sent(w) = {} /\ Full(w) \subseteq ToCome
<1>1. /\ m \in 1..Len(input) /\ X(m) \in Int /\ wm <= X(m) /\ X(m) < End(w) /\ N \in SUBSET Int
  BY FeedFacts
<1>2. w \in Int /\ End(w) \in Int /\ wm \in Int /\ maxDel \in Int /\ Length \in Nat
  BY <1>1, Constants DEF Types, End
<1>3. w \notin active /\ w \notin closed
  <2>1. \A c \in C : c < w
    BY DEF Feed
  <2>2. w \notin C
    BY <1>2, <2>1
  <2>3. w \notin closed
    BY ClosedOlder
  <2>4. QED
    BY <2>2, <2>3
<1>4. w \notin DOMAIN stream /\ ~CloseComes(w)
  BY <1>3 DEF Actor, CloseComes
<1>5. \A i \in DOMAIN aq : aq[i].op # "close" => aq[i].w # w
  BY <1>3, <1>4 DEF Actor
<1>6. Sent(w) = {}
  <2>1. \A k : k \notin Sent(w)
    BY <1>4, <1>5, SentIs
  <2>2. QED
    BY <2>1
<1>7. ~(End(w) <= maxDel)
  <2>1. Creatable(w) /\ w \in WindowsOf(m)
    BY DEF Feed
  <2>2. End(w) > 0
    BY <1>1, <2>1, WindowEnds
  <2>3. kind \in {"fixed", "sliding"}
    BY Constants DEF Types
  <2>4. CASE kind = "fixed"
    BY <1>2, <2>2, <2>4 DEF Stopped
  <2>5. CASE kind = "sliding"
    BY <1>2, <2>1, <2>5 DEF Creatable
  <2>6. QED
    BY <2>3, <2>4, <2>5
<1>8. Full(w) \subseteq ToCome
  <2>1. SUFFICES ASSUME NEW k \in Full(w), k \notin ToCome PROVE FALSE
    OBVIOUS
  <2>2. k \in 1..nread /\ Logged(k) /\ w \in WindowsOf(k)
    BY <2>1 DEF Full
  <2>3. up /\ ~shutting
    BY DEF Feed
  <2>4. w \in active \/ End(w) <= wm \/ End(w) <= maxDel
    BY <2>1, <2>2, <2>3 DEF Arrived
  <2>5. QED
    BY <1>1, <1>2, <1>3, <1>7, <2>4
<1>9. QED
  BY <1>6, <1>8

\* An open window has got what has come: the next item.
LEMMA OpenHasFeed ==
    ASSUME Types, Stopped, Order, Windows, Actor, Behind, Arrived, OpenHas,
           NEW m, NEW C, NEW N, NEW cls, NEW msgs, Feed(m, C, N, cls, msgs),
           \A w : Full(w)' = Full(w)
    PROVE  OpenHas'
<1>1. /\ \A w : Sent(w)' = IF w \in N THEN Sent(w) \cup {m} ELSE Sent(w)
      /\ \A w : Healthy(w)' <=> Healthy(w)
  BY SentFeed
<1>2. /\ m \in 1..nread /\ m \in 1..Len(input) /\ m \in ToCome /\ ToCome' = ToCome \ {m}
  BY FeedFacts
<1>3. /\ ~shutting /\ active' = (active \ C) \cup N /\ N \in SUBSET WindowsOf(m) /\ (N # {} => Accept(m))
      /\ Accept(m) => \A w \in WindowsOf(m) : w \in N \/ w \notin active \ C
  BY DEF Feed
<1>4. \A w : m \in Full(w) <=> Accept(m) /\ w \in WindowsOf(m)
  <2>1. Accept(m) => Logged(m)
    BY <1>2 DEF Behind, Logged
  <2>2. QED
    BY <1>2, <2>1 DEF Full, Logged
<1>5. SUFFICES ASSUME NEW w \in active', Healthy(w) PROVE Sent(w)' = Full(w) \ ToCome'
  BY <1>1 DEF OpenHas
<1>6. CASE w \in active \ C
  <2>1. Sent(w) = Full(w) \ ToCome
    BY <1>3, <1>5, <1>6 DEF OpenHas
  <2>2. m \in Full(w) <=> w \in N
    BY <1>3, <1>4, <1>6
  <2>3. QED
    BY <1>1, <1>2, <2>1, <2>2
<1>7. CASE w \notin active \ C
  <2>1. w \in N
    BY <1>3, <1>5, <1>7
  <2>2. Sent(w) = {} /\ Full(w) \subseteq ToCome
    BY <1>7, <2>1, NothingBefore
  <2>3. m \in Full(w)
    BY <1>3, <1>4, <2>1
  <2>4. QED
    BY <1>1, <1>2, <2>1, <2>2, <2>3
<1>8. QED
  BY <1>6, <1>7

\* An open window has got what has come.
LEMMA OpenHasNext ==
    Types /\ Stopped /\ Order /\ Windows /\ Actor /\ Behind /\ Arrived /\ OpenHas /\ [Next]_vars => OpenHas'
<1> SUFFICES ASSUME Types, Stopped, Order, Windows, Actor, Behind, Arrived, OpenHas, [Next]_vars
             PROVE  OpenHas'
  OBVIOUS
<1>1. CASE Exit \/ Kill
  BY <1>1 DEF Exit, Kill, Down, OpenHas
<1>2. CASE Boot
  <2>1. ToCome' = {i \in (1..nread) \ gone : input[i].et >= gcEnd}
    BY <1>2, ToComeNext
  <2>2. aq' = <<>> /\ stream' = <<>> /\ UNCHANGED <<input, nread, gone, gcEnd>>
    BY <1>2 DEF Boot, Stopped
  <2>3. \A w : Sent(w)' = {}
    <3>1. \A w, k : k \notin Sent(w)'
      BY <2>2, SentWillBe
    <3>2. QED
      BY <3>1
  <2>4. \A w : Full(w)' \subseteq ToCome'
    BY <2>1, <2>2 DEF Full, Logged
  <2>5. QED
    BY <2>3, <2>4 DEF OpenHas
<1>3. CASE ~Exit /\ ~Kill /\ ~Boot /\ (ConsumeData \/ ConsumeWmb)
  <2>1. PICK m, C, N, cls, msgs : Feed(m, C, N, cls, msgs)
    BY <1>3, ConsumeFeeds DEF Feeds
  <2>2. ~Read
    BY <1>3 DEF ConsumeData, ConsumeWmb, Read
  <2>3. \A w : Full(w)' = Full(w)
    BY <1>3, <2>2, FullStays
  <2>4. QED
    BY <2>1, <2>3, OpenHasFeed
<1>4. CASE ~Exit /\ ~Kill /\ ~Boot /\ ActorNext
  <2>1. /\ aq # <<>> /\ aq' = Tail(aq) /\ UNCHANGED <<replay, chan, shutting, active, nread>>
    BY <1>4, ActorSteps
  <2>2. ToCome' = ToCome
    BY <2>1 DEF ToCome
  <2>3. ~Read
    BY <2>1, ItemRange DEF Read
  <2>4. \A w : Full(w)' = Full(w)
    BY <1>4, <2>3, FullStays
  <2>5. SUFFICES ASSUME ~shutting, NEW w \in active, Healthy(w)' PROVE Sent(w)' = Full(w) \ ToCome
    BY <2>1, <2>2, <2>4 DEF OpenHas
  <2>6. ~(Head(aq).op = "close" /\ w = Head(aq).w)
    <3>1. SUFFICES ASSUME Head(aq).op = "close", w = Head(aq).w PROVE FALSE
      OBVIOUS
    <3>2. w \in closed /\ w \in Int
      BY <2>1, <3>1, PopComes
    <3>3. w < w
      BY <2>5, <3>2 DEF Windows
    <3>4. QED
      BY <3>2, <3>3
  <2>7. Healthy(w) /\ Sent(w)' = Sent(w)
    BY <1>4, <2>5, <2>6, SentActor
  <2>8. QED
    BY <2>5, <2>7 DEF OpenHas
<1>5. CASE ~Exit /\ ~Kill /\ ~Boot /\ ~ConsumeData /\ ~ConsumeWmb /\ ~ActorNext
  <2>1. /\ \A w : Sent(w)' = Sent(w)
        /\ \A w : Healthy(w)' => Healthy(w)
    BY <1>5, SentElse
  <2>2. SUFFICES ASSUME ~shutting', NEW w \in active', Healthy(w)' PROVE Sent(w)' = Full(w)' \ ToCome'
    BY DEF OpenHas
  <2>3. shutting' = shutting
    <3>1. Stays
      BY StaysNext
    <3>2. QED
      BY <1>5, <2>2, <3>1 DEF Stays, HandleError
  <2>4. active' = active
    <3>1. CASE GcWindow
      BY <3>1 DEF GcWindow
    <3>2. CASE ~GcWindow
      BY <1>5, <3>2, WindowsFrame
    <3>3. QED
      BY <3>1, <3>2
  <2>5. Sent(w) = Full(w) \ ToCome
    BY <2>1, <2>2, <2>3, <2>4 DEF OpenHas
  <2>6. Full(w)' \ ToCome' = Full(w) \ ToCome
    <3>1. CASE Read
      <4>1. ToCome' = ToCome \cup {nread + 1} /\ nread \in Nat
        BY <3>1, ToComeNext, ItemRange
      <4>2. Full(w) \subseteq Full(w)' /\ Full(w)' \subseteq Full(w) \cup {nread + 1}
        BY <1>5, <3>1, FullStays
      <4>3. nread + 1 \notin Full(w)
        BY <4>1 DEF Full
      <4>4. QED
        BY <4>1, <4>2, <4>3
    <3>2. CASE ~Read
      <4>1. Full(w)' = Full(w)
        BY <1>5, <3>2, FullStays
      <4>2. ~Drain
        BY <2>2, <2>3 DEF Drain
      <4>3. ToCome' = ToCome
        BY <1>5, <3>2, <4>2, ToComeNext
      <4>4. QED
        BY <4>1, <4>3
    <3>3. QED
      BY <3>1, <3>2
  <2>7. QED
    BY <2>1, <2>5, <2>6
<1>6. QED
  BY <1>1, <1>2, <1>3, <1>4, <1>5

\* A window that is to be closed has got all of its messages.
LEMMA CloseHasNext ==
    Types /\ Stopped /\ Order /\ Windows /\ Actor /\ OpenHas /\ CloseHas /\ [Next]_vars => CloseHas'
<1> SUFFICES ASSUME Types, Stopped, Order, Windows, Actor, OpenHas, CloseHas, [Next]_vars
             PROVE  CloseHas'
  OBVIOUS
<1>1. SUFFICES ASSUME NEW w \in Int, CloseComes(w)', Healthy(w)' PROVE Sent(w)' = Full(w)'
  BY DEF CloseHas
<1>2. ~Exit /\ ~Kill /\ ~Boot
  <2>1. Exit \/ Kill \/ Boot => aq' = <<>>
    BY DEF Exit, Kill, Down, Boot, Stopped
  <2>2. QED
    BY <1>1, <2>1 DEF CloseComes
<1>3. CloseComes(w) => w \in closed
  BY DEF Actor, CloseComes
<1>4. CASE ConsumeData \/ ConsumeWmb
  <2>1. PICK m, C, N, cls, msgs : Feed(m, C, N, cls, msgs)
    BY <1>4, ConsumeFeeds DEF Feeds
  <2>2. ~Read
    BY <1>4 DEF ConsumeData, ConsumeWmb, Read
  <2>3. Full(w)' = Full(w)
    BY <1>2, <2>2, FullStays
  <2>4. /\ Sent(w)' = IF w \in N THEN Sent(w) \cup {m} ELSE Sent(w)
        /\ Healthy(w)
        /\ CloseComes(w) \/ w \in C
    BY <1>1, <2>1, SentFeed
  <2>5. CASE CloseComes(w)
    <3>1. w \notin N
      BY <1>3, <2>1, <2>5, ClosedOlder
    <3>2. QED
      BY <1>1, <2>3, <2>4, <2>5, <3>1 DEF CloseHas
  <2>6. CASE w \in C
    <3>1. w \in active /\ ~shutting /\ \A v \in N : w < v
      BY <2>1, <2>6 DEF Feed
    <3>2. w \notin N
      BY <3>1
    <3>3. Sent(w) = Full(w) \ ToCome
      BY <2>4, <3>1 DEF OpenHas
    <3>4. Full(w) \cap ToCome = {}
      BY <2>1, <2>6, NoneToCome
    <3>5. QED
      BY <2>3, <2>4, <3>2, <3>3, <3>4
  <2>7. QED
    BY <2>4, <2>5, <2>6
<1>5. CASE ActorNext
  <2>1. CloseComes(w) /\ ~(Head(aq).op = "close" /\ w = Head(aq).w)
    BY <1>1, <1>5, SentActor
  <2>2. Healthy(w) /\ Sent(w)' = Sent(w)
    BY <1>1, <1>5, <2>1, SentActor
  <2>3. Full(w)' = Full(w)
    BY <1>2, <1>3, <2>1, FullStays
  <2>4. QED
    BY <2>1, <2>2, <2>3 DEF CloseHas
<1>6. CASE ~ConsumeData /\ ~ConsumeWmb /\ ~ActorNext
  <2>1. Sent(w)' = Sent(w) /\ Healthy(w) /\ CloseComes(w)
    BY <1>1, <1>2, <1>6, SentElse
  <2>2. Full(w)' = Full(w)
    BY <1>2, <1>3, <2>1, FullStays
  <2>3. QED
    BY <2>1, <2>2 DEF CloseHas
<1>7. QED
  BY <1>4, <1>5, <1>6

\* So has the task that the actor waits for.
LEMMA TaskHasNext ==
    Types /\ Stopped /\ Order /\ Windows /\ Actor /\ CloseHas /\ StreamInTurn /\ TaskHas /\ [Next]_vars
        => TaskHas'
<1> SUFFICES ASSUME Types, Stopped, Order, Windows, Actor, CloseHas, StreamInTurn, TaskHas, [Next]_vars,
                    closing' # None, closing'.st \in {"udf", "some"}
             PROVE  Increasing(closing'.ms) /\ closing'.ms # <<>> /\ Range(closing'.ms) = Full(closing.w)'
  BY DEF TaskHas, Increasing, Range
<1>1. [Next]_vars
  OBVIOUS
<1>2. ~Exit /\ ~Kill /\ ~Boot
  BY DEF Exit, Kill, Down, Boot, Stopped
<1>3. CASE ActorNext
  <2>1. PICK a : a = Head(aq)
    OBVIOUS
  <2>2. /\ a.op = "close" /\ a.w \in DOMAIN stream /\ stream[a.w].st = "run"
        /\ closing' = [w |-> a.w, ms |-> stream[a.w].ms, st |-> "udf"]
        /\ aq # <<>> /\ aq' = Tail(aq)
    BY <1>3, <2>1, ActorSteps
  <2>3. closing'.w = a.w /\ closing'.ms = stream[a.w].ms
    BY <2>2
  <2>4. Increasing(stream[a.w].ms) /\ stream[a.w].ms # <<>>
    BY <2>2 DEF StreamInTurn
  <2>5. /\ CloseComes(a.w) /\ a.w \in closed /\ ~DataComes(a.w) /\ a.w \in Int
    BY <2>1, <2>2, PopComes
  <2>6. Healthy(a.w)
    BY <2>2 DEF Healthy
  <2>7. Sent(a.w) = Full(a.w)
    BY <2>5, <2>6 DEF CloseHas
  <2>8. Sent(a.w) = Range(stream[a.w].ms)
    <3>1. \A k : k \in Sent(a.w) <=> k \in Range(stream[a.w].ms)
      BY <2>2, <2>5, SentIs DEF DataComes
    <3>2. QED
      BY <3>1
  <2>9. \A w \in closed : Full(w)' = Full(w)
    BY <1>2, FullStays
  <2>10. PICK v : v = a.w
    OBVIOUS
  <2>11. Full(v)' = Full(v)
    BY <2>5, <2>9, <2>10
  <2>12. Full(closing.w)' = Full(v)'
    BY <2>3, <2>10 DEF Full
  <2>13. QED
    BY <2>3, <2>4, <2>7, <2>8, <2>10, <2>11, <2>12
<1>4. CASE ~ActorNext
  <2>1. closing # None /\ closing.st \in {"udf", "some"} /\ closing'.w = closing.w /\ closing'.ms = closing.ms
    <3>1. CASE ConsumeData \/ ConsumeWmb
      BY <3>1 DEF ConsumeData, ConsumeWmb
    <3>2. CASE ~ConsumeData /\ ~ConsumeWmb
      BY <1>2, <1>4, <3>2, SentElse
    <3>3. QED
      BY <3>1, <3>2
  <2>2. PICK v : v = closing.w
    OBVIOUS
  <2>3. v \in closed
    BY <2>1, <2>2 DEF Actor
  <2>4. Full(v)' = Full(v)
    BY <1>2, <2>3, FullStays
  <2>5. Full(closing.w)' = Full(v)'
    BY <2>1, <2>2 DEF Full
  <2>6. QED
    BY <2>1, <2>2, <2>4, <2>5 DEF TaskHas
<1>5. QED
  BY <1>3, <1>4

\* The fields of the actor's messages.
LEMMA MsgType ==
    ASSUME Types
    PROVE  \A i \in DOMAIN aq : aq[i].w \in Int /\ aq[i].m \in Nat
<1>1. aq \in Seq(WindowOp)
  BY DEF Types
<1>2. \A i \in DOMAIN aq : aq[i] \in WindowOp
  BY <1>1
<1>3. QED
  BY <1>2 DEF WindowOp

\* What was sent was read before what is to come.
LEMMA SentEarlierNext ==
    Types /\ Stopped /\ Order /\ Actor /\ SentEarlier /\ [Next]_vars => SentEarlier'
<1> SUFFICES ASSUME Types, Stopped, Order, Actor, SentEarlier, [Next]_vars,
                    NEW w \in Int, NEW k \in Sent(w)'
             PROVE  k \in 1..nread' /\ \A t \in ToCome' : k < t
  BY DEF SentEarlier
<1>1. [Next]_vars
  OBVIOUS
<1>2. /\ nread \in Nat /\ ToCome \subseteq 1..nread
  BY ItemRange
<1>3. k \in Sent(w) => k \in 1..nread /\ \A t \in ToCome : k < t
  BY DEF SentEarlier
<1>4. CASE Exit \/ Kill \/ Boot
  <2>1. aq' = <<>> /\ stream' = <<>>
    BY <1>4 DEF Exit, Kill, Down, Boot, Stopped
  <2>2. QED
    BY <2>1, SentWillBe
<1>5. CASE ConsumeData \/ ConsumeWmb
  <2>1. PICK m, C, N, cls, msgs : Feed(m, C, N, cls, msgs)
    BY <1>5, ConsumeFeeds DEF Feeds
  <2>2. k \in Sent(w) \/ k = m
    BY <2>1, SentFeed
  <2>3. m \in 1..nread /\ nread' = nread /\ ToCome' = ToCome \ {m} /\ \A t \in ToCome' : m < t
    BY <2>1, FeedFacts
  <2>4. QED
    BY <1>3, <2>2, <2>3
<1>6. CASE ~Exit /\ ~Kill /\ ~Boot /\ ~ConsumeData /\ ~ConsumeWmb
  <2>1. k \in Sent(w)
    <3>1. CASE ActorNext
      BY <3>1, SentActor
    <3>2. CASE ~ActorNext
      BY <1>6, <3>2, SentElse
    <3>3. QED
      BY <3>1, <3>2
  <2>2. CASE Read
    <3>1. ToCome' = ToCome \cup {nread + 1} /\ nread' = nread + 1
      BY <2>2, ToComeNext
    <3>2. k \in 1..nread /\ k < nread + 1 /\ k \in 1..(nread + 1)
      BY <1>2, <1>3, <2>1
    <3>3. QED
      BY <1>3, <2>1, <3>1, <3>2
  <2>3. CASE ~Read
    <3>1. ToCome' \subseteq ToCome /\ nread' = nread
      <4>1. Stays
        BY StaysNext
      <4>2. QED
        BY <1>6, <2>3, <4>1, ToComeNext DEF Stays
    <3>2. QED
      BY <1>3, <2>1, <3>1
  <2>4. QED
    BY <2>2, <2>3
<1>7. QED
  BY <1>4, <1>5, <1>6

\* The actor's messages of a window are in the order they were read.
LEMMA QueueInTurnNext ==
    Types /\ Stopped /\ Order /\ Actor /\ SentEarlier /\ QueueInTurn /\ [Next]_vars => QueueInTurn'
<1> SUFFICES ASSUME Types, Stopped, Order, Actor, SentEarlier, QueueInTurn, [Next]_vars
             PROVE  QueueInTurn'
  OBVIOUS
<1>1. CASE Exit \/ Kill \/ Boot
  <2>1. aq' = <<>>
    BY <1>1 DEF Exit, Kill, Down, Boot, Stopped
  <2>2. QED
    BY <2>1 DEF QueueInTurn
<1>2. CASE ConsumeData \/ ConsumeWmb
  <2>1. PICK m, C, N, cls, msgs : Feed(m, C, N, cls, msgs)
    BY <1>2, ConsumeFeeds DEF Feeds
  <2>2. PICK q : q = aq'
    OBVIOUS
  <2>3. SUFFICES ASSUME NEW i \in DOMAIN q, NEW j \in DOMAIN q,
                        i < j, q[i].w = q[j].w, q[i].op # "close", q[j].op # "close"
                 PROVE  q[i].m < q[j].m
    BY <2>2 DEF QueueInTurn
  <2>4. i \in DOMAIN aq /\ q[i] = aq[i]
    BY <2>1, <2>2, <2>3, FeedQueue
  <2>5. \/ j \in DOMAIN aq /\ q[j] = aq[j]
        \/ q[j].m = m
    BY <2>1, <2>2, <2>3, FeedQueue
  <2>6. CASE j \in DOMAIN aq /\ q[j] = aq[j]
    BY <2>3, <2>4, <2>6 DEF QueueInTurn
  <2>7. CASE q[j].m = m
    <3>1. aq[i].m \in Sent(aq[i].w)
      BY <2>3, <2>4, SentIs
    <3>2. m \in ToCome
      BY <2>1, FeedFacts
    <3>3. aq[i].w \in Int
      BY <2>4, MsgType
    <3>4. aq[i].m < m
      BY <3>1, <3>2, <3>3 DEF SentEarlier
    <3>5. QED
      BY <2>4, <2>7, <3>4
  <2>8. QED
    BY <2>5, <2>6, <2>7
<1>3. CASE ActorNext
  <2>1. aq # <<>> /\ aq' = Tail(aq)
    BY <1>3, ActorSteps
  <2>2. QED
    BY <2>1, QueuePop
<1>4. CASE ~Exit /\ ~Kill /\ ~Boot /\ ~ConsumeData /\ ~ConsumeWmb /\ ~ActorNext
  <2>1. aq' = aq
    BY <1>4, SentElse
  <2>2. QED
    BY <2>1 DEF QueueInTurn
<1>5. QED
  BY <1>1, <1>2, <1>3, <1>4

\* What a task has got was read before what the actor will send it.
StreamOk(q, f, w) ==
    /\ Increasing(f[w].ms) /\ f[w].ms # <<>>
    /\ \A i \in DOMAIN q : q[i].w = w /\ q[i].op # "close" => \A k \in Range(f[w].ms) : k < q[i].m

\* A task gets its messages in the order they were read.
LEMMA StreamInTurnNext ==
    Types /\ Stopped /\ Order /\ Actor /\ SentEarlier /\ QueueInTurn /\ StreamInTurn /\ [Next]_vars
        => StreamInTurn'
<1> SUFFICES ASSUME Types, Stopped, Order, Actor, SentEarlier, QueueInTurn, StreamInTurn, [Next]_vars
             PROVE  StreamInTurn'
  OBVIOUS
<1>1. PICK q, f : q = aq' /\ f = stream'
  OBVIOUS
<1>2. SUFFICES ASSUME NEW w \in DOMAIN f PROVE StreamOk(q, f, w)
  BY <1>1 DEF StreamInTurn, StreamOk, Increasing, Range
<1>3. w \in DOMAIN stream => StreamOk(aq, stream, w)
  BY DEF StreamInTurn, StreamOk
<1>4. \A v \in DOMAIN stream : v \in Int /\ stream[v].ms \in Seq(Nat)
  BY DEF Types, TaskState
<1>5. CASE Exit \/ Kill \/ Boot
  <2>1. f = <<>>
    BY <1>1, <1>5 DEF Exit, Kill, Down, Boot, Stopped
  <2>2. QED
    BY <1>2, <2>1
<1>6. CASE ConsumeData \/ ConsumeWmb
  <2>1. PICK m, C, N, cls, msgs : Feed(m, C, N, cls, msgs)
    BY <1>6, ConsumeFeeds DEF Feeds
  <2>2. f = stream
    BY <1>1, <2>1 DEF Feed
  <2>3. \A i \in DOMAIN q : q[i].op # "close" => (i \in DOMAIN aq /\ q[i] = aq[i]) \/ q[i].m = m
    BY <1>1, <2>1, FeedQueue
  <2>4. \A k \in Range(stream[w].ms) : k < m
    <3>1. w \in DOMAIN stream /\ w \in Int /\ m \in ToCome
      BY <1>2, <1>4, <2>1, <2>2, FeedFacts
    <3>2. \A k \in Range(stream[w].ms) : k \in Sent(w)
      BY <3>1, SentIs
    <3>3. QED
      BY <3>1, <3>2 DEF SentEarlier
  <2>5. StreamOk(aq, stream, w)
    BY <1>2, <1>3, <2>2
  <2>6. QED
    BY <2>2, <2>3, <2>4, <2>5 DEF StreamOk
<1>7. CASE ActorNext
  <2>1. aq # <<>> /\ aq' = Tail(aq)
    BY <1>7, ActorSteps
  <2>2. PICK a : a = Head(aq)
    OBVIOUS
  <2>3. /\ a.op # "close" => \A i \in DOMAIN q : q[i].w = a.w /\ q[i].op # "close" => a.m < q[i].m
        /\ \A i \in DOMAIN q : \E j \in DOMAIN aq : q[i] = aq[j]
        /\ \E i \in DOMAIN aq : a = aq[i]
    BY <1>1, <2>1, <2>2, QueuePop
  <2>4. a.m \in Nat
    BY <2>3, MsgType
  <2>5. /\ w # a.w => w \in DOMAIN stream /\ f[w] = stream[w]
        /\ a.op # "close" /\ a.w \notin DOMAIN stream => f[a.w].ms = <<a.m>>
        /\ a.op # "close" /\ a.w \in DOMAIN stream =>
              f[a.w].ms = IF stream[a.w].st = "run" THEN Append(stream[a.w].ms, a.m) ELSE stream[a.w].ms
        /\ a.op = "close" => w # a.w
    <3>1. a.op = "close" => a.w \notin DOMAIN f
      BY <1>1, <1>7, <2>2, ActorSteps
    <3>2. QED
      BY <1>1, <1>2, <1>7, <2>2, <3>1, StreamsAfter
  <2>6. CASE w # a.w
    BY <1>3, <2>3, <2>5, <2>6 DEF StreamOk
  <2>7. CASE w = a.w /\ a.w \notin DOMAIN stream
    <3>1. f[w].ms = <<a.m>> /\ a.op # "close"
      BY <2>5, <2>7
    <3>2. Increasing(<<a.m>>) /\ <<a.m>> # <<>> /\ Range(<<a.m>>) = {a.m}
      BY DEF Increasing, Range
    <3>3. QED
      BY <2>3, <2>7, <3>1, <3>2 DEF StreamOk
  <2>8. CASE w = a.w /\ a.w \in DOMAIN stream
    <3>1. a.op # "close" /\ stream[w].ms \in Seq(Nat)
      BY <1>4, <2>5, <2>8
    <3>2. StreamOk(aq, stream, w)
      BY <1>3, <2>8
    <3>3. \A i \in DOMAIN q : q[i].w = w /\ q[i].op # "close" => \A k \in Range(stream[w].ms) : k < q[i].m
      BY <2>3, <3>2 DEF StreamOk
    <3>4. CASE stream[w].st # "run"
      <4>1. f[w].ms = stream[w].ms
        BY <2>5, <2>8, <3>1, <3>4
      <4>2. QED
        BY <3>2, <3>3, <4>1 DEF StreamOk
    <3>5. CASE stream[w].st = "run"
      <4>1. f[w].ms = Append(stream[w].ms, a.m)
        BY <2>5, <2>8, <3>1, <3>5
      <4>2. \A k \in Range(stream[w].ms) : k < a.m
        BY <2>3, <2>8, <3>1, <3>2 DEF StreamOk
      <4>3. Increasing(Append(stream[w].ms, a.m))
        <5>1. stream[w].ms \in Seq(Int)
          BY <3>1, SeqOfMore
        <5>2. QED
          BY <2>4, <3>2, <4>2, <5>1, IncreasingAppend DEF StreamOk
      <4>4. Range(Append(stream[w].ms, a.m)) = Range(stream[w].ms) \cup {a.m}
        BY <2>4, <3>1, RangeAppend
      <4>5. Append(stream[w].ms, a.m) # <<>>
        BY <2>4, <3>1
      <4>6. \A i \in DOMAIN q : q[i].w = w /\ q[i].op # "close" => a.m < q[i].m
        BY <2>3, <2>8, <3>1
      <4>7. QED
        BY <3>3, <4>1, <4>3, <4>4, <4>5, <4>6 DEF StreamOk
    <3>6. QED
      BY <3>4, <3>5
  <2>9. QED
    BY <2>6, <2>7, <2>8
<1>8. CASE ~Exit /\ ~Kill /\ ~Boot /\ ~ConsumeData /\ ~ConsumeWmb /\ ~ActorNext
  <2>1. q = aq /\ DOMAIN f = DOMAIN stream /\ \A v \in DOMAIN stream : f[v].ms = stream[v].ms
    BY <1>1, <1>8, SentElse
  <2>2. QED
    BY <1>2, <1>3, <2>1 DEF StreamOk
<1>9. QED
  BY <1>5, <1>6, <1>7, <1>8

\* What a task was sent: in order, and nothing is missing.
LEMMA ContentNext ==
    Types /\ Stopped /\ Order /\ Windows /\ Actor /\ Behind /\ Arrived /\ Content /\ [Next]_vars => Content'
BY OpenHasNext, CloseHasNext, TaskHasNext, SentEarlierNext, QueueInTurnNext, StreamInTurnNext DEF Content

(***************************************************************************)
(* What the results contain.                                               *)
(***************************************************************************)

\* A response for a window that is not finished has all messages of the window.
LEMMA RespondWhole ==
    ASSUME Types, Order, Windows, Actor, Accepted, Fixed, Collected, TaskHas, Respond,
           closing.w \notin finished, ~lost
    PROVE  Whole(closing.w, closing.ms)
<1>1. PICK w : w = closing.w
  OBVIOUS
<1>2. up /\ closing # None /\ closing.st = "udf"
  BY DEF Respond
<1>3. w \in closed /\ w \in Int /\ closing.ms \in Seq(Nat)
  BY <1>1, <1>2, ClosingType DEF Actor, Closing
<1>4. Increasing(closing.ms) /\ closing.ms # <<>> /\ Range(closing.ms) = Full(w)
  BY <1>1, <1>2 DEF TaskHas
<1>5. /\ nread \in Nat /\ Len(input) \in Nat /\ 1..nread \subseteq 1..Len(input) /\ wm \in Int /\ gcEnd \in Nat
      /\ accepted \subseteq 1..nread
  BY ItemRange DEF Types
<1>6. End(w) <= wm /\ End(w) \in Int
  BY <1>3, Constants DEF Windows, End
<1>7. ASSUME NEW m \in 1..Len(input), Accept(m), w \in WindowsOf(m)
      PROVE  X(m) < wm /\ X(m) \in Int /\ m \in 1..nread /\ m \notin ToCome /\ ~(wm <= X(m))
  <2>1. X(m) < End(w) /\ X(m) \in Int
    BY <1>7, WindowEnds
  <2>2. X(m) < wm /\ ~(wm <= X(m))
    BY <1>5, <1>6, <2>1
  <2>3. m \notin ToCome /\ m \notin Unread
    BY <2>2 DEF Order
  <2>4. m \in 1..nread
    BY <1>5, <1>7, <2>3 DEF Unread
  <2>5. QED
    BY <2>1, <2>2, <2>3, <2>4
<1>8. ASSUME NEW m \in 1..Len(input), Accept(m), w \in WindowsOf(m), m \notin gone PROVE m \in accepted
  <2>1. m \in 1..nread /\ m \notin ToCome /\ ~(wm <= X(m))
    BY <1>7, <1>8
  <2>2. CASE Logged(m)
    BY <1>2, <2>1, <2>2 DEF Accepted
  <2>3. CASE ~Logged(m)
    <3>1. input[m].et < gcEnd
      <4>1. input[m].et \in Nat
        BY <1>8, WindowEnds
      <4>2. QED
        BY <1>5, <1>8, <2>1, <2>3, <4>1 DEF Logged
    <3>2. QED
      BY <1>8, <2>1, <3>1 DEF Accepted, GcEvents
  <2>4. QED
    BY <2>2, <2>3
<1>9. ASSUME NEW m \in accepted, w \in WindowsOf(m), m \notin gone PROVE m \in Full(w)
  <2>1. m \in 1..nread /\ m \in 1..Len(input) /\ Accept(m)
    BY <1>5, <1>9 DEF Accepted
  <2>2. w <= input[m].et /\ input[m].et \in Nat
    BY <1>9, <2>1, WindowEnds
  <2>3. SUFFICES ASSUME input[m].et < gcEnd PROVE FALSE
    BY <1>5, <1>9, <2>1, <2>2 DEF Full, Logged
  <2>4. kind \in {"fixed", "sliding"}
    BY Constants DEF Types
  <2>5. CASE kind = "sliding"
    <3>1. Deletable(m)
      BY <1>9, <2>3, <2>5 DEF Collected, Excepted, GcEvents
    <3>2. QED
      BY <1>1, <1>9, <3>1 DEF Deletable
  <2>6. CASE kind = "fixed"
    <3>1. Aligned(w) /\ Aligned(gcEnd)
      BY <1>3, <2>6 DEF Fixed, GcEvents
    <3>2. w < gcEnd
      BY <1>3, <1>5, <2>2, <2>3
    <3>3. End(w) <= gcEnd
      BY <3>1, <3>2, AlignedApart
    <3>4. PICK k : k \in Full(w)
      <4>1. 1 \in 1..Len(closing.ms)
        BY <1>3, <1>4
      <4>2. closing.ms[1] \in Range(closing.ms)
        BY <1>3, <4>1, SeqRange
      <4>3. QED
        BY <1>4, <4>2
    <3>5. k \in 1..nread /\ w \in WindowsOf(k) /\ input[k].et >= gcEnd
      BY <3>4 DEF Full, Logged
    <3>6. input[k].et < End(w) /\ input[k].et \in Nat
      BY <1>5, <3>5, WindowEnds
    <3>7. QED
      BY <1>5, <1>6, <3>3, <3>5, <3>6
  <2>7. QED
    BY <2>4, <2>5, <2>6
<1>10. Full(w) \subseteq MessagesOf(w) /\ MessagesOf(w) \ gone \subseteq Full(w)
  <2>1. \A m \in Full(w) : m \in 1..nread /\ m \notin gone /\ Accept(m) /\ w \in WindowsOf(m)
    BY DEF Full, Logged
  <2>2. \A m \in Full(w) : m \in accepted /\ w \in WindowsOf(m)
    BY <1>5, <1>8, <2>1
  <2>3. QED
    BY <1>9, <2>2 DEF MessagesOf
<1>11. QED
  BY <1>1, <1>4, <1>8, <1>10 DEF Whole

\* A result has all that was and will be accepted for its window and is still in the WAL.
LEMMA ResultedNext ==
    Types /\ Order /\ Windows /\ Actor /\ Accepted /\ Fixed /\ Collected /\ TaskHas /\ Resulted
        /\ [Next]_vars => Resulted'
<1> SUFFICES ASSUME Types, Order, Windows, Actor, Accepted, Fixed, Collected, TaskHas, Resulted,
                    [Next]_vars
             PROVE  Resulted'
  OBVIOUS
<1>1. /\ \A m : Accept(m)' = Accept(m) /\ WindowsOf(m)' = WindowsOf(m)
      /\ input' = input
  BY InputStays, Rigid
<1>2. PICK A, G, R : A = accepted' /\ G = gone' /\ R = results'
  OBVIOUS
<1>3. SUFFICES ASSUME ~lost', NEW r \in R
               PROVE  /\ Increasing(r.ms)
                      /\ \A m \in Range(r.ms) : m \in A /\ r.w \in WindowsOf(m)
                      /\ \A m \in A : r.w \in WindowsOf(m) /\ m \notin G => m \in Range(r.ms)
                      /\ \A m \in 1..Len(input) : Accept(m) /\ r.w \in WindowsOf(m) => m \in A \/ m \in G
  BY <1>1, <1>2 DEF Resulted, Whole, MessagesOf, Increasing, Range
<1>4. Stays
  BY StaysNext
<1>5. ~lost
  <2>1. CASE GiveUpWrite
    BY <1>3, <2>1 DEF GiveUpWrite
  <2>2. CASE ~GiveUpWrite
    BY <1>3, <1>4, <2>2 DEF Stays
  <2>3. QED
    BY <2>1, <2>2
<1>6. Whole(r.w, r.ms)
  <2>1. CASE Respond /\ closing.w \notin finished
    <3>1. R = results \cup {[w |-> closing.w, ms |-> closing.ms]}
      BY <1>2, <2>1 DEF Respond
    <3>2. CASE r \in results
      BY <1>5, <3>2 DEF Resulted
    <3>3. CASE r = [w |-> closing.w, ms |-> closing.ms]
      <4>1. r.w = closing.w /\ r.ms = closing.ms
        BY <3>3
      <4>2. Whole(closing.w, closing.ms)
        BY <1>5, <2>1, RespondWhole
      <4>3. QED
        BY <4>1, <4>2
    <3>4. QED
      BY <1>3, <3>1, <3>2, <3>3
  <2>2. CASE ~(Respond /\ closing.w \notin finished)
    <3>1. R = results
      BY <1>2, <1>4, <2>2 DEF Stays, Respond
    <3>2. QED
      BY <1>3, <1>5, <3>1 DEF Resulted
  <2>3. QED
    BY <2>1, <2>2
<1>7. A = accepted \/ \E k \in 1..Len(input) : Accept(k) /\ A = accepted \cup {k}
  <2>1. CASE ConsumeData \/ ConsumeWmb
    <3>1. PICK m, C, N, cls, msgs : Feed(m, C, N, cls, msgs)
      BY <2>1, ConsumeFeeds DEF Feeds
    <3>2. A = (IF Accept(m) THEN accepted \cup {m} ELSE accepted)
      BY <1>2, <3>1 DEF Feed
    <3>3. m \in 1..Len(input)
      BY <3>1, FeedFacts
    <3>4. QED
      BY <3>2, <3>3
  <2>2. CASE GcWindow \/ Exit \/ Kill \/ Boot
    BY <1>2, <2>2 DEF GcWindow, Exit, Kill, Boot
  <2>3. CASE ~ConsumeData /\ ~ConsumeWmb /\ ~GcWindow /\ ~Exit /\ ~Kill /\ ~Boot
    BY <1>2, <2>3, WindowsFrame
  <2>4. QED
    BY <2>1, <2>2, <2>3
<1>8. gone \subseteq G
  BY <1>2, LoggedStays
<1>9. accepted \subseteq A /\ \A m \in A : r.w \in WindowsOf(m) => m \in accepted \/ m \in gone
  BY <1>6, <1>7 DEF Whole
<1>10. QED
  BY <1>6, <1>8, <1>9 DEF Whole, MessagesOf

(***************************************************************************)
(* The inductive invariant.                                                *)
(***************************************************************************)

IInv ==
    /\ Types /\ Stopped /\ Order /\ Windows /\ Actor /\ Behind
    /\ ResultType /\ Once /\ Cover /\ Published
    /\ Accepted /\ Fixed /\ Collected
    /\ Arrived /\ Content /\ Resulted

\* Nothing is read, sent, written or published at the start.
LEMMA InitInv == Init => IInv
<1> SUFFICES ASSUME Init PROVE IInv
  OBVIOUS
<1>1. Types
  BY TypesInit
<1>2. /\ up /\ nread = 0 /\ replay = <<>> /\ chan = <<>> /\ wm = -1 /\ active = {} /\ closed = {}
      /\ maxDel = -1 /\ saved = {} /\ aq = <<>> /\ stream = <<>> /\ closing = None
      /\ gcq = <<>> /\ gcEnd = 0 /\ fetched = -1 /\ pub = -1
      /\ results = {} /\ finished = {} /\ again = {} /\ accepted = {} /\ gone = {}
  BY DEF Init, NoFile
<1>3. /\ DOMAIN stream = {} /\ DOMAIN aq = {} /\ DOMAIN chan = {} /\ DOMAIN replay = {}
      /\ 1..nread = {}
  BY <1>2
<1>4. ToCome = {} /\ GcEvents = {0} /\ Range(gcq) = {}
  BY <1>2 DEF ToCome, GcEvents, Range
<1>5. \A i \in Unread : X(i) \in Int /\ X(i) >= -1
  BY <1>1, ItemRange
<1>6. Stopped /\ Windows /\ Actor
  BY <1>2, <1>3 DEF Stopped, Windows, Actor, NoFile
<1>7. Order
  BY <1>2, <1>3, <1>4, <1>5 DEF Order, Increasing, Range
<1>8. Behind
  BY <1>4 DEF Behind
<1>9. ResultType /\ Once /\ Cover /\ Published
  BY <1>2, <1>3 DEF ResultType, Once, Cover, Published
<1>10. Accepted /\ Collected /\ Arrived
  BY <1>2, <1>3 DEF Accepted, Collected, Arrived
<1>11. Fixed
  <2>1. Aligned(0)
    <3>1. 0 \in Int /\ 0 = 0 * Length
      BY Constants
    <3>2. QED
      BY <3>1 DEF Aligned
  <2>2. \A w : ~CloseComes(w)
    BY <1>3 DEF CloseComes
  <2>3. QED
    BY <1>2, <1>3, <1>4, <2>1, <2>2 DEF Fixed
<1>12. Content
  <2>1. \A w : Sent(w) = {}
    <3>1. \A w, k : k \notin Sent(w)
      BY <1>3, SentIs
    <3>2. QED
      BY <3>1
  <2>2. \A w : ~CloseComes(w)
    BY <1>3 DEF CloseComes
  <2>3. OpenHas /\ CloseHas /\ TaskHas /\ StreamInTurn /\ QueueInTurn
    BY <1>2, <1>3, <2>2 DEF OpenHas, CloseHas, TaskHas, StreamInTurn, QueueInTurn
  <2>4. SentEarlier
    BY <2>1 DEF SentEarlier
  <2>5. QED
    BY <2>3, <2>4 DEF Content
<1>13. Resulted
  BY <1>2 DEF Resulted
<1>14. QED
  BY <1>1, <1>6, <1>7, <1>8, <1>9, <1>10, <1>11, <1>12, <1>13 DEF IInv

\* Every step keeps the invariant.
LEMMA NextInv == IInv /\ [Next]_vars => IInv'
<1> SUFFICES ASSUME IInv, [Next]_vars PROVE IInv'
  OBVIOUS
<1>1. /\ Types /\ Stopped /\ Order /\ Windows /\ Actor /\ Behind
      /\ ResultType /\ Once /\ Cover /\ Published /\ Accepted /\ Fixed /\ Collected
      /\ Arrived /\ Content /\ Resulted
  BY DEF IInv
<1>2. Types' /\ Stopped' /\ Order' /\ Windows' /\ Actor' /\ Behind'
  BY <1>1, TypesNext, StoppedNext, OrderNext, WindowsNext, ActorKept, BehindNext
<1>3. ResultType' /\ Once' /\ Cover' /\ Published'
  BY <1>1, ResultTypeNext, OnceNext, CoverNext, PublishedNext
<1>4. Accepted' /\ Fixed' /\ Collected'
  BY <1>1, AcceptedNext, FixedNext, CollectedNext
<1>5. Arrived' /\ Content'
  BY <1>1, ArrivedNext, ContentNext
<1>6. Resulted'
  BY <1>1, ResultedNext DEF Content
<1>7. QED
  BY <1>2, <1>3, <1>4, <1>5, <1>6 DEF IInv

\* The invariant holds in every behaviour, for every input, window length, slide, lateness
\* and channel capacity, and for any number of failures, signals and kills.
THEOREM AlignedInvariant == Spec => []IInv
BY InitInv, NextInv, PTL DEF Spec

\* A sequence is one over every set that has its members.
LEMMA SeqWithin ==
    ASSUME NEW T, NEW S, NEW s \in Seq(T), Range(s) \subseteq S
    PROVE  s \in Seq(S)
<1>1. \A i \in 1..Len(s) : s[i] \in S
  BY SeqRange
<1>2. QED
  BY <1>1

\* A task has got messages that were read.
LEMMA TypeOKHolds == IInv => TypeOK
<1> SUFFICES ASSUME IInv PROVE TypeOK
  OBVIOUS
<1>1. Types /\ Windows /\ Actor /\ SentEarlier
  BY DEF IInv, Content
<1>2. active \cap closed = {}
  <2>1. SUFFICES ASSUME NEW w \in active, w \in closed PROVE FALSE
    OBVIOUS
  <2>2. w < w /\ w \in Int
    BY <1>1, <2>1 DEF Windows, Types
  <2>3. QED
    BY <2>2
<1>3. ASSUME NEW w \in DOMAIN stream
      PROVE  stream[w].st \in {"run", "failed", "dead"} /\ stream[w].ms \in Seq(1..nread)
  <2>1. w \in Int /\ stream[w].st \in {"run", "failed", "dead"} /\ stream[w].ms \in Seq(Nat)
    BY <1>1 DEF Types, TaskState
  <2>2. PICK s \in Seq(Nat) : s = stream[w].ms
    BY <2>1
  <2>3. \A k \in Range(s) : k \in Sent(w)
    BY <2>2, SentIs
  <2>4. Range(s) \subseteq 1..nread
    BY <1>1, <2>1, <2>3 DEF SentEarlier
  <2>5. s \in Seq(1..nread)
    BY <2>4, SeqWithin
  <2>6. QED
    BY <2>1, <2>2, <2>5
<1>4. Cardinality(saved) <= 1
  <2>1. CASE saved = NoFile
    BY <2>1, FS_EmptySet DEF NoFile
  <2>2. CASE \E s \in File : saved = {s}
    <3>1. PICK s : saved = {s}
      BY <2>2
    <3>2. Cardinality({s}) = 1
      BY FS_Singleton
    <3>3. QED
      BY <3>1, <3>2
  <2>3. QED
    BY <1>1, <2>1, <2>2 DEF Types
<1>5. /\ closing = None \/ closing.st \in {"udf", "some", "written"}
      /\ closing # None => closing.w \in closed
  BY <1>1, ClosingType DEF Actor
<1>6. /\ input \in Inputs /\ kind \in Kinds
      /\ nread \in 0..Len(input)
      /\ {replay, chan} \subseteq Seq(1..nread) /\ Len(chan) <= ChanCap
      /\ wm \in Int /\ maxDel \in Int /\ gcEnd \in Nat /\ {fetched, pub} \subseteq Int
      /\ active \subseteq Int /\ closed \subseteq Int
      /\ aq \in Seq(WindowOp) /\ gcq \in Seq(Int)
      /\ accepted \subseteq 1..nread /\ gone \subseteq 1..nread
      /\ fails \in 0..MaxFails /\ stops \in 0..MaxStops
  BY <1>1 DEF Types
<1>7. {up, err, shutting, cancel, hard, ended, killed, early, lost} \subseteq BOOLEAN
  BY <1>1 DEF Types
<1>8. QED
  BY <1>2, <1>3, <1>4, <1>5, <1>6, <1>7 DEF TypeOK

\* The state keeps its types: a window is open or closed and not both, a task holds messages
\* that were read, and the window of the task that is awaited is in closed_windows, so
\* oldest_window never fails in ReduceTask.
THEOREM AlignedTypes == Spec => []TypeOK
BY AlignedInvariant, TypeOKHolds, PTL

\* No finished window of a sliding vertex has another result after any number of graceful
\* restarts, whatever tasks failed, before a response or after it.
THEOREM AlignedNoSecondResult == Spec => []NoSecondResult
<1>1. IInv => NoSecondResult
  BY DEF IInv, Once, NoSecondResult
<1>2. QED
  BY <1>1, AlignedInvariant, PTL

\* A window that is not finished holds the published watermark below its end, across restarts.
THEOREM AlignedWatermark == Spec => []WatermarkWaitsForWindows
<1>1. IInv => WatermarkWaitsForWindows
  BY DEF IInv, Published, WatermarkWaitsForWindows
<1>2. QED
  BY <1>1, AlignedInvariant, PTL

\* The largest GC event is one of them.
LEMMA LargestGcEvent == Types => Max(GcEvents) \in GcEvents
<1> SUFFICES ASSUME Types PROVE Max(GcEvents) \in GcEvents
  OBVIOUS
<1>1. gcq \in Seq(Int) /\ Len(gcq) \in Nat
  BY DEF Types
<1>2. Range(gcq) = {gcq[j] : j \in 1..Len(gcq)}
  BY <1>1, SeqRange
<1>3. Len(gcq) \in 0..Len(gcq)
  BY <1>1
<1>4. Max(GcEvents) \in Frozen
  BY <1>2, <1>3 DEF Frozen, GcEvents
<1>5. QED
  BY <1>4, FrozenIs

\* Every message that a GC event lets go from the WAL has all of its windows finished, but for
\* those a kill has taken.
THEOREM AlignedGcContract == Spec => []GcContract
<1>1. IInv => GcContract
  BY LargestGcEvent DEF IInv, Collected, GcContract
<1>2. QED
  BY <1>1, AlignedInvariant, PTL

\* A result is the messages of its window in the order they were read.
LEMMA ResultCompleteHolds == IInv => ResultComplete
BY DEF IInv, Resulted, Whole, Increasing, ResultComplete

\* Every response for a window up to the end of the task that finishes it is reduced from all
\* messages of the window that no kill has taken from the WAL, each once and in the order
\* they were read: through out-of-order messages, tasks that fail before or after a response,
\* signals, kills and replays.  Excepted: a result was given up.
THEOREM AlignedResults == Spec => []ResultComplete
BY AlignedInvariant, ResultCompleteHolds, PTL
=============================================================================
