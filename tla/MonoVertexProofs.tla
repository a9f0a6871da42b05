------------------------- MODULE MonoVertexProofs -------------------------
(***************************************************************************)
(* Proofs about MonoVertex: the handles and the tracker agree, a message   *)
(* is acked only if it was handled, and a nack is honoured outside of the  *)
(* bypass path, for every set of messages and every set of deployments.    *)
(***************************************************************************)
EXTENDS MonoVertex, Integers, TLAPS, FiniteSetTheorems, SequenceTheorems

Statuses == {"none", "open", "ok", "failed"}
Places == {"check", "read", "admit", "transform", "dispatch", "drain", "done"}
Queues == {<<>>, <<"writer">>, <<"bypass">>, <<"writer", "bypass">>, <<"bypass", "writer">>}

TaskRec == [wait : Seq(Offsets), acks : SUBSET Offsets, nacks : SUBSET Offsets]
JobRec == [batch : SUBSET Offsets, leg : 0..6, todo : SUBSET Offsets, tries : Int,
           route : [1..6 -> SUBSET Offsets], nacked : SUBSET Offsets, bad : BOOLEAN]

\* The shapes of all variables, as TypeOK has them and in more detail: the tasks and jobs are
\* records, and only the slots of the deployment have an ack task.
Types ==
    /\ cfg \in Configs
    /\ src \in [Offsets -> {"ready", "delivered", "acked"}]
    /\ root \in BOOLEAN /\ cancelled \in BOOLEAN /\ failed \in BOOLEAN
    /\ spc \in Places
    /\ got \in Seq(Offsets) /\ out \in Seq(Offsets) /\ chan \in Seq(Offsets) /\ bchan \in Seq(Offsets)
    /\ tracker \in SUBSET Offsets
    /\ task \in [Slots -> TaskRec]
    /\ handle \in [Offsets -> Statuses]
    /\ job \in [Workers -> JobRec]
    /\ erring \in [Workers -> BOOLEAN] /\ wdone \in [Workers -> BOOLEAN]
    /\ queue \in [Actors -> Queues]
    /\ odd \in 0..MaxOdd /\ faults \in 0..MaxFaults
    /\ handled \in SUBSET Offsets /\ refused \in SUBSET Offsets /\ ignored \in SUBSET Offsets

\* No value occurs twice in a sequence.
Inj(s) == \A i, j \in DOMAIN s : s[i] = s[j] => i = j

\* A is the disjoint union of the five sets.
Splits(A, B, C, D, E, F) ==
    /\ A = B \cup C \cup D \cup E \cup F
    /\ B \cap (C \cup D \cup E \cup F) = {}
    /\ C \cap (D \cup E \cup F) = {}
    /\ D \cap (E \cup F) = {}
    /\ E \cap F = {}

Open(h) == {o \in Offsets : h[o] = "open"}

\* Where the unresolved handles are: each is in exactly one channel or batch, once.
HoldInv ==
    /\ Inj(out) /\ Inj(chan) /\ Inj(bchan)
    /\ Splits(Open(handle), ToSet(out), ToSet(chan), ToSet(bchan),
              job["writer"].batch, job["bypass"].batch)
    /\ spc \notin {"transform", "dispatch"} => out = <<>>

\* The tracker is what the ack tasks wait for; each waits for its own messages.
WaitInv ==
    /\ \A s \in Slots : Inj(task[s].wait)
    /\ \A s, t \in Slots : s # t => ToSet(task[s].wait) \cap ToSet(task[t].wait) = {}
    /\ tracker = UNION {ToSet(task[s].wait) : s \in Slots}
    /\ \A o \in Offsets : handle[o] # "none" <=> o \in tracker
    /\ \A s \in Slots : s \notin 1..Permits => task[s] = NoTask
    /\ spc = "done" => \A s \in Slots : task[s] = NoTask

\* What is known of the messages of job j of worker w when done are the handled ones and
\* those whose nack was ignored: what is not to be written by this leg or a later one, is
\* done or set aside as nacked, unless the answer was bad.
JobOK(w, j, done, ign) ==
    /\ IsFiniteSet(j.batch)
    /\ j.todo \subseteq j.batch /\ j.nacked \subseteq j.batch
    /\ \A l \in 1..6 : j.route[l] \subseteq j.batch
    /\ ~j.bad => \A o \in j.batch :
          \/ o \in done \/ o \in j.nacked \/ o \in j.todo
          \/ \E l \in 1..6 : l > j.leg /\ o \in j.route[l]
    /\ j.leg = 4 => ~j.bad
    /\ w = "bypass" => j.nacked \subseteq ign /\ \A o \in j.batch : Bypassed(o)

JobInv ==
    /\ \A w \in Workers : JobOK(w, job[w], handled \cup ignored, ignored)
    /\ \A o \in ToSet(bchan) : Bypassed(o)

\* A success mark, an ack under way and an ack at the source all mean that the message was
\* handled, or that its nack was ignored.
AckInv ==
    /\ \A o \in Offsets : handle[o] = "ok" => o \in handled \cup ignored
    /\ \A s \in Slots : task[s].acks \subseteq handled \cup ignored
    /\ \A o \in Offsets : src[o] = "acked" => o \in handled \cup ignored

\* A message that was nacked in this delivery is set aside by the writer until its batch is
\* resolved, unless it is on the bypass path.
NackOK(h, ref, set_aside) ==
    \A o \in Offsets : o \in ref /\ h[o] \in {"open", "ok"} => Bypassed(o) \/ o \in set_aside

NackInv == NackOK(handle, refused, job["writer"].nacked)

\* A worker waits at an actor exactly when its job is on a leg of that actor.
At(j, a) == j.leg # 0 /\ SinkOf(j.leg) = a
QueueInv == \A a \in Actors, w \in Workers : w \in ToSet(queue[a]) <=> At(job[w], a)

IInv == Types /\ HoldInv /\ WaitInv /\ JobInv /\ AckInv /\ NackInv /\ QueueInv

(***************************************************************************)
(* Sequences.                                                              *)
(***************************************************************************)

\* The tail of a sequence without repetitions loses exactly its head.
LEMMA TailFacts ==
    ASSUME NEW X, NEW s \in Seq(X), Inj(s), s # <<>>
    PROVE  /\ Tail(s) \in Seq(X) /\ Inj(Tail(s))
           /\ Head(s) \in X /\ Head(s) \in ToSet(s)
           /\ ToSet(Tail(s)) = ToSet(s) \ {Head(s)}
<1>1. /\ Len(s) \in Nat /\ Len(s) > 0 /\ DOMAIN s = 1..Len(s) /\ Head(s) = s[1]
      /\ Tail(s) \in Seq(X) /\ DOMAIN Tail(s) = 1..(Len(s) - 1)
      /\ \A i \in 1..(Len(s) - 1) : Tail(s)[i] = s[i + 1]
  OBVIOUS
<1>2. Inj(Tail(s))
  BY <1>1 DEF Inj
<1>3. Head(s) \in X /\ Head(s) \in ToSet(s)
  BY <1>1 DEF ToSet
<1>4. ToSet(Tail(s)) \subseteq ToSet(s) \ {Head(s)}
  BY <1>1 DEF Inj, ToSet
<1>5. ASSUME NEW i \in 1..Len(s), s[i] # Head(s)
      PROVE  s[i] \in ToSet(Tail(s))
  <2>1. i - 1 \in 1..(Len(s) - 1) /\ Tail(s)[i - 1] = s[i]
    <3>1. i \in Int /\ i > 1 /\ i <= Len(s)
      BY <1>1, <1>5
    <3>2. i - 1 \in 1..(Len(s) - 1) /\ (i - 1) + 1 = i
      BY <3>1, <1>1
    <3>3. QED
      BY <3>2, <1>1
  <2>2. QED
    BY <2>1, <1>1 DEF ToSet
<1>6. QED
  BY <1>1, <1>2, <1>3, <1>4, <1>5 DEF ToSet

\* A new value at the end keeps a sequence free of repetitions.
LEMMA AppendFacts ==
    ASSUME NEW X, NEW s \in Seq(X), NEW e \in X
    PROVE  /\ Append(s, e) \in Seq(X) /\ ToSet(Append(s, e)) = ToSet(s) \cup {e}
           /\ Inj(s) /\ e \notin ToSet(s) => Inj(Append(s, e))
<1>1. /\ Len(s) \in Nat /\ DOMAIN s = 1..Len(s)
      /\ Append(s, e) \in Seq(X) /\ DOMAIN Append(s, e) = 1..(Len(s) + 1)
      /\ \A i \in 1..Len(s) : Append(s, e)[i] = s[i]
      /\ Append(s, e)[Len(s) + 1] = e
  OBVIOUS
<1>2. QED
  BY <1>1 DEF Inj, ToSet

\* A prefix and the rest share no value.
LEMMA SplitFacts ==
    ASSUME NEW X, NEW s \in Seq(X), Inj(s), NEW n \in 0..Len(s)
    PROVE  /\ SubSeq(s, 1, n) \in Seq(X) /\ Len(SubSeq(s, 1, n)) = n
           /\ SubSeq(s, n + 1, Len(s)) \in Seq(X) /\ Inj(SubSeq(s, n + 1, Len(s)))
           /\ ToSet(s) = ToSet(SubSeq(s, 1, n)) \cup ToSet(SubSeq(s, n + 1, Len(s)))
           /\ ToSet(SubSeq(s, 1, n)) \cap ToSet(SubSeq(s, n + 1, Len(s))) = {}
<1> DEFINE a == SubSeq(s, 1, n)
           b == SubSeq(s, n + 1, Len(s))
<1>1. /\ Len(s) \in Nat /\ n \in Nat /\ n <= Len(s) /\ DOMAIN s = 1..Len(s)
      /\ \A i \in 1..Len(s) : s[i] \in X
  OBVIOUS
<1>2. a \in Seq(X) /\ Len(a) = n /\ DOMAIN a = 1..n /\ \A i \in 1..n : a[i] = s[i]
  BY <1>1, SubSeqProperties
<1>3. /\ b \in Seq(X) /\ DOMAIN b = 1..(Len(s) - n)
      /\ \A i \in 1..(Len(s) - n) : b[i] = s[i + n]
  BY <1>1, SubSeqProperties
<1>4. Inj(b)
  BY <1>1, <1>3 DEF Inj
<1>5. ToSet(a) \cap ToSet(b) = {}
  BY <1>1, <1>2, <1>3 DEF Inj, ToSet
<1>6. ToSet(a) \cup ToSet(b) \subseteq ToSet(s)
  BY <1>1, <1>2, <1>3 DEF ToSet
<1>7. ToSet(s) \subseteq ToSet(a) \cup ToSet(b)
  <2> SUFFICES ASSUME NEW i \in 1..Len(s) PROVE s[i] \in ToSet(a) \cup ToSet(b)
    BY <1>1 DEF ToSet
  <2>1. CASE i <= n
    <3>1. i \in 1..n
      BY <2>1, <1>1
    <3>2. QED
      BY <3>1, <1>2 DEF ToSet
  <2>2. CASE i > n
    <3>1. i - n \in 1..(Len(s) - n) /\ (i - n) + n = i
      BY <2>2, <1>1
    <3>3. b[i - n] = s[i]
      BY <3>1, <1>3
    <3>2. QED
      BY <3>1, <3>3, <1>3 DEF ToSet
  <2>3. QED
    BY <2>1, <2>2, <1>1
<1>8. QED
  BY <1>2, <1>3, <1>4, <1>5, <1>6, <1>7

\* A finite set put in some order.
LEMMA SetToSeqFacts ==
    ASSUME NEW X, NEW S \in SUBSET X, IsFiniteSet(S)
    PROVE  /\ SetToSeq(S) \in Seq(X) /\ Inj(SetToSeq(S)) /\ ToSet(SetToSeq(S)) = S
           /\ S = {} => SetToSeq(S) = <<>>
<1> DEFINE n == Cardinality(S)
<1>1. n \in Nat /\ ExistsBijection(1..n, S)
  BY FS_CardinalityType
<1>2. PICK g \in [1..n -> S] : g \in Bijection(1..n, S)
  BY <1>1 DEF ExistsBijection, Bijection, Injection
<1>3. IsInjective(g)
  BY <1>2 DEF Bijection, Injection, IsInjective
<1>4. SetToSeq(S) \in [1..n -> S] /\ IsInjective(SetToSeq(S))
  BY <1>3 DEF SetToSeq
<1> DEFINE f == SetToSeq(S)
<1>5. f \in Seq(X) /\ Inj(f) /\ DOMAIN f = 1..n
  BY <1>1, <1>4 DEF Inj, IsInjective
<1>6. \A x \in S : \E i \in 1..n : f[i] = x
  <2>1. f \in Injection(1..n, S)
    BY <1>4 DEF Injection
  <2>2. IsFiniteSet(1..n) /\ Cardinality(1..n) = n
    BY <1>1, FS_Interval
  <2>3. f \in Surjection(1..n, S)
    BY <2>1, <2>2, FS_Injection
  <2>4. QED
    BY <2>3 DEF Surjection
<1>7. ToSet(f) = S
  <2> HIDE DEF f, n
  <2>1. f \in [1..n -> S]
    BY <1>4 DEF f
  <2>2. QED
    BY <1>6, <2>1 DEF ToSet
<1>8. ASSUME S = {} PROVE f = <<>>
  <2>1. n = 0
    BY <1>8, FS_EmptySet
  <2>2. QED
    BY <2>1, <1>5
<1>9. QED
  BY <1>5, <1>7, <1>8

\* The smaller of two numbers, as in the size of a chunk.
LEMMA MinPair ==
    ASSUME NEW a \in Nat, NEW b \in Nat
    PROVE  Min({a, b}) \in Nat /\ Min({a, b}) <= a /\ Min({a, b}) <= b /\ Min({a, b}) \in {a, b}
<1>1. \E x \in {a, b} : \A y \in {a, b} : x =< y
  OBVIOUS
<1>2. QED
  BY <1>1 DEF Min

(***************************************************************************)
(* Legs, jobs and queues.                                                  *)
(***************************************************************************)

\* The legs and the actors they call: only the fourth, the serving store, has none.
LEMMA LegFacts ==
    /\ DOMAIN Legs = 1..6 /\ Len(Legs) = 6
    /\ SinkOf(4) = "serving" /\ Legs[1] = "primary"
    /\ \A l \in 1..6 : (l # 4 => SinkOf(l) \in Actors) /\ (l # 1 => Legs[l] # "primary")
<1>1. DOMAIN Legs = 1..6 /\ Len(Legs) = 6
  BY DEF Legs
<1>2. /\ Legs[1] = "primary" /\ Legs[2] = "fallback" /\ Legs[3] = "onSuccess"
      /\ Legs[4] = "serving" /\ Legs[5] = "bypassFallback" /\ Legs[6] = "bypassOnSuccess"
  BY DEF Legs
<1>3. \A l \in 1..6 : l = 1 \/ l = 2 \/ l = 3 \/ l = 4 \/ l = 5 \/ l = 6
  OBVIOUS
<1>4. QED
  BY <1>1, <1>2, <1>3 DEF SinkOf, Actors

\* The next leg with messages exists.
LEMMA MinLeg ==
    ASSUME NEW S \in SUBSET (1..6), S # {}
    PROVE  Min(S) \in S /\ \A y \in S : Min(S) <= y
<1>1. \E x \in S : \A y \in S : x =< y
  <2>1. \A l \in 1..6 : l = 1 \/ l = 2 \/ l = 3 \/ l = 4 \/ l = 5 \/ l = 6
    OBVIOUS
  <2>2. CASE 1 \in S
    BY <2>2
  <2>3. CASE 1 \notin S /\ 2 \in S
    BY <2>3
  <2>4. CASE 1 \notin S /\ 2 \notin S /\ 3 \in S
    BY <2>4
  <2>5. CASE 1 \notin S /\ 2 \notin S /\ 3 \notin S /\ 4 \in S
    BY <2>5
  <2>6. CASE 1 \notin S /\ 2 \notin S /\ 3 \notin S /\ 4 \notin S /\ 5 \in S
    BY <2>6
  <2>7. CASE 1 \notin S /\ 2 \notin S /\ 3 \notin S /\ 4 \notin S /\ 5 \notin S
    <3>1. \A l \in S : l = 6
      BY <2>1, <2>7
    <3>2. PICK x \in S : TRUE
      OBVIOUS
    <3>3. x = 6 /\ \A y \in S : x =< y
      BY <3>1
    <3>4. QED
      BY <3>3
  <2>8. QED
    BY <2>2, <2>3, <2>4, <2>5, <2>6, <2>7
<1>2. QED
  BY <1>1 DEF Min

\* An idle worker holds no message.
LEMMA IdleFacts ==
    /\ Idle \in JobRec
    /\ Idle.batch = {} /\ Idle.leg = 0 /\ Idle.todo = {} /\ Idle.nacked = {} /\ ~Idle.bad
    /\ \A l \in 1..6 : Idle.route[l] = {}
<1>1. [l \in DOMAIN Legs |-> {}] \in [1..6 -> SUBSET Offsets]
  BY LegFacts
<1>2. Idle \in JobRec
  BY <1>1 DEF Idle, JobRec
<1>3. QED
  BY <1>2, LegFacts DEF Idle

\* A record with the fields of a job is one.
LEMMA IsJob ==
    ASSUME NEW j \in JobRec, NEW k, DOMAIN k = DOMAIN j, k = [x \in DOMAIN k |-> k[x]],
           k.batch \in SUBSET Offsets, k.leg \in 0..6, k.todo \in SUBSET Offsets, k.tries \in Int,
           k.route \in [1..6 -> SUBSET Offsets], k.nacked \in SUBSET Offsets, k.bad \in BOOLEAN
    PROVE  k \in JobRec
<1>1. DOMAIN j = {"batch", "leg", "todo", "tries", "route", "nacked", "bad"}
  BY DEF JobRec
<1>2. QED
  BY <1>1 DEF JobRec

\* What Sorted makes of a job.
LEMMA SortedFacts ==
    ASSUME NEW j \in JobRec, NEW r \in [j.todo -> Answers]
    PROVE  LET k == Sorted(j, r) IN
           /\ k \in JobRec /\ k.batch = j.batch /\ k.leg = j.leg
           /\ k.todo = {o \in j.todo : r[o] = "fail"}
           /\ k.nacked = j.nacked \cup {o \in j.todo : r[o] = "nack"}
           /\ \A l \in 1..6 : j.route[l] \subseteq k.route[l] /\ k.route[l] \subseteq j.route[l] \cup j.todo
           /\ Legs[j.leg] = "primary" =>
                 \A o \in j.todo : r[o] \in {"fallback", "onSuccess", "serve"} =>
                    o \in k.route[2] \cup k.route[3] \cup k.route[4]
           /\ j.bad => k.bad
           /\ Legs[j.leg] # "primary" /\ ~k.bad => \A o \in j.todo : r[o] \notin {"fallback", "serve"}
<1> DEFINE Is(x) == {o \in j.todo : r[o] = x}
           first == Legs[j.leg] = "primary"
           k == Sorted(j, r)
<1>1. /\ j.todo \in SUBSET Offsets /\ j.batch \in SUBSET Offsets /\ j.nacked \in SUBSET Offsets
      /\ j.route \in [1..6 -> SUBSET Offsets] /\ j.leg \in 0..6 /\ j.tries \in Int /\ j.bad \in BOOLEAN
  BY DEF JobRec
<1>2. k.batch = j.batch /\ k.leg = j.leg /\ k.tries = j.tries
  BY DEF Sorted, JobRec
<1>3. k.todo = Is("fail") /\ k.nacked = j.nacked \cup Is("nack")
  BY DEF Sorted, JobRec
<1>4. k.bad = (j.bad \/ (~first /\ Is("fallback") \cup Is("serve") # {}))
  BY DEF Sorted, JobRec
<1>5. k.route \in [1..6 -> SUBSET Offsets]
  BY <1>1 DEF Sorted, JobRec
<1>6. /\ k.route[1] = j.route[1] /\ k.route[5] = j.route[5] /\ k.route[6] = j.route[6]
      /\ k.route[2] = IF first THEN j.route[2] \cup Is("fallback") ELSE j.route[2]
      /\ k.route[3] = IF first THEN j.route[3] \cup Is("onSuccess") ELSE j.route[3]
      /\ k.route[4] = IF first THEN j.route[4] \cup Is("serve") ELSE j.route[4]
  <2>1. k.route[1] = j.route[1] /\ k.route[5] = j.route[5] /\ k.route[6] = j.route[6]
    BY <1>1 DEF Sorted, JobRec
  <2>2. k.route[2] = IF first THEN j.route[2] \cup Is("fallback") ELSE j.route[2]
    BY <1>1 DEF Sorted, JobRec
  <2>3. k.route[3] = IF first THEN j.route[3] \cup Is("onSuccess") ELSE j.route[3]
    <3>1. CASE first
      BY <1>1, <3>1 DEF Sorted, JobRec
    <3>2. CASE ~first
      BY <1>1, <3>2 DEF Sorted, JobRec
    <3>3. QED
      BY <3>1, <3>2
  <2>4. k.route[4] = IF first THEN j.route[4] \cup Is("serve") ELSE j.route[4]
    BY <1>1 DEF Sorted, JobRec
  <2>5. QED
    BY <2>1, <2>2, <2>3, <2>4
<1>7. DOMAIN k = DOMAIN j /\ k = [x \in DOMAIN k |-> k[x]]
  BY DEF Sorted
<1>8. k.bad \in BOOLEAN
  BY <1>4, Zenon
<1> HIDE DEF k
<1>9. k \in JobRec
  BY <1>1, <1>2, <1>3, <1>5, <1>7, <1>8, IsJob
<1>10. \A l \in 1..6 : j.route[l] \subseteq k.route[l] /\ k.route[l] \subseteq j.route[l] \cup j.todo
  <2>1. \A l \in 1..6 : l = 1 \/ l = 2 \/ l = 3 \/ l = 4 \/ l = 5 \/ l = 6
    OBVIOUS
  <2>2. QED
    BY <2>1, <1>6
<1>11. first => \A o \in j.todo : r[o] \in {"fallback", "onSuccess", "serve"} =>
                    o \in k.route[2] \cup k.route[3] \cup k.route[4]
  BY <1>6
<1>12. /\ j.bad => k.bad
       /\ ~first /\ ~k.bad => \A o \in j.todo : r[o] \notin {"fallback", "serve"}
  BY <1>4
<1>13. QED
  BY <1>2, <1>3, <1>9, <1>10, <1>11, <1>12 DEF k

\* Sequences of one and of two requests.
LEMMA Pairs ==
    ASSUME NEW x \in Workers, NEW y \in Workers
    PROVE  Append(<<x>>, y) = <<x, y>>
<1>1. <<x>> \in Seq(Workers) /\ Len(<<x>>) = 1 /\ <<x>>[1] = x
  OBVIOUS
<1>2. <<x, y>> \in Seq(Workers) /\ Len(<<x, y>>) = 2 /\ <<x, y>>[1] = x /\ <<x, y>>[2] = y
  OBVIOUS
<1>3. /\ Append(<<x>>, y) \in Seq(Workers) /\ Len(Append(<<x>>, y)) = 1 + 1
      /\ Append(<<x>>, y)[1] = x /\ Append(<<x>>, y)[1 + 1] = y
  BY <1>1, AppendProperties
<1> DEFINE a == Append(<<x>>, y)
           b == <<x, y>>
<1>4. a \in Seq(Workers) /\ b \in Seq(Workers) /\ Len(a) = 2 /\ Len(b) = 2
  BY <1>2, <1>3
<1>5. \A i \in 1..2 : a[i] = b[i]
  <2>1. a[1] = b[1] /\ a[2] = b[2]
    BY <1>2, <1>3
  <2> HIDE DEF a, b
  <2>2. QED
    BY <2>1
<1> HIDE DEF a, b
<1>6. a = b
  BY <1>4, <1>5, SeqEqual
<1>7. QED
  BY <1>6 DEF a, b

\* A worker that joins or leaves the queue of an actor leaves a queue of distinct workers.
LEMMA QueueFacts ==
    ASSUME NEW q \in Queues, NEW w \in Workers
    PROVE  /\ w \notin ToSet(q) => Append(q, w) \in Queues /\ ToSet(Append(q, w)) = ToSet(q) \cup {w}
           /\ w \in ToSet(q) /\ Head(q) = w => Tail(q) \in Queues /\ ToSet(Tail(q)) = ToSet(q) \ {w}
           /\ ToSet(<<>>) = {}
<1>0. \/ q = <<>> \/ q = <<"writer">> \/ q = <<"bypass">>
      \/ q = <<"writer", "bypass">> \/ q = <<"bypass", "writer">>
  BY DEF Queues
<1>w. w = "writer" \/ w = "bypass"
  BY DEF Workers
<1>1. q \in Seq(Workers) /\ Inj(q)
  <2>1. CASE q = <<>>
    BY <2>1 DEF Inj
  <2>2. CASE q = <<"writer">>
    BY <2>2 DEF Inj, Workers
  <2>3. CASE q = <<"bypass">>
    BY <2>3 DEF Inj, Workers
  <2>4. CASE q = <<"writer", "bypass">>
    BY <2>4 DEF Inj, Workers
  <2>5. CASE q = <<"bypass", "writer">>
    BY <2>5 DEF Inj, Workers
  <2>6. QED
    BY <1>0, <2>1, <2>2, <2>3, <2>4, <2>5
<1>2. ToSet(<<>>) = {}
  BY DEF ToSet
<1>3. ASSUME w \notin ToSet(q)
      PROVE  Append(q, w) \in Queues /\ ToSet(Append(q, w)) = ToSet(q) \cup {w}
  <2>1. q = <<>> \/ (\E v \in Workers : q = <<v>> /\ v # w)
    <3>1. q # <<"writer", "bypass">> /\ q # <<"bypass", "writer">>
      BY <1>3 DEF ToSet, Workers
    <3>2. q # <<w>>
      BY <1>3 DEF ToSet
    <3>3. QED
      BY <3>1, <3>2 DEF Queues, Workers
  <2>2. Append(q, w) \in Queues
    <3>1. CASE q = <<>>
      <4>1. Append(q, w) = <<w>>
        BY <3>1
      <4>2. QED
        BY <4>1, <1>w DEF Queues
    <3>2. CASE \E v \in Workers : q = <<v>> /\ v # w
      <4>1. (q = <<"writer">> /\ w = "bypass") \/ (q = <<"bypass">> /\ w = "writer")
        BY <3>2, <1>w DEF Workers
      <4>2. Append(<<"writer">>, "bypass") = <<"writer", "bypass">>
        BY Pairs DEF Workers
      <4>3. Append(<<"bypass">>, "writer") = <<"bypass", "writer">>
        BY Pairs DEF Workers
      <4>4. QED
        BY <4>1, <4>2, <4>3 DEF Queues
    <3>3. QED
      BY <2>1, <3>1, <3>2
  <2>3. QED
    BY <2>2, <1>1, AppendFacts
<1>4. ASSUME w \in ToSet(q), Head(q) = w
      PROVE  Tail(q) \in Queues /\ ToSet(Tail(q)) = ToSet(q) \ {w}
  <2>1. q # <<>>
    BY <1>2, <1>4
  <2>2. Tail(q) \in Queues
    <3>1. CASE q = <<"writer">> \/ q = <<"bypass">>
      <4>1. Tail(q) = <<>>
        <5>1. Len(q) = 1
          BY <3>1
        <5>2. Tail(q) \in Seq(Workers) /\ Len(Tail(q)) = Len(q) - 1
          BY <1>1, <2>1, HeadTailProperties
        <5>3. Len(Tail(q)) \notin Nat \ {0}
          BY <5>1, <5>2
        <5>4. QED
          BY <5>2, <5>3, EmptySeq
      <4>2. QED
        BY <4>1 DEF Queues
    <3>2. CASE q = <<"writer", "bypass">>
      <4>1. Tail(q) = <<"bypass">>
        BY <3>2
      <4>2. QED
        BY <4>1 DEF Queues
    <3>3. CASE q = <<"bypass", "writer">>
      <4>1. Tail(q) = <<"writer">>
        BY <3>3
      <4>2. QED
        BY <4>1 DEF Queues
    <3>4. QED
      BY <1>0, <2>1, <3>1, <3>2, <3>3
  <2>3. QED
    BY <2>1, <2>2, <1>1, <1>4, TailFacts
<1>5. QED
  BY <1>2, <1>3, <1>4

(***************************************************************************)
(* What a worker does.  Fits says that job j of worker w and the handles h *)
(* go with the rest of the state, when the messages in others are held     *)
(* elsewhere and hnd, ref and ign are the histories.                       *)
(***************************************************************************)

SetAside(w, j) == IF w = "writer" THEN j.nacked ELSE job["writer"].nacked

Fits(w, j, h, others, hnd, ref, ign) ==
    /\ j \in JobRec /\ JobOK(w, j, hnd \cup ign, ign)
    /\ h \in [Offsets -> Statuses]
    /\ Open(h) = others \cup j.batch /\ others \cap j.batch = {}
    /\ \A o \in Offsets : h[o] # "none" <=> o \in tracker
    /\ \A o \in Offsets : h[o] = "ok" => o \in hnd \cup ign
    /\ NackOK(h, ref, SetAside(w, j))

\* The queues q go with job j of worker w and with the job of the other worker.
Lines(w, j, q) ==
    /\ q \in [Actors -> Queues]
    /\ \A a \in Actors : w \in ToSet(q[a]) <=> At(j, a)
    /\ \A a \in Actors, v \in Workers : v # w => (v \in ToSet(q[a]) <=> At(job[v], a))

\* Worker w has a new job that fits.
Worked(w, others, hnd, ref, ign) ==
    /\ \E k \in JobRec : /\ job' = [job EXCEPT ![w] = k]
                          /\ Fits(w, k, handle', others, hnd, ref, ign)
                          /\ Lines(w, k, queue')
    /\ cancelled' \in BOOLEAN /\ erring' \in [Workers -> BOOLEAN]

\* The batch is resolved: every message of it is marked, as a success only if it is done and
\* not to be nacked.
LEMMA ResolveWorks ==
    ASSUME NEW w \in Workers, NEW j, NEW h, NEW others, NEW hnd, NEW ref, NEW ign, NEW oks, NEW bad,
           NEW q, Fits(w, j, h, others, hnd, ref, ign), Lines(w, Idle, q),
           oks \cup bad = j.batch, oks \subseteq hnd \cup ign,
           w = "writer" => oks \cap j.nacked = {},
           Resolve(w, h, oks, bad), queue' = q,
           cancelled' \in BOOLEAN, erring' \in [Workers -> BOOLEAN]
    PROVE  Worked(w, others, hnd, ref, ign)
<1>1. Idle \in JobRec /\ JobOK(w, Idle, hnd \cup ign, ign)
  BY IdleFacts, FS_EmptySet DEF JobOK
<1>2. /\ h \in [Offsets -> Statuses] /\ j.batch \in SUBSET Offsets
      /\ Open(h) = others \cup j.batch /\ others \cap j.batch = {}
      /\ \A o \in Offsets : h[o] # "none" <=> o \in tracker
      /\ \A o \in Offsets : h[o] = "ok" => o \in hnd \cup ign
  BY DEF Fits, JobRec
<1>3. /\ handle' \in [Offsets -> Statuses]
      /\ \A o \in Offsets : handle'[o] = IF o \in oks THEN "ok" ELSE IF o \in bad THEN "failed" ELSE h[o]
  <2>1. handle' = [o \in Offsets |-> IF o \in oks THEN "ok" ELSE IF o \in bad THEN "failed" ELSE h[o]]
    BY DEF Resolve, Marking
  <2>2. QED
    BY <2>1, <1>2 DEF Statuses
<1>4. Open(handle') = others /\ others \cap Idle.batch = {} /\ Open(handle') = others \cup Idle.batch
  BY <1>2, <1>3, IdleFacts DEF Open
<1>5. \A o \in Offsets : handle'[o] # "none" <=> o \in tracker
  BY <1>2, <1>3 DEF Open
<1>6. \A o \in Offsets : handle'[o] = "ok" => o \in hnd \cup ign
  BY <1>2, <1>3
<1>7. NackOK(handle', ref, SetAside(w, Idle))
  <2> SUFFICES ASSUME NEW o \in Offsets, o \in ref, handle'[o] \in {"open", "ok"}, ~Bypassed(o)
               PROVE  o \in SetAside(w, Idle)
    BY DEF NackOK
  <2>1. h[o] \in {"open", "ok"}
    BY <1>2, <1>3 DEF Open
  <2>2. o \in SetAside(w, j)
    BY <2>1 DEF Fits, NackOK
  <2>3. CASE w = "writer"
    <3>1. o \in j.nacked /\ o \in j.batch
      BY <2>2, <2>3 DEF SetAside, Fits, JobOK
    <3>2. QED
      BY <3>1, <2>3, <1>3
  <2>4. CASE w # "writer"
    BY <2>2, <2>4 DEF SetAside
  <2>5. QED
    BY <2>3, <2>4
<1>8. Fits(w, Idle, handle', others, hnd, ref, ign)
  BY <1>1, <1>3, <1>4, <1>5, <1>6, <1>7 DEF Fits
<1>9. job' = [job EXCEPT ![w] = Idle] /\ Lines(w, Idle, queue')
  BY DEF Resolve
<1>10. QED
  BY <1>1, <1>8, <1>9 DEF Worked

\* A failed batch is marked as failed as a whole.
LEMMA FailsWorks ==
    ASSUME NEW w \in Workers, NEW j, NEW h, NEW others, NEW hnd, NEW ref, NEW ign, NEW q,
           Fits(w, j, h, others, hnd, ref, ign), Lines(w, Idle, q),
           erring \in [Workers -> BOOLEAN], Fails(w, j, h), queue' = q
    PROVE  Worked(w, others, hnd, ref, ign)
<1>1. Resolve(w, h, {}, j.batch) /\ cancelled' \in BOOLEAN /\ erring' \in [Workers -> BOOLEAN]
  BY DEF Fails
<1>2. QED
  BY <1>1, ResolveWorks

\* The next leg keeps what is known of the messages of a job.
LEMMA NextLeg ==
    ASSUME NEW w \in Workers, NEW j \in JobRec, NEW done, NEW ign, JobOK(w, j, done, ign),
           j.todo = {}, ~j.bad, NEW k \in JobRec, k.leg \in 1..6, k.leg > j.leg,
           \A l \in 1..6 : l > j.leg /\ j.route[l] # {} => k.leg <= l,
           k.batch = j.batch, k.nacked = j.nacked, k.todo = j.route[k.leg], k.route = j.route, ~k.bad
    PROVE  JobOK(w, k, done, ign)
<1>1. \A o \in k.batch : o \in done \/ o \in k.nacked \/ o \in k.todo
                            \/ \E l \in 1..6 : l > k.leg /\ o \in k.route[l]
  <2> SUFFICES ASSUME NEW o \in j.batch, o \notin done, o \notin j.nacked
               PROVE  o \in j.route[k.leg] \/ \E l \in 1..6 : l > k.leg /\ o \in j.route[l]
    OBVIOUS
  <2>1. PICK l \in 1..6 : l > j.leg /\ o \in j.route[l]
    BY DEF JobOK
  <2>2. k.leg <= l
    BY <2>1
  <2>3. QED
    BY <2>1, <2>2
<1>2. QED
  BY <1>1 DEF JobOK

\* Going on to the next leg of a job, or to its end, keeps everything in place.
LEMMA ProceedWorks ==
    ASSUME NEW w \in Workers, NEW j, NEW h, NEW others, NEW hnd, NEW ref, NEW ign, NEW q,
           Fits(w, j, h, others, hnd, ref, ign), Lines(w, Idle, q), j.todo = {}, ~j.bad,
           erring \in [Workers -> BOOLEAN], cancelled \in BOOLEAN, Proceed(w, j, h, q)
    PROVE  Worked(w, others, hnd, ref, ign)
<1> DEFINE left == {l \in 1..6 : l > j.leg /\ j.route[l] # {}}
           m == Min(left)
<1>1. j \in JobRec /\ JobOK(w, j, hnd \cup ign, ign) /\ j.leg \in 0..6
  BY DEF Fits, JobRec
<1>2. \/ left = {} /\ Succeeds(w, j, h) /\ queue' = q
      \/ left # {} /\ Fails(w, j, h) /\ queue' = q
      \/ /\ left # {}
         /\ job' = [job EXCEPT ![w] = [j EXCEPT !.leg = m, !.todo = j.route[m], !.tries = 0, !.bad = FALSE]]
         /\ queue' = IF SinkOf(m) = "serving" THEN q ELSE [q EXCEPT ![SinkOf(m)] = Append(@, w)]
         /\ handle' = h
         /\ UNCHANGED <<cancelled, erring>>
  BY LegFacts DEF Proceed
<1>3. CASE left = {} /\ Succeeds(w, j, h) /\ queue' = q
  <2> DEFINE bad == Nacked(w, j)
  <2>1. /\ Resolve(w, h, j.batch \ bad, bad)
        /\ cancelled' \in BOOLEAN /\ erring' \in [Workers -> BOOLEAN]
    BY <1>3 DEF Succeeds
  <2>2. bad \subseteq j.batch /\ (w = "writer" => bad = j.nacked)
    BY <1>1 DEF Nacked, JobOK
  <2>3. j.batch \ bad \subseteq hnd \cup ign
    <3> SUFFICES ASSUME NEW o \in j.batch, o \notin bad PROVE o \in hnd \cup ign
      OBVIOUS
    <3>1. o \in hnd \cup ign \/ o \in j.nacked
      BY <1>1, <1>3 DEF JobOK
    <3>2. CASE w = "writer"
      BY <2>2, <3>1, <3>2
    <3>3. CASE w = "bypass"
      BY <1>1, <3>1, <3>3 DEF JobOK
    <3>4. QED
      BY <3>2, <3>3 DEF Workers
  <2> HIDE DEF bad
  <2>4. QED
    BY <1>3, <2>1, <2>2, <2>3, ResolveWorks
<1>4. CASE left # {} /\ Fails(w, j, h) /\ queue' = q
  BY <1>4, FailsWorks
<1>5. CASE /\ left # {}
           /\ job' = [job EXCEPT ![w] = [j EXCEPT !.leg = m, !.todo = j.route[m], !.tries = 0, !.bad = FALSE]]
           /\ queue' = IF SinkOf(m) = "serving" THEN q ELSE [q EXCEPT ![SinkOf(m)] = Append(@, w)]
           /\ handle' = h
           /\ UNCHANGED <<cancelled, erring>>
  <2>k. PICK k : k = [j EXCEPT !.leg = m, !.todo = j.route[m], !.tries = 0, !.bad = FALSE]
    OBVIOUS
  <2>1. m \in left /\ \A y \in left : m <= y
    BY <1>5, MinLeg
  <2>2. m \in 1..6 /\ m > j.leg /\ \A l \in 1..6 : l > j.leg /\ j.route[l] # {} => m <= l
    BY <2>1
  <2>4. job' = [job EXCEPT ![w] = k]
    BY <1>5, <2>k
  <2> HIDE DEF m, left
  <2>0. /\ k \in JobRec /\ k.batch = j.batch /\ k.nacked = j.nacked /\ k.leg = m
        /\ k.todo = j.route[m] /\ k.route = j.route /\ ~k.bad
    <3>1. j.route \in [1..6 -> SUBSET Offsets] /\ j.route[m] \in SUBSET Offsets
      BY <1>1, <2>2 DEF JobRec
    <3>2. /\ j.batch \in SUBSET Offsets /\ j.nacked \in SUBSET Offsets
          /\ DOMAIN k = DOMAIN j /\ k = [x \in DOMAIN k |-> k[x]]
      BY <1>1, <2>k DEF JobRec
    <3>3. /\ k.batch = j.batch /\ k.nacked = j.nacked /\ k.leg = m /\ k.todo = j.route[m]
          /\ k.route = j.route /\ k.bad = FALSE /\ k.tries = 0
      BY <1>1, <2>k DEF JobRec
    <3>4. k.bad \in BOOLEAN
      BY <3>3
    <3>5. k.tries \in Int /\ k.leg \in 0..6 /\ k.todo \in SUBSET Offsets
      BY <2>2, <3>1, <3>3
    <3>6. k \in JobRec
      BY <1>1, <3>1, <3>2, <3>3, <3>4, <3>5, IsJob
    <3>7. QED
      BY <3>3, <3>6
  <2>3. k \in JobRec /\ JobOK(w, k, hnd \cup ign, ign) /\ k.batch = j.batch /\ k.nacked = j.nacked /\ k.leg = m
    BY <1>1, <2>0, <2>2, NextLeg
  <2>5. Fits(w, k, handle', others, hnd, ref, ign)
    BY <2>3, <1>5 DEF Fits, SetAside
  <2>6. Lines(w, k, queue')
    <3>1. /\ q \in [Actors -> Queues] /\ \A a \in Actors : w \notin ToSet(q[a])
          /\ \A a \in Actors, v \in Workers : v # w => (v \in ToSet(q[a]) <=> At(job[v], a))
      BY IdleFacts DEF Lines, At
    <3>2. \A a \in Actors : At(k, a) <=> SinkOf(m) = a
      BY <2>2, <2>3 DEF At
    <3>3. CASE SinkOf(m) = "serving"
      <4>1. \A a \in Actors : ~At(k, a)
        BY <3>2, <3>3 DEF Actors
      <4>2. queue' = q
        BY <3>3, <1>5
      <4>3. QED
        BY <3>1, <4>1, <4>2 DEF Lines
    <3>4. CASE SinkOf(m) # "serving"
      <4>1. PICK b \in Actors : b = SinkOf(m)
        BY <3>4, <2>2, LegFacts
      <4>2. queue' = [q EXCEPT ![b] = Append(q[b], w)]
        BY <3>4, <4>1, <1>5
      <4>3. Append(q[b], w) \in Queues /\ ToSet(Append(q[b], w)) = ToSet(q[b]) \cup {w}
        BY <3>1, QueueFacts
      <4>4. queue' \in [Actors -> Queues] /\ \A a \in Actors : queue'[a] = IF a = b THEN Append(q[b], w) ELSE q[a]
        BY <3>1, <4>2, <4>3
      <4>5. QED
        BY <3>1, <3>2, <4>1, <4>3, <4>4 DEF Lines
    <3>5. QED
      BY <3>3, <3>4
  <2>7. cancelled' \in BOOLEAN /\ erring' \in [Workers -> BOOLEAN]
    BY <1>5
  <2>8. QED
    BY <2>3, <2>4, <2>5, <2>6, <2>7 DEF Worked
<1>6. QED
  BY <1>2, <1>3, <1>4, <1>5

\* What is held by others than worker w, with channels ch and bc.
Other(w) == IF w = "writer" THEN "bypass" ELSE "writer"
Others(w, ch, bc) == ToSet(out) \cup ToSet(ch) \cup ToSet(bc) \cup job[Other(w)].batch

\* A step of a worker that leaves it with a fitting job keeps the invariant, if it only takes
\* messages out of the channels and adds to the histories.
LEMMA WorkDone ==
    ASSUME IInv, NEW w \in Workers,
           chan' \in Seq(Offsets), bchan' \in Seq(Offsets), Inj(chan'), Inj(bchan'),
           ToSet(chan') \subseteq ToSet(chan), ToSet(bchan') \subseteq ToSet(bchan),
           Worked(w, Others(w, chan', bchan'), handled', refused', ignored'),
           handled \subseteq handled', ignored \subseteq ignored',
           handled' \in SUBSET Offsets, refused' \in SUBSET Offsets, ignored' \in SUBSET Offsets,
           odd' \in 0..MaxOdd, faults' \in 0..MaxFaults,
           UNCHANGED <<cfg, root, src, srcVars, wdone>>
    PROVE  IInv'
<1>1. PICK k \in JobRec : /\ job' = [job EXCEPT ![w] = k]
                          /\ Fits(w, k, handle', Others(w, chan', bchan'), handled', refused', ignored')
                          /\ Lines(w, k, queue')
  BY DEF Worked
<1>2. /\ cfg' = cfg /\ root' = root /\ src' = src /\ wdone' = wdone /\ spc' = spc /\ got' = got
      /\ out' = out /\ tracker' = tracker /\ task' = task /\ failed' = failed
  BY DEF srcVars
<1>3. Types
  BY DEF IInv
<1>4. /\ job \in [Workers -> JobRec] /\ job' \in [Workers -> JobRec] /\ job'[w] = k
      /\ \A v \in Workers : v # w => job'[v] = job[v]
  BY <1>1, <1>3 DEF Types
<1>5. \A o \in Offsets : Bypassed(o)' <=> Bypassed(o)
  BY <1>2 DEF Bypassed
<1>6. Types'
  <2>1. handle' \in [Offsets -> Statuses] /\ queue' \in [Actors -> Queues]
    BY <1>1 DEF Fits, Lines
  <2>2. cancelled' \in BOOLEAN /\ erring' \in [Workers -> BOOLEAN]
    BY DEF Worked
  <2>3. /\ cfg' \in Configs /\ src' \in [Offsets -> {"ready", "delivered", "acked"}]
        /\ root' \in BOOLEAN /\ failed' \in BOOLEAN /\ wdone' \in [Workers -> BOOLEAN]
    BY <1>2, <1>3, Zenon DEF Types
  <2>4. /\ spc' \in Places /\ got' \in Seq(Offsets) /\ out' \in Seq(Offsets)
        /\ tracker' \in SUBSET Offsets /\ task' \in [Slots -> TaskRec]
    BY <1>2, <1>3 DEF Types
  <2>5. QED
    BY <2>1, <2>2, <2>3, <2>4, <1>4 DEF Types
<1>7. HoldInv'
  <2>1. Open(handle') = Others(w, chan', bchan') \cup k.batch /\ Others(w, chan', bchan') \cap k.batch = {}
    BY <1>1 DEF Fits
  <2>2. Splits(Open(handle), ToSet(out), ToSet(chan), ToSet(bchan), job["writer"].batch, job["bypass"].batch)
    BY DEF IInv, HoldInv
  <2>3. Inj(out') /\ (spc' \notin {"transform", "dispatch"} => out' = <<>>)
    BY <1>2 DEF IInv, HoldInv
  <2>4. CASE w = "writer"
    <3>1. job'["writer"].batch = k.batch /\ job'["bypass"].batch = job["bypass"].batch
      BY <1>4, <2>4 DEF Workers
    <3>2. Others(w, chan', bchan') = ToSet(out') \cup ToSet(chan') \cup ToSet(bchan') \cup job["bypass"].batch
      BY <1>2, <2>4 DEF Others, Other
    <3>3. Splits(Open(handle'), ToSet(out'), ToSet(chan'), ToSet(bchan'), job'["writer"].batch, job'["bypass"].batch)
      BY <1>2, <2>1, <2>2, <3>1, <3>2 DEF Splits
    <3>4. QED
      BY <2>3, <3>3 DEF HoldInv, Open
  <2>5. CASE w = "bypass"
    <3>1. job'["bypass"].batch = k.batch /\ job'["writer"].batch = job["writer"].batch
      BY <1>4, <2>5 DEF Workers
    <3>2. Others(w, chan', bchan') = ToSet(out') \cup ToSet(chan') \cup ToSet(bchan') \cup job["writer"].batch
      BY <1>2, <2>5 DEF Others, Other
    <3>3. Splits(Open(handle'), ToSet(out'), ToSet(chan'), ToSet(bchan'), job'["writer"].batch, job'["bypass"].batch)
      BY <1>2, <2>1, <2>2, <3>1, <3>2 DEF Splits
    <3>4. QED
      BY <2>3, <3>3 DEF HoldInv, Open
  <2>6. QED
    BY <2>4, <2>5 DEF Workers
<1>8. WaitInv'
  <2>1. \A o \in Offsets : handle'[o] # "none" <=> o \in tracker'
    BY <1>1, <1>2 DEF Fits
  <2>2. Permits' = Permits
    BY <1>2 DEF Permits
  <2>3. QED
    BY <1>2, <2>1, <2>2 DEF IInv, WaitInv
<1>9. JobInv'
  <2>1. JobOK(w, k, handled' \cup ignored', ignored')
    BY <1>1 DEF Fits
  <2>2. JobOK(w, job[w], handled \cup ignored, ignored)'
    BY <1>4, <1>5, <2>1 DEF JobOK, JobRec
  <2>3. ASSUME NEW v \in Workers, v # w PROVE JobOK(v, job[v], handled \cup ignored, ignored)'
    <3>1. JobOK(v, job[v], handled \cup ignored, ignored)
      BY DEF IInv, JobInv
    <3>2. job'[v] = job[v] /\ job[v] \in JobRec
      BY <1>4, <2>3
    <3>3. QED
      BY <3>1, <3>2, <1>5 DEF JobOK, JobRec
  <2>4. \A o \in ToSet(bchan') : Bypassed(o)'
    <3>1. \A o \in ToSet(bchan') : o \in Offsets
      BY DEF ToSet
    <3>2. QED
      BY <3>1, <1>5 DEF IInv, JobInv
  <2>5. QED
    BY <2>2, <2>3, <2>4 DEF JobInv
<1>10. AckInv'
  <2>1. \A o \in Offsets : handle'[o] = "ok" => o \in handled' \cup ignored'
    BY <1>1 DEF Fits
  <2>2. QED
    BY <1>2, <2>1 DEF IInv, AckInv
<1>11. NackInv'
  <2>1. NackOK(handle', refused', SetAside(w, k))
    BY <1>1 DEF Fits
  <2>2. SetAside(w, k) = job'["writer"].nacked
    BY <1>4 DEF SetAside, Workers
  <2>3. QED
    BY <1>5, <2>1, <2>2 DEF NackInv, NackOK
<1>12. QueueInv'
  BY <1>1, <1>4 DEF QueueInv, Lines, At
<1>13. QED
  BY <1>6, <1>7, <1>8, <1>9, <1>10, <1>11, <1>12 DEF IInv

\* Under the invariant the job of every worker fits.
LEMMA FitsNow ==
    ASSUME IInv, NEW w \in Workers
    PROVE  /\ Fits(w, job[w], handle, Others(w, chan, bchan), handled, refused, ignored)
           /\ Lines(w, job[w], queue)
           /\ job[w] \in JobRec /\ erring \in [Workers -> BOOLEAN] /\ cancelled \in BOOLEAN
<1>1. job[w] \in JobRec /\ erring \in [Workers -> BOOLEAN] /\ cancelled \in BOOLEAN
  BY DEF IInv, Types
<1>2. Lines(w, job[w], queue)
  BY DEF IInv, Types, QueueInv, Lines
<1>3. JobOK(w, job[w], handled \cup ignored, ignored) /\ handle \in [Offsets -> Statuses]
  BY DEF IInv, Types, JobInv
<1>4. NackOK(handle, refused, SetAside(w, job[w]))
  BY DEF IInv, NackInv, SetAside, Workers
<1>5. /\ Open(handle) = Others(w, chan, bchan) \cup job[w].batch
      /\ Others(w, chan, bchan) \cap job[w].batch = {}
  <2>1. Splits(Open(handle), ToSet(out), ToSet(chan), ToSet(bchan), job["writer"].batch, job["bypass"].batch)
    BY DEF IInv, HoldInv
  <2>2. CASE w = "writer"
    BY <2>1, <2>2 DEF Splits, Others, Other
  <2>3. CASE w = "bypass"
    BY <2>1, <2>3 DEF Splits, Others, Other
  <2>4. QED
    BY <2>2, <2>3 DEF Workers
<1>6. /\ \A o \in Offsets : handle[o] # "none" <=> o \in tracker
      /\ \A o \in Offsets : handle[o] = "ok" => o \in handled \cup ignored
  BY DEF IInv, WaitInv, AckInv
<1>7. QED
  BY <1>1, <1>2, <1>3, <1>4, <1>5, <1>6 DEF Fits

\* A worker that leaves its actor is in no queue.
LEMMA Leaves ==
    ASSUME IInv, NEW w \in Workers, AtActor(w)
    PROVE  /\ Lines(w, Idle, Released(SinkOf(job[w].leg)))
           /\ job[w].leg \in 1..6 /\ job[w].leg # 4
<1>1. /\ Lines(w, job[w], queue) /\ job[w] \in JobRec /\ job[w].leg \in 0..6
      /\ job[w].leg # 0 /\ SinkOf(job[w].leg) # "serving" /\ Head(queue[SinkOf(job[w].leg)]) = w
  BY FitsNow DEF AtActor, JobRec
<1>2. job[w].leg \in 1..6 /\ job[w].leg # 4
  BY <1>1, LegFacts
<1>3. PICK b \in Actors : b = SinkOf(job[w].leg)
  BY <1>2, LegFacts
<1>4. queue[b] \in Queues /\ w \in ToSet(queue[b]) /\ Head(queue[b]) = w
  BY <1>1, <1>3 DEF Lines, At
<1>5. Tail(queue[b]) \in Queues /\ ToSet(Tail(queue[b])) = ToSet(queue[b]) \ {w}
  BY <1>4, QueueFacts
<1>6. PICK q : q = Released(SinkOf(job[w].leg))
  OBVIOUS
<1>7. q \in [Actors -> Queues] /\ \A a \in Actors : q[a] = IF a = b THEN Tail(queue[b]) ELSE queue[a]
  BY <1>1, <1>3, <1>5, <1>6 DEF Released, Lines
<1>8. \A a \in Actors : w \notin ToSet(q[a])
  <2> SUFFICES ASSUME NEW a \in Actors PROVE w \notin ToSet(q[a])
    OBVIOUS
  <2>1. CASE a = b
    BY <1>5, <1>7, <2>1
  <2>2. CASE a # b
    BY <1>1, <1>3, <1>7, <2>2 DEF Lines, At
  <2>3. QED
    BY <2>1, <2>2
<1>9. \A a \in Actors, v \in Workers : v # w => (v \in ToSet(q[a]) <=> At(job[v], a))
  <2> SUFFICES ASSUME NEW a \in Actors, NEW v \in Workers, v # w
               PROVE  v \in ToSet(q[a]) <=> At(job[v], a)
    OBVIOUS
  <2>1. v \in ToSet(q[a]) <=> v \in ToSet(queue[a])
    BY <1>5, <1>7
  <2>2. QED
    BY <1>1, <2>1 DEF Lines
<1>10. Lines(w, Idle, q)
  BY <1>7, <1>8, <1>9, IdleFacts DEF Lines, At
<1>11. QED
  BY <1>2, <1>6, <1>10

\* The steps that leave the channels alone.
LEMMA ChannelsStay ==
    ASSUME IInv, UNCHANGED <<chan, bchan>>
    PROVE  /\ chan' \in Seq(Offsets) /\ bchan' \in Seq(Offsets) /\ Inj(chan') /\ Inj(bchan')
           /\ ToSet(chan') \subseteq ToSet(chan) /\ ToSet(bchan') \subseteq ToSet(bchan)
           /\ \A w \in Workers : Others(w, chan', bchan') = Others(w, chan, bchan)
<1>1. chan' = chan /\ bchan' = bchan
  OBVIOUS
<1>2. chan \in Seq(Offsets) /\ bchan \in Seq(Offsets) /\ Inj(chan) /\ Inj(bchan)
  BY DEF IInv, Types, HoldInv
<1>3. QED
  BY <1>1, <1>2

\* A failed sink call nacks the whole batch and frees the actor.
LEMMA SinkErrsStep ==
    ASSUME IInv, NEW w \in Workers, SinkErrs(w)
    PROVE  IInv'
<1>1. /\ AtActor(w) /\ odd < MaxOdd /\ odd' = odd + 1 /\ Fails(w, job[w], handle)
      /\ queue' = Released(SinkOf(job[w].leg))
      /\ UNCHANGED <<cfg, root, src, srcVars, wdone>>
      /\ chan' = chan /\ bchan' = bchan /\ handled' = handled /\ refused' = refused
      /\ ignored' = ignored /\ faults' = faults
  BY DEF SinkErrs, env
<1>2. Worked(w, Others(w, chan, bchan), handled, refused, ignored)
  BY <1>1, FitsNow, Leaves, FailsWorks
<1>3. /\ odd' \in 0..MaxOdd /\ faults' \in 0..MaxFaults
      /\ handled' \in SUBSET Offsets /\ refused' \in SUBSET Offsets /\ ignored' \in SUBSET Offsets
  BY <1>1, MonoVertexAssumption DEF IInv, Types
<1>4. Worked(w, Others(w, chan', bchan'), handled', refused', ignored')
  BY <1>1, <1>2
<1>5. QED
  BY <1>1, <1>3, <1>4, ChannelsStay, WorkDone

\* A failed write to the serving store nacks the whole batch.
LEMMA StoreErrsStep ==
    ASSUME IInv, NEW w \in Workers, StoreErrs(w)
    PROVE  IInv'
<1>1. /\ AtStore(w) /\ faults < MaxFaults /\ faults' = faults + 1 /\ Fails(w, job[w], handle)
      /\ queue' = queue
      /\ UNCHANGED <<cfg, root, src, srcVars, wdone>>
      /\ chan' = chan /\ bchan' = bchan /\ handled' = handled /\ refused' = refused
      /\ ignored' = ignored /\ odd' = odd
  BY DEF StoreErrs, env
<1>2. Lines(w, Idle, queue)
  BY <1>1, FitsNow, IdleFacts DEF Lines, At, AtStore, Actors
<1>3. Worked(w, Others(w, chan, bchan), handled, refused, ignored)
  BY <1>1, <1>2, FitsNow, FailsWorks
<1>4. /\ odd' \in 0..MaxOdd /\ faults' \in 0..MaxFaults
      /\ handled' \in SUBSET Offsets /\ refused' \in SUBSET Offsets /\ ignored' \in SUBSET Offsets
  BY <1>1, MonoVertexAssumption DEF IInv, Types
<1>5. Worked(w, Others(w, chan', bchan'), handled', refused', ignored')
  BY <1>1, <1>3
<1>6. QED
  BY <1>1, <1>4, <1>5, ChannelsStay, WorkDone

\* What the serving store took is handled, and the job goes on.
LEMMA StorePutStep ==
    ASSUME IInv, NEW w \in Workers, StorePut(w)
    PROVE  IInv'
<1> DEFINE i == job[w]
<1>1. PICK j : j = [job[w] EXCEPT !.todo = {}]
  OBVIOUS
<1>2. /\ AtStore(w) /\ handled' = handled \cup job[w].todo /\ Proceed(w, j, handle, queue)
      /\ UNCHANGED <<cfg, root, src, srcVars, wdone>>
      /\ chan' = chan /\ bchan' = bchan /\ refused' = refused
      /\ ignored' = ignored /\ odd' = odd /\ faults' = faults
  BY <1>1 DEF StorePut, env
<1>3. Fits(w, i, handle, Others(w, chan, bchan), handled, refused, ignored) /\ i \in JobRec
  BY FitsNow
<1>4. /\ j \in JobRec /\ j.todo = {} /\ j.batch = i.batch /\ j.nacked = i.nacked /\ j.leg = i.leg
      /\ j.route = i.route /\ j.bad = i.bad
  <2>1. /\ j.todo = {} /\ j.batch = i.batch /\ j.nacked = i.nacked /\ j.leg = i.leg
        /\ j.route = i.route /\ j.bad = i.bad /\ j.tries = i.tries
        /\ DOMAIN j = DOMAIN i /\ j = [x \in DOMAIN j |-> j[x]]
    BY <1>1, <1>3 DEF JobRec
  <2>2. /\ i.batch \in SUBSET Offsets /\ i.leg \in 0..6 /\ i.tries \in Int
        /\ i.route \in [1..6 -> SUBSET Offsets] /\ i.nacked \in SUBSET Offsets /\ i.bad \in BOOLEAN
    BY <1>3 DEF JobRec
  <2> HIDE DEF i
  <2>3. j \in JobRec
    BY <1>3, <2>1, <2>2, IsJob
  <2>4. QED
    BY <2>1, <2>3
<1>5. i.leg = 4 /\ ~i.bad
  <2>1. i.leg \in 1..6
    BY <1>2, <1>3 DEF AtStore, JobRec
  <2>2. i.leg = 4
    BY <1>2, <2>1, LegFacts DEF AtStore, Actors
  <2>3. QED
    BY <1>3, <2>2 DEF Fits, JobOK
<1> HIDE DEF i
<1>6. JobOK(w, j, handled' \cup ignored, ignored)
  BY <1>2, <1>3, <1>4, <1>5 DEF Fits, JobOK, i
<1>7. Fits(w, j, handle, Others(w, chan, bchan), handled', refused, ignored)
  <2>1. handled \subseteq handled'
    BY <1>2
  <2>2. SetAside(w, j) = SetAside(w, i)
    BY <1>4 DEF SetAside
  <2>3. QED
    BY <1>3, <1>4, <1>6, <2>1, <2>2 DEF Fits
<1>8. Lines(w, Idle, queue)
  BY <1>2, FitsNow, IdleFacts DEF Lines, At, AtStore, Actors
<1>9. ~j.bad
  BY <1>4, <1>5
<1>10. Worked(w, Others(w, chan, bchan), handled', refused, ignored)
  BY <1>2, <1>4, <1>7, <1>8, <1>9, FitsNow, ProceedWorks
<1>11. /\ odd' \in 0..MaxOdd /\ faults' \in 0..MaxFaults
      /\ handled' \in SUBSET Offsets /\ refused' \in SUBSET Offsets /\ ignored' \in SUBSET Offsets
  <2>1. job[w].todo \in SUBSET Offsets
    BY <1>3 DEF JobRec, i
  <2>2. QED
    BY <1>2, <2>1 DEF IInv, Types
<1>12. Worked(w, Others(w, chan', bchan'), handled', refused', ignored')
  BY <1>2, <1>10
<1>13. handled \subseteq handled' /\ ignored \subseteq ignored'
  BY <1>2
<1>14. QED
  BY <1>2, <1>11, <1>12, <1>13, ChannelsStay, WorkDone

\* The job after a round of answers fits, with the histories of that round.
LEMMA SortedFits ==
    ASSUME IInv, NEW w \in Workers, AtActor(w), NEW r \in [job[w].todo -> Answers],
           NEW nacks, nacks = {o \in DOMAIN r : r[o] = "nack"},
           NEW hnd, handled \cup Settled(job[w], r) \subseteq hnd, hnd \in SUBSET Offsets,
           NEW ign, ign = IF w = "bypass" THEN ignored \cup nacks ELSE ignored,
           NEW j, j = Sorted(job[w], r)
    PROVE  Fits(w, j, handle, Others(w, chan, bchan), hnd, refused \cup nacks, ign)
<1>0. PICK i \in JobRec : i = job[w]
  BY FitsNow
<1>1. /\ Fits(w, i, handle, Others(w, chan, bchan), handled, refused, ignored)
      /\ i.leg \in 1..6 /\ i.leg # 4
  BY <1>0, FitsNow, Leaves
<1>2. /\ j \in JobRec /\ j.batch = i.batch /\ j.leg = i.leg
      /\ j.todo = {o \in i.todo : r[o] = "fail"}
      /\ j.nacked = i.nacked \cup {o \in i.todo : r[o] = "nack"}
      /\ \A l \in 1..6 : i.route[l] \subseteq j.route[l] /\ j.route[l] \subseteq i.route[l] \cup i.todo
      /\ Legs[i.leg] = "primary" =>
             \A o \in i.todo : r[o] \in {"fallback", "onSuccess", "serve"} =>
                o \in j.route[2] \cup j.route[3] \cup j.route[4]
      /\ i.bad => j.bad
      /\ Legs[i.leg] # "primary" /\ ~j.bad => \A o \in i.todo : r[o] \notin {"fallback", "serve"}
  BY <1>0, SortedFacts
<1>3. nacks = {o \in i.todo : r[o] = "nack"} /\ \A o \in i.todo : r[o] \in Answers
  BY <1>0
<1>4. JobOK(w, i, handled \cup ignored, ignored)
  BY <1>1 DEF Fits
<1>5. IsFiniteSet(i.batch) /\ i.todo \subseteq i.batch /\ i.nacked \subseteq i.batch /\ \A l \in 1..6 : i.route[l] \subseteq i.batch
  BY <1>4 DEF JobOK
<1>6. ASSUME ~j.bad, NEW o \in i.batch
      PROVE  \/ o \in hnd \cup ign \/ o \in j.nacked \/ o \in j.todo
             \/ \E l \in 1..6 : l > j.leg /\ o \in j.route[l]
  <2>1. \/ o \in handled \cup ignored \/ o \in i.nacked \/ o \in i.todo
        \/ \E l \in 1..6 : l > i.leg /\ o \in i.route[l]
    BY <1>2, <1>4, <1>6 DEF JobOK
  <2>2. CASE o \in handled \cup ignored \/ o \in i.nacked
    BY <2>2, <1>2
  <2>3. CASE \E l \in 1..6 : l > i.leg /\ o \in i.route[l]
    BY <2>3, <1>2
  <2>4. CASE o \in i.todo
    <3>1. CASE r[o] = "ok"
      BY <2>4, <3>1, <1>0 DEF Settled
    <3>2. CASE r[o] = "fail" \/ r[o] = "nack"
      BY <2>4, <3>2, <1>2
    <3>3. CASE r[o] \in {"fallback", "onSuccess", "serve"} /\ Legs[i.leg] = "primary"
      <4>1. i.leg = 1
        BY <3>3, <1>1, LegFacts
      <4>2. o \in j.route[2] \cup j.route[3] \cup j.route[4]
        BY <2>4, <3>3, <1>2
      <4>3. 2 > j.leg /\ 3 > j.leg /\ 4 > j.leg
        BY <4>1, <1>2
      <4>4. QED
        BY <4>2, <4>3
    <3>4. CASE r[o] \in {"fallback", "onSuccess", "serve"} /\ Legs[i.leg] # "primary"
      <4>1. r[o] = "onSuccess"
        BY <2>4, <3>4, <1>2, <1>6
      <4>2. QED
        BY <2>4, <3>4, <4>1, <1>0 DEF Settled
    <3>5. QED
      BY <2>4, <1>3, <3>1, <3>2, <3>3, <3>4 DEF Answers
  <2>5. QED
    BY <2>1, <2>2, <2>3, <2>4
<1>7. w = "bypass" => j.nacked \subseteq ign /\ \A o \in j.batch : Bypassed(o)
  BY <1>2, <1>3, <1>4 DEF JobOK
<1>8. JobOK(w, j, hnd \cup ign, ign)
  BY <1>1, <1>2, <1>5, <1>6, <1>7 DEF JobOK
<1>9. NackOK(handle, refused \cup nacks, SetAside(w, j))
  <2> SUFFICES ASSUME NEW o \in Offsets, o \in refused \cup nacks, handle[o] \in {"open", "ok"}, ~Bypassed(o)
               PROVE  o \in SetAside(w, j)
    BY DEF NackOK
  <2>1. CASE o \in refused
    <3>1. o \in SetAside(w, i)
      BY <2>1, <1>1 DEF Fits, NackOK
    <3>2. QED
      BY <3>1, <1>2 DEF SetAside
  <2>2. CASE o \in nacks /\ w = "writer"
    BY <2>2, <1>2, <1>3 DEF SetAside
  <2>3. CASE o \in nacks /\ w = "bypass"
    BY <2>3, <1>3, <1>5, <1>4 DEF JobOK
  <2>4. QED
    BY <2>1, <2>2, <2>3 DEF Workers
<1>10. QED
  BY <1>1, <1>2, <1>8, <1>9 DEF Fits

\* A job whose retries are used up.
LEMMA ExhaustedFits ==
    ASSUME NEW w \in Workers, NEW j, NEW h, NEW others, NEW hnd, NEW ref, NEW ign,
           Fits(w, j, h, others, hnd, ref, ign), j.leg # 0,
           cfg.strategy = "drop" => j.todo \subseteq hnd
    PROVE  Fits(w, Exhausted(j), h, others, hnd, ref, ign)
<1>1. j \in JobRec /\ JobOK(w, j, hnd \cup ign, ign)
  BY DEF Fits
<1>2. /\ j.batch \in SUBSET Offsets /\ j.leg \in 1..6 /\ j.tries \in Int /\ j.todo \in SUBSET Offsets
      /\ j.route \in [1..6 -> SUBSET Offsets] /\ j.nacked \in SUBSET Offsets /\ j.bad \in BOOLEAN
  BY <1>1 DEF JobRec
<1>3. PICK k : k = Exhausted(j)
  OBVIOUS
<1>4. CASE k = j
  BY <1>3, <1>4
<1>5. CASE cfg.strategy = "drop"
  <2>1. k = [j EXCEPT !.todo = {}]
    BY <1>3, <1>5 DEF Exhausted
  <2>2. /\ k.todo = {} /\ k.batch = j.batch /\ k.nacked = j.nacked /\ k.leg = j.leg
        /\ k.route = j.route /\ k.bad = j.bad /\ k.tries = j.tries
        /\ DOMAIN k = DOMAIN j /\ k = [x \in DOMAIN k |-> k[x]]
    BY <1>1, <2>1 DEF JobRec
  <2>3. k \in JobRec
    BY <1>1, <1>2, <2>2, IsJob
  <2>4. JobOK(w, k, hnd \cup ign, ign)
    BY <1>1, <1>5, <2>2 DEF JobOK
  <2>5. SetAside(w, k) = SetAside(w, j)
    BY <2>2 DEF SetAside
  <2>6. Fits(w, k, h, others, hnd, ref, ign)
    BY <2>2, <2>3, <2>4, <2>5 DEF Fits
  <2>7. QED
    BY <1>3, <2>6
<1>6. CASE cfg.strategy = "fallback" /\ Legs[j.leg] = "primary"
  <2>1. k = [j EXCEPT !.todo = {}, !.route[2] = @ \cup j.todo]
    BY <1>3, <1>6 DEF Exhausted
  <2>2. /\ k.todo = {} /\ k.batch = j.batch /\ k.nacked = j.nacked /\ k.leg = j.leg
        /\ k.bad = j.bad /\ k.tries = j.tries
        /\ DOMAIN k = DOMAIN j /\ k = [x \in DOMAIN k |-> k[x]]
    BY <1>1, <2>1 DEF JobRec
  <2>3. k.route = [j.route EXCEPT ![2] = @ \cup j.todo]
    BY <1>1, <2>1 DEF JobRec
  <2>4. /\ k.route \in [1..6 -> SUBSET Offsets] /\ k.route[2] = j.route[2] \cup j.todo
        /\ \A l \in 1..6 : l # 2 => k.route[l] = j.route[l]
    BY <1>2, <2>3
  <2>5. k \in JobRec
    BY <1>1, <1>2, <2>2, <2>4, IsJob
  <2>6. j.leg = 1
    BY <1>2, <1>6, LegFacts
  <2>7. JobOK(w, k, hnd \cup ign, ign)
    <3>1. IsFiniteSet(k.batch) /\ k.nacked \subseteq k.batch /\ k.todo \subseteq k.batch /\ \A l \in 1..6 : k.route[l] \subseteq k.batch
      BY <1>1, <2>2, <2>4 DEF JobOK
    <3>2. ASSUME ~k.bad, NEW o \in k.batch
          PROVE  \/ o \in hnd \cup ign \/ o \in k.nacked \/ o \in k.todo
                 \/ \E l \in 1..6 : l > k.leg /\ o \in k.route[l]
      <4>1. \/ o \in hnd \cup ign \/ o \in j.nacked \/ o \in j.todo
            \/ \E l \in 1..6 : l > j.leg /\ o \in j.route[l]
        BY <1>1, <2>2, <3>2 DEF JobOK
      <4>2. CASE o \in j.todo
        BY <4>2, <2>2, <2>4, <2>6
      <4>3. CASE \E l \in 1..6 : l > j.leg /\ o \in j.route[l]
        BY <4>3, <2>2, <2>4
      <4>4. QED
        BY <4>1, <4>2, <4>3, <2>2
    <3>3. k.leg # 4
      BY <2>2, <2>6
    <3>4. w = "bypass" => k.nacked \subseteq ign /\ \A o \in k.batch : Bypassed(o)
      BY <1>1, <2>2 DEF JobOK
    <3>5. QED
      BY <3>1, <3>2, <3>3, <3>4 DEF JobOK
  <2>8. SetAside(w, k) = SetAside(w, j)
    BY <2>2 DEF SetAside
  <2>9. Fits(w, k, h, others, hnd, ref, ign)
    BY <2>2, <2>5, <2>7, <2>8 DEF Fits
  <2>10. QED
    BY <1>3, <2>9
<1>7. QED
  <2>1. k = j \/ cfg.strategy = "drop" \/ (cfg.strategy = "fallback" /\ Legs[j.leg] = "primary")
    BY <1>3 DEF Exhausted
  <2>2. QED
    BY <2>1, <1>4, <1>5, <1>6

\* The end of a request, with or without failures.
LEMMA AnsweredWorks ==
    ASSUME IInv, NEW w \in Workers, AtActor(w), NEW j, NEW others, NEW hnd, NEW ref, NEW ign,
           Fits(w, j, handle, others, hnd, ref, ign), j.leg = job[w].leg, Answered(w, j)
    PROVE  Worked(w, others, hnd, ref, ign)
<1>1. PICK q : q = Released(SinkOf(j.leg))
  OBVIOUS
<1>2. Lines(w, Idle, q) /\ erring \in [Workers -> BOOLEAN] /\ cancelled \in BOOLEAN
  BY <1>1, FitsNow, Leaves
<1>3. \/ Fails(w, j, handle) /\ queue' = q
      \/ j.todo = {} /\ ~j.bad /\ Proceed(w, j, handle, q)
  BY <1>1 DEF Answered
<1>4. CASE Fails(w, j, handle) /\ queue' = q
  BY <1>2, <1>4, FailsWorks
<1>5. CASE j.todo = {} /\ ~j.bad /\ Proceed(w, j, handle, q)
  BY <1>2, <1>5, ProceedWorks
<1>6. QED
  BY <1>3, <1>4, <1>5

\* A round of answers, as Attempt has it, that makes j of the job.
Round(w, r, j, nacks, dropped) ==
    /\ odd + Odd(r) <= MaxOdd /\ odd' = odd + Odd(r)
    /\ handled' = handled \cup Settled(job[w], r) \cup dropped
    /\ refused' = refused \cup nacks
    /\ ignored' = IF w = "bypass" THEN ignored \cup nacks ELSE ignored
    /\ \/ j.todo = {} /\ Answered(w, j)
       \/ /\ j.todo # {} /\ GivesUp(j)
          /\ \E k \in {IF cancelled THEN j ELSE Exhausted(j)} : Answered(w, k)
       \/ /\ j.todo # {} /\ ~GivesUp(j)
          /\ job' = [job EXCEPT ![w] = [j EXCEPT !.tries = IF cfg.strategy = "retry" THEN 1 - @ ELSE @ + 1]]
          /\ UNCHANGED <<handle, cancelled, erring, queue>>
    /\ UNCHANGED <<cfg, root, src, srcVars, chan, bchan, wdone, faults>>

\* One call of a sink: settled messages are handled, the others stay in the job or are nacked.
LEMMA AttemptStep ==
    ASSUME IInv, NEW w \in Workers, AtActor(w), NEW r \in [job[w].todo -> Answers], Attempt(w, r)
    PROVE  IInv'
<1>a. \E j \in {Sorted(job[w], r)} :
      \E nacks \in {{o \in DOMAIN r : r[o] = "nack"}} :
      \E dropped \in {IF GivesUp(j) /\ ~cancelled /\ cfg.strategy = "drop" THEN j.todo ELSE {}} :
          Round(w, r, j, nacks, dropped)
  BY DEF Attempt, Round
<1>b. PICK j \in {Sorted(job[w], r)} :
      \E nacks \in {{o \in DOMAIN r : r[o] = "nack"}} :
      \E dropped \in {IF GivesUp(j) /\ ~cancelled /\ cfg.strategy = "drop" THEN j.todo ELSE {}} :
          Round(w, r, j, nacks, dropped)
  BY <1>a
<1>c. PICK nacks \in {{o \in DOMAIN r : r[o] = "nack"}} :
      \E dropped \in {IF GivesUp(j) /\ ~cancelled /\ cfg.strategy = "drop" THEN j.todo ELSE {}} :
          Round(w, r, j, nacks, dropped)
  BY <1>b
<1>d. PICK dropped \in {IF GivesUp(j) /\ ~cancelled /\ cfg.strategy = "drop" THEN j.todo ELSE {}} :
          Round(w, r, j, nacks, dropped)
  BY <1>c
<1>1. j = Sorted(job[w], r)
  BY <1>b
<1>2. nacks = {o \in DOMAIN r : r[o] = "nack"}
  BY <1>c
<1>3. dropped = IF GivesUp(j) /\ ~cancelled /\ cfg.strategy = "drop" THEN j.todo ELSE {}
  BY <1>d
<1>4. /\ odd + Odd(r) <= MaxOdd /\ odd' = odd + Odd(r)
      /\ handled' = handled \cup Settled(job[w], r) \cup dropped
      /\ refused' = refused \cup nacks
      /\ ignored' = IF w = "bypass" THEN ignored \cup nacks ELSE ignored
      /\ UNCHANGED <<cfg, root, src, srcVars, wdone>>
      /\ chan' = chan /\ bchan' = bchan /\ faults' = faults
  BY <1>d, Zenon DEF Round
<1>5. PICK i \in JobRec : i = job[w] /\ JobOK(w, i, handled \cup ignored, ignored) /\ i.leg \in 1..6
  BY FitsNow, Leaves DEF Fits
<1>6. /\ i.todo \in SUBSET Offsets /\ IsFiniteSet(i.todo) /\ nacks \in SUBSET Offsets
      /\ Settled(i, r) \in SUBSET Offsets
  <2>1. i.todo \subseteq i.batch /\ IsFiniteSet(i.batch) /\ i.todo \in SUBSET Offsets
    BY <1>5 DEF JobOK, JobRec
  <2>2. QED
    BY <2>1, <1>2, <1>5, FS_Subset DEF Settled
<1>7. j \in JobRec /\ j.leg = i.leg /\ j.todo \in SUBSET Offsets /\ j.tries \in Int
  BY <1>1, <1>5, SortedFacts DEF JobRec
<1>8. odd' \in 0..MaxOdd /\ faults' \in 0..MaxFaults
  <2>1. Odd(r) \in Nat
    <3>1. {o \in DOMAIN r : r[o] \notin {"ok", "fail"}} \subseteq i.todo
      BY <1>5
    <3>2. QED
      BY <3>1, <1>6, FS_Subset, FS_CardinalityType DEF Odd
  <2>2. odd \in 0..MaxOdd /\ faults \in 0..MaxFaults /\ MaxOdd \in Nat
    BY MonoVertexAssumption DEF IInv, Types
  <2>3. QED
    BY <2>1, <2>2, <1>4
<1>9. /\ handled' \in SUBSET Offsets /\ refused' \in SUBSET Offsets /\ ignored' \in SUBSET Offsets
      /\ handled \subseteq handled' /\ ignored \subseteq ignored'
      /\ handled \cup Settled(job[w], r) \subseteq handled'
  <2>1. handled \in SUBSET Offsets /\ refused \in SUBSET Offsets /\ ignored \in SUBSET Offsets
    BY DEF IInv, Types
  <2>2. dropped \in SUBSET Offsets
    BY <1>3, <1>7
  <2>3. QED
    BY <2>1, <2>2, <1>4, <1>5, <1>6
<1>10. PICK hnd, ref, ign : hnd = handled' /\ ref = refused' /\ ign = ignored'
  OBVIOUS
<1>11. Fits(w, j, handle, Others(w, chan, bchan), hnd, ref, ign)
  <2>1. /\ handled \cup Settled(job[w], r) \subseteq hnd /\ hnd \in SUBSET Offsets /\ ref = refused \cup nacks
        /\ ign = IF w = "bypass" THEN ignored \cup nacks ELSE ignored
    BY <1>4, <1>9, <1>10
  <2>2. QED
    BY <1>1, <1>2, <2>1, SortedFits
<1>12. Worked(w, Others(w, chan, bchan), hnd, ref, ign)
  <2>1. CASE j.todo = {} /\ Answered(w, j)
    BY <1>5, <1>7, <1>11, <2>1, AnsweredWorks
  <2>2. CASE /\ j.todo # {} /\ GivesUp(j)
             /\ \E k \in {IF cancelled THEN j ELSE Exhausted(j)} : Answered(w, k)
    <3>1. CASE cancelled
      BY <1>5, <1>7, <1>11, <2>2, <3>1, AnsweredWorks
    <3>2. CASE ~cancelled
      <4>1. Answered(w, Exhausted(j))
        BY <2>2, <3>2
      <4>2. cfg.strategy = "drop" => j.todo \subseteq hnd
        BY <1>3, <1>4, <1>10, <2>2, <3>2
      <4>3. j.leg # 0
        BY <1>5, <1>7
      <4>4. Fits(w, Exhausted(j), handle, Others(w, chan, bchan), hnd, ref, ign)
        BY <1>11, <4>2, <4>3, ExhaustedFits
      <4>5. Exhausted(j).leg = j.leg
        BY <1>7 DEF Exhausted, JobRec
      <4>6. QED
        BY <1>5, <1>7, <4>1, <4>4, <4>5, AnsweredWorks
    <3>3. QED
      BY <3>1, <3>2
  <2>3. CASE /\ j.todo # {} /\ ~GivesUp(j)
             /\ job' = [job EXCEPT ![w] = [j EXCEPT !.tries = IF cfg.strategy = "retry" THEN 1 - @ ELSE @ + 1]]
             /\ UNCHANGED <<handle, cancelled, erring, queue>>
    <3>1. PICK k : k = [j EXCEPT !.tries = IF cfg.strategy = "retry" THEN 1 - @ ELSE @ + 1]
      OBVIOUS
    <3>2. /\ k.todo = j.todo /\ k.batch = j.batch /\ k.nacked = j.nacked /\ k.leg = j.leg
          /\ k.route = j.route /\ k.bad = j.bad
      BY <1>7, <3>1 DEF JobRec
    <3>3. k.tries \in Int /\ DOMAIN k = DOMAIN j /\ k = [x \in DOMAIN k |-> k[x]]
      BY <1>7, <3>1 DEF JobRec
    <3>4. /\ j.batch \in SUBSET Offsets /\ j.leg \in 0..6
          /\ j.route \in [1..6 -> SUBSET Offsets] /\ j.nacked \in SUBSET Offsets /\ j.bad \in BOOLEAN
      BY <1>7 DEF JobRec
    <3>5. k \in JobRec
      BY <1>7, <3>2, <3>3, <3>4, IsJob
    <3>6. JobOK(w, k, hnd \cup ign, ign)
      BY <1>11, <3>2 DEF Fits, JobOK
    <3>7. SetAside(w, k) = SetAside(w, j)
      BY <3>2 DEF SetAside
    <3>8. Fits(w, k, handle', Others(w, chan, bchan), hnd, ref, ign)
      BY <1>11, <2>3, <3>2, <3>5, <3>6, <3>7 DEF Fits
    <3>9. Lines(w, k, queue')
      BY <2>3, <3>2, <1>5, <1>7, FitsNow DEF Lines, At
    <3>10. cancelled' \in BOOLEAN /\ erring' \in [Workers -> BOOLEAN]
      BY <2>3, FitsNow
    <3>11. job' = [job EXCEPT ![w] = k]
      BY <2>3, <3>1
    <3>12. QED
      BY <3>5, <3>8, <3>9, <3>10, <3>11 DEF Worked
  <2>4. QED
    BY <1>d, <2>1, <2>2, <2>3, Zenon DEF Round
<1>13. Worked(w, Others(w, chan', bchan'), handled', refused', ignored')
  BY <1>4, <1>10, <1>12
<1>14. QED
  BY <1>4, <1>8, <1>9, <1>13, ChannelsStay, WorkDone

\* A sequence has finitely many values.
LEMMA FiniteRange ==
    ASSUME NEW X, NEW s \in Seq(X)
    PROVE  IsFiniteSet(ToSet(s)) /\ ToSet(s) \subseteq X
<1>1. Len(s) \in Nat /\ DOMAIN s = 1..Len(s) /\ s \in [1..Len(s) -> ToSet(s)]
  BY DEF ToSet
<1>2. s \in Surjection(1..Len(s), ToSet(s))
  BY <1>1 DEF Surjection, ToSet
<1>3. IsFiniteSet(1..Len(s))
  BY <1>1, FS_Interval
<1>4. QED
  BY <1>2, <1>3, FS_Surjection DEF ToSet

\* A worker takes the set S of messages out of its channel.
TakesOut(w, S) ==
    /\ S \in SUBSET Offsets /\ IsFiniteSet(S) /\ S \subseteq ToSet(Channel(w))
    /\ chan' \in Seq(Offsets) /\ bchan' \in Seq(Offsets) /\ Inj(chan') /\ Inj(bchan')
    /\ ToSet(chan') \subseteq ToSet(chan) /\ ToSet(bchan') \subseteq ToSet(bchan)
    /\ Open(handle) = Others(w, chan', bchan') \cup S /\ Others(w, chan', bchan') \cap S = {}

\* The chunk leaves the channel of the worker, and nothing else does.
LEMMA ChunkTaken ==
    ASSUME IInv, NEW w \in Workers, Take(w)
    PROVE  TakesOut(w, ToSet(Chunk(w)))
<1> DEFINE c == Channel(w)
           n == Min({BatchSize, Len(c)})
           S == ToSet(Chunk(w))
           rest == SubSeq(c, n + 1, Len(c))
<1>1. /\ chan \in Seq(Offsets) /\ bchan \in Seq(Offsets) /\ Inj(chan) /\ Inj(bchan)
      /\ job["writer"] \in JobRec /\ job["bypass"] \in JobRec
      /\ Splits(Open(handle), ToSet(out), ToSet(chan), ToSet(bchan), job["writer"].batch, job["bypass"].batch)
  BY DEF IInv, Types, HoldInv, Workers
<1>2. c \in Seq(Offsets) /\ Inj(c) /\ Len(c) \in Nat
  BY <1>1 DEF Channel
<1>3. n \in 0..Len(c)
  BY <1>2, MinPair, MonoVertexAssumption
<1>4. /\ Chunk(w) \in Seq(Offsets) /\ Len(Chunk(w)) = n /\ rest \in Seq(Offsets) /\ Inj(rest)
      /\ ToSet(c) = S \cup ToSet(rest) /\ S \cap ToSet(rest) = {}
  <2>1. Chunk(w) = SubSeq(c, 1, n)
    BY DEF Chunk
  <2> HIDE DEF c, n
  <2>2. QED
    BY <1>2, <1>3, <2>1, SplitFacts
<1>5. S \in SUBSET Offsets /\ IsFiniteSet(S) /\ S \subseteq ToSet(c)
  BY <1>4, FiniteRange
<1>6. job[w] = Idle /\ job[w].batch = {}
  BY IdleFacts DEF Take
<1>7. CASE w = "writer"
  <2>1. chan' = rest /\ bchan' = bchan /\ c = chan
    BY <1>4, <1>7 DEF Take, Channel
  <2> HIDE DEF c, n, S, rest
  <2>2. Others(w, chan', bchan') = ToSet(out) \cup ToSet(rest) \cup ToSet(bchan) \cup job["bypass"].batch
    BY <1>7, <2>1 DEF Others, Other
  <2>3. job["writer"].batch = {}
    BY <1>6, <1>7
  <2>4. Open(handle) = Others(w, chan', bchan') \cup S /\ Others(w, chan', bchan') \cap S = {}
    BY <1>1, <1>4, <2>1, <2>2, <2>3 DEF Splits
  <2>5. QED
    BY <1>1, <1>4, <1>5, <2>1, <2>4 DEF TakesOut, c, S
<1>8. CASE w = "bypass"
  <2>1. bchan' = rest /\ chan' = chan /\ c = bchan
    BY <1>4, <1>8 DEF Take, Channel
  <2> HIDE DEF c, n, S, rest
  <2>2. Others(w, chan', bchan') = ToSet(out) \cup ToSet(chan) \cup ToSet(rest) \cup job["writer"].batch
    BY <1>8, <2>1 DEF Others, Other
  <2>3. job["bypass"].batch = {}
    BY <1>6, <1>8
  <2>4. Open(handle) = Others(w, chan', bchan') \cup S /\ Others(w, chan', bchan') \cap S = {}
    BY <1>1, <1>4, <2>1, <2>2, <2>3 DEF Splits
  <2>5. QED
    BY <1>1, <1>4, <1>5, <2>1, <2>4 DEF TakesOut, c, S
<1>9. QED
  BY <1>7, <1>8 DEF Workers

\* What is known when a worker takes S.
LEMMA TakeFacts ==
    ASSUME IInv, NEW w \in Workers, Take(w), NEW S, S = ToSet(Chunk(w))
    PROVE  /\ TakesOut(w, S) /\ Lines(w, Idle, queue) /\ job[w] = Idle
           /\ handle \in [Offsets -> Statuses]
           /\ \A o \in Offsets : handle[o] # "none" <=> o \in tracker
           /\ \A o \in Offsets : handle[o] = "ok" => o \in handled \cup ignored
           /\ \A o \in S : handle[o] = "open"
           /\ erring \in [Workers -> BOOLEAN] /\ cancelled \in BOOLEAN
           /\ handled \in SUBSET Offsets /\ refused \in SUBSET Offsets /\ ignored \in SUBSET Offsets
           /\ NackOK(handle, refused, SetAside(w, Idle))
           /\ w = "bypass" => \A o \in S : Bypassed(o)
<1>1. TakesOut(w, S)
  BY ChunkTaken
<1>2. job[w] = Idle
  BY DEF Take
<1>3. Fits(w, Idle, handle, Others(w, chan, bchan), handled, refused, ignored) /\ Lines(w, Idle, queue)
  BY <1>2, FitsNow
<1>4. \A o \in S : handle[o] = "open"
  BY <1>1 DEF TakesOut, Open
<1>5. w = "bypass" => \A o \in S : Bypassed(o)
  BY <1>1 DEF TakesOut, Channel, IInv, JobInv
<1>6. /\ erring \in [Workers -> BOOLEAN] /\ cancelled \in BOOLEAN
      /\ handled \in SUBSET Offsets /\ refused \in SUBSET Offsets /\ ignored \in SUBSET Offsets
  BY DEF IInv, Types
<1>7. QED
  BY <1>1, <1>2, <1>3, <1>4, <1>5, <1>6 DEF Fits

\* A worker that failed before nacks what it takes.
LEMMA NackAllWorks ==
    ASSUME IInv, NEW w \in Workers, Take(w), NEW S, S = ToSet(Chunk(w)),
           Resolve(w, handle, {}, S), UNCHANGED <<cancelled, erring, queue>>
    PROVE  Worked(w, Others(w, chan', bchan'), handled, refused, ignored)
<1>1. PICK j : j = [Idle EXCEPT !.batch = S, !.bad = TRUE]
  OBVIOUS
<1>2. S \in SUBSET Offsets /\ IsFiniteSet(S)
  BY TakeFacts DEF TakesOut
<1>3. /\ j.batch = S /\ j.leg = 0 /\ j.todo = {} /\ j.nacked = {} /\ j.tries = Idle.tries
      /\ j.route = Idle.route /\ DOMAIN j = DOMAIN Idle /\ j = [x \in DOMAIN j |-> j[x]]
  BY <1>1 DEF Idle
<1>4. j.bad = TRUE
  BY <1>1 DEF Idle
<1>5. j \in JobRec
  <2>1. Idle.tries \in Int /\ Idle.route \in [1..6 -> SUBSET Offsets]
    BY IdleFacts DEF JobRec
  <2>2. j.bad \in BOOLEAN
    BY <1>4
  <2>3. QED
    BY <1>2, <1>3, <2>1, <2>2, IdleFacts, IsJob
<1>6. JobOK(w, j, handled \cup ignored, ignored)
  <2>1. \A l \in 1..6 : j.route[l] = {}
    BY <1>3, IdleFacts
  <2>2. w = "bypass" => \A o \in S : Bypassed(o)
    BY TakeFacts
  <2>3. QED
    BY <1>2, <1>3, <1>4, <2>1, <2>2 DEF JobOK
<1>7. Fits(w, j, handle, Others(w, chan', bchan'), handled, refused, ignored)
  <2>1. SetAside(w, j) = SetAside(w, Idle)
    BY <1>3, IdleFacts DEF SetAside
  <2>2. /\ Open(handle) = Others(w, chan', bchan') \cup j.batch
        /\ Others(w, chan', bchan') \cap j.batch = {}
    BY <1>3, TakeFacts DEF TakesOut
  <2>3. QED
    BY <1>5, <1>6, <2>1, <2>2, TakeFacts DEF Fits
<1>8. PICK others : others = Others(w, chan', bchan')
  OBVIOUS
<1>9. Worked(w, others, handled, refused, ignored)
  <2>1. Lines(w, Idle, queue) /\ cancelled' \in BOOLEAN /\ erring' \in [Workers -> BOOLEAN]
    BY TakeFacts
  <2>2. queue' = queue
    OBVIOUS
  <2>3. Fits(w, j, handle, others, handled, refused, ignored)
    BY <1>7, <1>8
  <2>4. {} \cup S = j.batch /\ {} \subseteq handled \cup ignored /\ {} \cap j.nacked = {}
    BY <1>3
  <2>5. QED
    BY <2>1, <2>2, <2>3, <2>4, ResolveWorks
<1>10. QED
  BY <1>8, <1>9

\* The job the writer starts with a chunk accounts for every message of it.
LEMMA WriterTakesWorks ==
    ASSUME IInv, Take("writer"), NEW S, S = ToSet(Chunk("writer")), WriterTakes(S)
    PROVE  /\ Worked("writer", Others("writer", chan', bchan'), handled', refused', ignored)
           /\ handled \subseteq handled' /\ handled' \in SUBSET Offsets /\ refused' \in SUBSET Offsets
<1>1. PICK nacked : nacked = Marked(S, "nack")
  OBVIOUS
<1>2. PICK skipped : skipped = IF cfg.bypassSink THEN S \ nacked ELSE Marked(S, "drop")
  OBVIOUS
<1>3. PICK j : j = [Idle EXCEPT !.batch = S, !.nacked = nacked, !.route[1] = S \ (nacked \cup skipped)]
  OBVIOUS
<1>4. handled' = handled \cup skipped /\ refused' = refused \cup nacked /\ Proceed("writer", j, handle, queue)
  <2>1. \E n \in {Marked(S, "nack")} :
        \E k \in {IF cfg.bypassSink THEN S \ n ELSE Marked(S, "drop")} :
        \E i \in {[Idle EXCEPT !.batch = S, !.nacked = n, !.route[1] = S \ (n \cup k)]} :
            /\ handled' = handled \cup k
            /\ refused' = refused \cup n
            /\ Proceed("writer", i, handle, queue)
    BY DEF WriterTakes
  <2>2. \E k \in {skipped} :
        \E i \in {[Idle EXCEPT !.batch = S, !.nacked = nacked, !.route[1] = S \ (nacked \cup k)]} :
            /\ handled' = handled \cup k
            /\ refused' = refused \cup nacked
            /\ Proceed("writer", i, handle, queue)
    BY <1>1, <1>2, <2>1
  <2>3. \E i \in {j} :
            /\ handled' = handled \cup skipped
            /\ refused' = refused \cup nacked
            /\ Proceed("writer", i, handle, queue)
    BY <1>3, <2>2
  <2>4. QED
    BY <2>3
<1>5. S \in SUBSET Offsets /\ IsFiniteSet(S) /\ nacked \subseteq S /\ skipped \subseteq S
  BY <1>1, <1>2, TakeFacts DEF TakesOut, Workers, Marked
<1>6. /\ j.batch = S /\ j.leg = 0 /\ j.todo = {} /\ j.nacked = nacked /\ j.tries = Idle.tries
      /\ j.bad = Idle.bad /\ DOMAIN j = DOMAIN Idle /\ j = [x \in DOMAIN j |-> j[x]]
  BY <1>3 DEF Idle
<1>7. j.route = [Idle.route EXCEPT ![1] = S \ (nacked \cup skipped)]
  BY <1>3 DEF Idle
<1>8. Idle.route \in [1..6 -> SUBSET Offsets] /\ Idle.tries \in Int /\ Idle.bad \in BOOLEAN
  BY IdleFacts DEF JobRec
<1>9. /\ j.route \in [1..6 -> SUBSET Offsets] /\ j.route[1] = S \ (nacked \cup skipped)
      /\ \A l \in 1..6 : l # 1 => j.route[l] = {}
  BY <1>5, <1>7, <1>8, IdleFacts
<1>10. j \in JobRec
  BY <1>5, <1>6, <1>8, <1>9, IdleFacts, IsJob
<1>11. JobOK("writer", j, handled' \cup ignored, ignored)
  <2>1. \A l \in 1..6 : j.route[l] \subseteq j.batch
    BY <1>6, <1>9
  <2>2. \A o \in j.batch : o \in handled' \cup ignored \/ o \in j.nacked \/ (1 > j.leg /\ o \in j.route[1])
    BY <1>4, <1>6, <1>9
  <2>3. QED
    BY <1>5, <1>6, <2>1, <2>2 DEF JobOK
<1>12. PICK others, hnd, ref : others = Others("writer", chan', bchan') /\ hnd = handled' /\ ref = refused'
  OBVIOUS
<1>13. "writer" \in Workers
  BY DEF Workers
<1>14. Fits("writer", j, handle, others, hnd, ref, ignored)
  <2>1. Open(handle) = others \cup j.batch /\ others \cap j.batch = {}
    BY <1>6, <1>12, <1>13, TakeFacts DEF TakesOut
  <2>2. NackOK(handle, ref, SetAside("writer", j))
    <3>1. NackOK(handle, refused, {})
      BY <1>13, TakeFacts, IdleFacts DEF SetAside
    <3>2. SetAside("writer", j) = nacked /\ ref = refused \cup nacked
      BY <1>4, <1>6, <1>12 DEF SetAside
    <3>3. QED
      BY <3>1, <3>2 DEF NackOK
  <2>3. \A o \in Offsets : handle[o] = "ok" => o \in hnd \cup ignored
    BY <1>4, <1>12, <1>13, TakeFacts
  <2>4. JobOK("writer", j, hnd \cup ignored, ignored)
    BY <1>11, <1>12
  <2>5. QED
    BY <1>10, <1>13, <2>1, <2>2, <2>3, <2>4, TakeFacts DEF Fits
<1>15. ~j.bad
  BY <1>6, IdleFacts
<1>16. Worked("writer", others, hnd, ref, ignored)
  BY <1>4, <1>6, <1>13, <1>14, <1>15, TakeFacts, ProceedWorks
<1>17. handled \in SUBSET Offsets /\ refused \in SUBSET Offsets
  BY <1>13, TakeFacts
<1>18. QED
  BY <1>4, <1>5, <1>12, <1>16, <1>17

\* The job the bypass receiver starts accounts for every message that is not dropped at once.
LEMMA BypassTakesWorks ==
    ASSUME IInv, Take("bypass"), NEW S, S = ToSet(Chunk("bypass")), BypassTakes(S)
    PROVE  /\ Worked("bypass", Others("bypass", chan', bchan'), handled', refused', ignored)
           /\ handled \subseteq handled' /\ handled' \in SUBSET Offsets /\ refused' \in SUBSET Offsets
<1>1. PICK dropped : dropped = Marked(S, "drop")
  OBVIOUS
<1>2. PICK rest : rest = S \ dropped
  OBVIOUS
<1>3. PICK j : j = [Idle EXCEPT !.batch = rest, !.route[1] = ToSink(rest, "primary"),
                                !.route[5] = ToSink(rest, "fallback"),
                                !.route[6] = ToSink(rest, "onSuccess")]
  OBVIOUS
<1>4. PICK h : h = Marking(handle, dropped, {})
  OBVIOUS
<1>5. /\ handled' = handled \cup dropped /\ refused' = refused \cup Marked(S, "nack")
      /\ Proceed("bypass", j, h, queue)
  <2>1. \E d \in {Marked(S, "drop")} :
        \E e \in {S \ d} :
        \E i \in {[Idle EXCEPT !.batch = e, !.route[1] = ToSink(e, "primary"),
                               !.route[5] = ToSink(e, "fallback"),
                               !.route[6] = ToSink(e, "onSuccess")]} :
        \E g \in {Marking(handle, d, {})} :
            /\ handled' = handled \cup d
            /\ refused' = refused \cup Marked(S, "nack")
            /\ Proceed("bypass", i, g, queue)
    BY DEF BypassTakes
  <2>2. \E e \in {rest} :
        \E i \in {[Idle EXCEPT !.batch = e, !.route[1] = ToSink(e, "primary"),
                               !.route[5] = ToSink(e, "fallback"),
                               !.route[6] = ToSink(e, "onSuccess")]} :
        \E g \in {Marking(handle, dropped, {})} :
            /\ handled' = handled \cup dropped
            /\ refused' = refused \cup Marked(S, "nack")
            /\ Proceed("bypass", i, g, queue)
    BY <1>1, <1>2, <2>1
  <2>3. \E i \in {j} : \E g \in {h} :
            /\ handled' = handled \cup dropped
            /\ refused' = refused \cup Marked(S, "nack")
            /\ Proceed("bypass", i, g, queue)
    BY <1>3, <1>4, <2>2
  <2>4. QED
    BY <2>3
<1>6. "bypass" \in Workers
  BY DEF Workers
<1>7. /\ S \in SUBSET Offsets /\ dropped \subseteq S /\ rest \subseteq S /\ IsFiniteSet(rest)
      /\ Marked(S, "nack") \subseteq S
  <2>1. S \in SUBSET Offsets /\ IsFiniteSet(S)
    BY <1>6, TakeFacts DEF TakesOut
  <2>2. QED
    BY <1>1, <1>2, <2>1, FS_Subset DEF Marked
<1>8. \A d : ToSink(rest, d) \subseteq rest
  BY DEF ToSink
<1>9. /\ j.batch = rest /\ j.leg = 0 /\ j.todo = {} /\ j.nacked = {} /\ j.tries = Idle.tries
      /\ j.bad = Idle.bad /\ DOMAIN j = DOMAIN Idle /\ j = [x \in DOMAIN j |-> j[x]]
  BY <1>3 DEF Idle
<1>10. Idle.route \in [1..6 -> SUBSET Offsets] /\ Idle.tries \in Int /\ Idle.bad \in BOOLEAN
  BY IdleFacts DEF JobRec
<1>11. /\ j.route \in [1..6 -> SUBSET Offsets]
       /\ j.route[1] = ToSink(rest, "primary") /\ j.route[5] = ToSink(rest, "fallback")
       /\ j.route[6] = ToSink(rest, "onSuccess")
       /\ \A l \in 1..6 : j.route[l] \subseteq rest
  <2>1. PICK a, b, c : a = ToSink(rest, "primary") /\ b = ToSink(rest, "fallback") /\ c = ToSink(rest, "onSuccess")
    OBVIOUS
  <2>2. j.route = [[[Idle.route EXCEPT ![1] = a] EXCEPT ![5] = b] EXCEPT ![6] = c]
    BY <1>3, <2>1 DEF Idle
  <2>3. a \in SUBSET Offsets /\ b \in SUBSET Offsets /\ c \in SUBSET Offsets
    BY <1>7, <1>8, <2>1
  <2>4. j.route \in [1..6 -> SUBSET Offsets] /\ j.route[1] = a /\ j.route[5] = b /\ j.route[6] = c
    BY <1>10, <2>2, <2>3
  <2>5. \A l \in 1..6 : l # 1 /\ l # 5 /\ l # 6 => j.route[l] = {}
    BY <1>10, <2>2, IdleFacts
  <2>6. QED
    BY <1>8, <2>1, <2>4, <2>5
<1>12. j \in JobRec
  BY <1>7, <1>9, <1>10, <1>11, IdleFacts, IsJob
<1>13. JobOK("bypass", j, handled' \cup ignored, ignored)
  <2>1. \A o \in rest : Bypassed(o)
    BY <1>6, <1>7, TakeFacts
  <2>2. \A o \in rest : cfg.tag[o].dest \in {"primary", "fallback", "onSuccess"}
    BY <2>1 DEF Bypassed
  <2>3. \A o \in rest : o \in j.route[1] \/ o \in j.route[5] \/ o \in j.route[6]
    BY <1>11, <2>2 DEF ToSink
  <2>4. \A o \in j.batch : \E l \in 1..6 : l > j.leg /\ o \in j.route[l]
    BY <1>9, <2>3
  <2>5. QED
    BY <1>7, <1>9, <1>11, <2>1, <2>4 DEF JobOK
<1>14. PICK others, hnd, ref : others = Others("bypass", chan', bchan') /\ hnd = handled' /\ ref = refused'
  OBVIOUS
<1>15. /\ handle \in [Offsets -> Statuses] /\ \A o \in S : handle[o] = "open" /\ Bypassed(o)
       /\ \A o \in Offsets : handle[o] # "none" <=> o \in tracker
       /\ \A o \in Offsets : handle[o] = "ok" => o \in handled \cup ignored
       /\ Open(handle) = others \cup S /\ others \cap S = {}
       /\ NackOK(handle, refused, job["writer"].nacked)
  BY <1>6, <1>14, TakeFacts DEF TakesOut, SetAside
<1>16. /\ h \in [Offsets -> Statuses]
       /\ \A o \in Offsets : h[o] = IF o \in dropped THEN "ok" ELSE handle[o]
  BY <1>4, <1>15 DEF Marking, Statuses
<1>17. Fits("bypass", j, h, others, hnd, ref, ignored)
  <2>1. Open(h) = others \cup j.batch /\ others \cap j.batch = {}
    BY <1>2, <1>7, <1>9, <1>15, <1>16 DEF Open
  <2>2. \A o \in Offsets : h[o] # "none" <=> o \in tracker
    BY <1>7, <1>15, <1>16
  <2>3. \A o \in Offsets : h[o] = "ok" => o \in hnd \cup ignored
    BY <1>5, <1>14, <1>15, <1>16
  <2>4. NackOK(h, ref, SetAside("bypass", j))
    <3>1. SetAside("bypass", j) = job["writer"].nacked /\ ref = refused \cup Marked(S, "nack")
      BY <1>5, <1>14 DEF SetAside
    <3>2. QED
      BY <3>1, <1>7, <1>15, <1>16 DEF NackOK
  <2>5. JobOK("bypass", j, hnd \cup ignored, ignored)
    BY <1>13, <1>14
  <2>6. QED
    BY <1>12, <1>16, <2>1, <2>2, <2>3, <2>4, <2>5 DEF Fits
<1>18. ~j.bad
  BY <1>9, IdleFacts
<1>19. Worked("bypass", others, hnd, ref, ignored)
  BY <1>5, <1>6, <1>9, <1>17, <1>18, TakeFacts, ProceedWorks
<1>20. handled \in SUBSET Offsets /\ refused \in SUBSET Offsets
  BY <1>6, TakeFacts
<1>21. QED
  BY <1>5, <1>7, <1>14, <1>19, <1>20

\* A worker takes a chunk from its channel.
LEMMA TakeStep ==
    ASSUME IInv, NEW w \in Workers, Take(w)
    PROVE  IInv'
<1>1. PICK S : S = ToSet(Chunk(w))
  OBVIOUS
<1>2. /\ \/ /\ Resolve(w, handle, {}, S)
            /\ UNCHANGED <<cancelled, erring, queue, handled, refused>>
         \/ w = "writer" /\ WriterTakes(S)
         \/ w = "bypass" /\ BypassTakes(S)
      /\ UNCHANGED <<cfg, root, src, srcVars, wdone>> /\ ignored' = ignored /\ odd' = odd /\ faults' = faults
  BY <1>1 DEF Take, env
<1>3. /\ Worked(w, Others(w, chan', bchan'), handled', refused', ignored)
      /\ handled \subseteq handled' /\ handled' \in SUBSET Offsets /\ refused' \in SUBSET Offsets
  <2>1. CASE /\ Resolve(w, handle, {}, S)
             /\ UNCHANGED <<cancelled, erring, queue, handled, refused>>
    <3>1. handled' = handled /\ refused' = refused /\ UNCHANGED <<cancelled, erring, queue>>
      BY <2>1
    <3>2. Worked(w, Others(w, chan', bchan'), handled, refused, ignored)
      BY <1>1, <2>1, <3>1, NackAllWorks
    <3>3. handled \in SUBSET Offsets /\ refused \in SUBSET Offsets
      BY DEF IInv, Types
    <3>4. QED
      BY <3>1, <3>2, <3>3
  <2>2. CASE w = "writer" /\ WriterTakes(S)
    BY <1>1, <2>2, WriterTakesWorks
  <2>3. CASE w = "bypass" /\ BypassTakes(S)
    BY <1>1, <2>3, BypassTakesWorks
  <2>4. QED
    BY <1>2, <2>1, <2>2, <2>3
<1>4. /\ odd' \in 0..MaxOdd /\ faults' \in 0..MaxFaults /\ ignored' \in SUBSET Offsets
      /\ ignored \subseteq ignored' /\ Worked(w, Others(w, chan', bchan'), handled', refused', ignored')
  BY <1>2, <1>3 DEF IInv, Types
<1>5. /\ chan' \in Seq(Offsets) /\ bchan' \in Seq(Offsets) /\ Inj(chan') /\ Inj(bchan')
      /\ ToSet(chan') \subseteq ToSet(chan) /\ ToSet(bchan') \subseteq ToSet(bchan)
  BY ChunkTaken DEF TakesOut
<1>6. QED
  BY <1>2, <1>3, <1>4, <1>5, WorkDone

(***************************************************************************)
(* The steps that move no handle.                                          *)
(***************************************************************************)

\* A step that moves no handle and no message, and acks at the source only what was handled.
LEMMA QuietStep ==
    ASSUME IInv, Types',
           UNCHANGED <<cfg, out, handle, chan, bchan, job, queue, tracker, handled, refused, ignored>>,
           spc' \notin {"transform", "dispatch"} => out = <<>>,
           spc' = "done" => \A s \in Slots : task'[s] = NoTask,
           \A s \in Slots : /\ task'[s].wait = task[s].wait /\ task'[s].acks \subseteq task[s].acks
                            /\ task[s] = NoTask => task'[s] = NoTask,
           \A o \in Offsets : src'[o] = "acked" => src[o] = "acked" \/ o \in handled \cup ignored
    PROVE  IInv'
<1>1. /\ cfg' = cfg /\ out' = out /\ handle' = handle /\ chan' = chan /\ bchan' = bchan /\ job' = job
      /\ queue' = queue /\ tracker' = tracker /\ handled' = handled /\ refused' = refused /\ ignored' = ignored
  OBVIOUS
<1>2. HoldInv'
  BY <1>1 DEF IInv, HoldInv, Open
<1>3. WaitInv'
  <2>1. WaitInv
    BY DEF IInv
  <2>2. Permits' = Permits
    BY <1>1 DEF Permits
  <2>3. \A s \in Slots : Inj(task'[s].wait)
    BY <2>1 DEF WaitInv
  <2>4. \A s, t \in Slots : s # t => ToSet(task'[s].wait) \cap ToSet(task'[t].wait) = {}
    BY <2>1 DEF WaitInv
  <2>5. UNION {ToSet(task'[s].wait) : s \in Slots} = UNION {ToSet(task[s].wait) : s \in Slots}
    OBVIOUS
  <2>6. \A s \in Slots : s \notin 1..Permits => task'[s] = NoTask
    BY <2>1 DEF WaitInv
  <2>7. QED
    BY <1>1, <2>1, <2>2, <2>3, <2>4, <2>5, <2>6 DEF WaitInv
<1>4. JobInv'
  BY <1>1 DEF IInv, JobInv, JobOK, Bypassed
<1>5. AckInv'
  BY <1>1 DEF IInv, AckInv
<1>6. NackInv'
  BY <1>1 DEF IInv, NackInv, NackOK, Bypassed
<1>7. QueueInv'
  BY <1>1 DEF IInv, QueueInv, At
<1>8. QED
  BY <1>2, <1>3, <1>4, <1>5, <1>6, <1>7 DEF IInv

\* The steps of the source task that only move its program counter.
LEMMA SourceQuiet ==
    ASSUME IInv, \/ SourceCheck \/ SourceReadFails \/ SourceReadEmpty \/ StreamBatchEnds \/ SourceStops
    PROVE  IInv'
<1>1. /\ UNCHANGED <<cfg, root, src, cancelled, out, handle, chan, bchan, job, queue, tracker, handled, refused, ignored>>
      /\ UNCHANGED <<task, erring, wdone, odd>>
  BY DEF SourceCheck, SourceReadFails, SourceReadEmpty, StreamBatchEnds, SourceStops, env, sinkVars
<1>2. /\ spc \notin {"transform", "dispatch"} /\ spc' \in Places
      /\ spc' = "done" => FreeSlots = 1..Permits
  BY DEF SourceCheck, SourceReadFails, SourceReadEmpty, StreamBatchEnds, SourceStops, Places
<1>3. got' \in Seq(Offsets) /\ faults' \in 0..MaxFaults
  <2>1. got \in Seq(Offsets) /\ faults \in 0..MaxFaults /\ MaxFaults \in Nat
    BY MonoVertexAssumption DEF IInv, Types
  <2>2. got' = got \/ got' = <<>>
    BY DEF SourceCheck, SourceReadFails, SourceReadEmpty, StreamBatchEnds, SourceStops
  <2>3. faults' = faults \/ (faults < MaxFaults /\ faults' = faults + 1)
    BY DEF SourceCheck, SourceReadFails, SourceReadEmpty, StreamBatchEnds, SourceStops
  <2>4. faults' \in 0..MaxFaults
    BY <2>1, <2>3
  <2>5. got' \in Seq(Offsets)
    BY <2>1, <2>2, EmptySeq
  <2>6. QED
    BY <2>4, <2>5
<1>4. failed' \in BOOLEAN
  BY DEF SourceCheck, SourceReadFails, SourceReadEmpty, StreamBatchEnds, SourceStops, IInv, Types
<1>5. Types'
  BY <1>1, <1>2, <1>3, <1>4 DEF IInv, Types
<1>6. out = <<>>
  BY <1>2 DEF IInv, HoldInv
<1>7. spc' = "done" => \A s \in Slots : task'[s] = NoTask
  BY <1>1, <1>2 DEF FreeSlots, IInv, WaitInv
<1>8. QED
  BY <1>1, <1>5, <1>6, <1>7, QuietStep

\* A read in streaming mode: nothing is admitted yet.
LEMMA StreamReads ==
    ASSUME IInv, SourceRead, cfg.mode = "streaming"
    PROVE  IInv'
<1>1. PICK S \in SUBSET {o \in Offsets : src[o] = "ready"} :
         /\ IsFiniteSet(S) /\ src' = [o \in Offsets |-> IF o \in S THEN "delivered" ELSE src[o]]
         /\ got' = SetToSeq(S) /\ spc' = "admit" /\ UNCHANGED <<out, tracker, task, handle, refused>>
  BY DEF SourceRead
<1>2. UNCHANGED <<cfg, root, cancelled, failed, chan, bchan, job, erring, wdone, queue, odd, faults, handled, ignored>>
  BY DEF SourceRead, env, sinkVars
<1>3. spc = "read" /\ out = <<>>
  BY DEF SourceRead, IInv, HoldInv
<1>4. got' \in Seq(Offsets)
  BY <1>1, SetToSeqFacts
<1>5. /\ src' \in [Offsets -> {"ready", "delivered", "acked"}]
      /\ \A o \in Offsets : src'[o] = "acked" => src[o] = "acked"
  BY <1>1 DEF IInv, Types
<1>6. Types'
  BY <1>1, <1>2, <1>4, <1>5 DEF IInv, Types, Places
<1>7. QED
  BY <1>1, <1>2, <1>3, <1>5, <1>6, QuietStep

\* The ends of an ack task: it waits for nothing any more.
LEMMA AckQuiet ==
    ASSUME IInv, NEW s \in Slots, \/ AckSent(s) \/ AckFails(s) \/ NackSent(s) \/ NackFails(s)
    PROVE  IInv'
<1>1. UNCHANGED <<cfg, root, spc, got, out, tracker, failed, handle, chan, bchan, job, erring, wdone, queue, odd,
                  handled, refused, ignored>>
  BY DEF AckSent, AckFails, NackSent, NackFails, env, sinkVars
<1>2. task \in [Slots -> TaskRec] /\ task[s] \in TaskRec /\ task[s].wait = <<>> /\ task[s] # NoTask
  BY DEF AckSent, AckFails, NackSent, NackFails, IInv, Types, NoTask
<1>3. PICK t : task' = [task EXCEPT ![s] = t] /\ (t = [task[s] EXCEPT !.acks = {}] \/ t = NoTask)
  <2>1. task' = [task EXCEPT ![s] = [task[s] EXCEPT !.acks = {}]] \/ task' = [task EXCEPT ![s] = NoTask]
    BY DEF AckSent, AckFails, NackSent, NackFails
  <2>2. QED
    BY <2>1
<1>4. t \in TaskRec /\ t.wait = <<>> /\ t.acks = {}
  <2>1. CASE t = [task[s] EXCEPT !.acks = {}]
    BY <1>2, <2>1 DEF TaskRec
  <2>2. CASE t = NoTask
    BY <2>2, EmptySeq DEF TaskRec, NoTask
  <2>3. QED
    BY <1>3, <2>1, <2>2
<1>6. task' \in [Slots -> TaskRec] /\ \A r \in Slots : task'[r] = IF r = s THEN t ELSE task[r]
  BY <1>2, <1>3, <1>4
<1>7. cancelled' \in BOOLEAN /\ faults' \in 0..MaxFaults
  <2>1. faults \in 0..MaxFaults /\ MaxFaults \in Nat
    BY MonoVertexAssumption DEF IInv, Types
  <2>2. faults' = faults \/ (faults < MaxFaults /\ faults' = faults + 1)
    BY DEF AckSent, AckFails, NackSent, NackFails
  <2>3. faults' \in 0..MaxFaults
    BY <2>1, <2>2
  <2>4. cancelled' = cancelled \/ cancelled' = TRUE
    BY DEF AckSent, AckFails, NackSent, NackFails
  <2>5. cancelled' \in BOOLEAN
    BY <2>4 DEF IInv, Types
  <2>6. QED
    BY <2>3, <2>5
<1>8. /\ src' \in [Offsets -> {"ready", "delivered", "acked"}]
      /\ \A o \in Offsets : src'[o] = "acked" => src[o] = "acked" \/ o \in task[s].acks
  BY DEF AckSent, AckFails, NackSent, NackFails, IInv, Types
<1>9. Types'
  BY <1>1, <1>6, <1>7, <1>8 DEF IInv, Types
<1>10. task[s].acks \subseteq handled \cup ignored
  BY DEF IInv, AckInv
<1>11. spc # "done"
  BY <1>2 DEF IInv, WaitInv
<1>12. \A r \in Slots : /\ task'[r].wait = task[r].wait /\ task'[r].acks \subseteq task[r].acks
                        /\ task[r] = NoTask => task'[r] = NoTask
  BY <1>2, <1>4, <1>6
<1>13. spc \notin {"transform", "dispatch"} => out = <<>>
  BY DEF IInv, HoldInv
<1>14. \A o \in Offsets : src'[o] = "acked" => src[o] = "acked" \/ o \in handled \cup ignored
  BY <1>8, <1>10
<1>15. /\ UNCHANGED <<cfg, out, handle, chan, bchan, job, queue, tracker, handled, refused, ignored>>
       /\ spc' \notin {"transform", "dispatch"} => out = <<>>
       /\ spc' = "done" => \A r \in Slots : task'[r] = NoTask
  BY <1>1, <1>11, <1>13
<1>16. QED
  BY <1>9, <1>12, <1>14, <1>15, QuietStep

\* The ends of the workers, the shutdown and the redeliveries.
LEMMA OutsideQuiet ==
    ASSUME IInv, \/ \E w \in Workers : WorkerEnds(w)
                 \/ Shutdown
                 \/ \E o \in Offsets : Redeliver(o) \/ RedeliverEarly(o)
                 \/ UNCHANGED vars
    PROVE  IInv'
<1>1. UNCHANGED <<cfg, spc, got, out, tracker, task, failed, handle, chan, bchan, job, queue, erring, odd,
                  handled, refused, ignored>>
  BY DEF WorkerEnds, Shutdown, Redeliver, RedeliverEarly, vars, env, srcVars, sinkVars
<1>2. faults' \in 0..MaxFaults
  <2>1. faults \in 0..MaxFaults /\ MaxFaults \in Nat
    BY MonoVertexAssumption DEF IInv, Types
  <2>2. faults' = faults \/ (faults < MaxFaults /\ faults' = faults + 1)
    BY DEF WorkerEnds, Shutdown, Redeliver, RedeliverEarly, vars
  <2>3. QED
    BY <2>1, <2>2
<1>3. /\ src' \in [Offsets -> {"ready", "delivered", "acked"}]
      /\ \A o \in Offsets : src'[o] = "acked" => src[o] = "acked"
  <2>1. src \in [Offsets -> {"ready", "delivered", "acked"}]
    BY DEF IInv, Types
  <2>2. src' = src \/ \E o \in Offsets : src' = [src EXCEPT ![o] = "ready"]
    BY DEF WorkerEnds, Shutdown, Redeliver, RedeliverEarly, vars
  <2>3. QED
    BY <2>1, <2>2
<1>4. root' \in BOOLEAN /\ cancelled' \in BOOLEAN
  <2>1. (root' = root \/ root' = TRUE) /\ (cancelled' = cancelled \/ cancelled' = TRUE)
    BY DEF WorkerEnds, Shutdown, Redeliver, RedeliverEarly, vars, env
  <2>2. QED
    BY <2>1 DEF IInv, Types
<1>5. wdone' \in [Workers -> BOOLEAN]
  <2>1. wdone' = wdone \/ \E w \in Workers : wdone' = [wdone EXCEPT ![w] = TRUE]
    BY DEF WorkerEnds, Shutdown, Redeliver, RedeliverEarly, vars, sinkVars
  <2>2. wdone \in [Workers -> BOOLEAN]
    BY DEF IInv, Types
  <2>3. QED
    BY <2>1, <2>2
<1>6. Types'
  BY <1>1, <1>2, <1>3, <1>4, <1>5 DEF IInv, Types
<1>7. spc \notin {"transform", "dispatch"} => out = <<>>
  BY DEF IInv, HoldInv
<1>8. spc = "done" => \A s \in Slots : task[s] = NoTask
  BY DEF IInv, WaitInv
<1>9. QED
  BY <1>1, <1>3, <1>6, <1>7, <1>8, QuietStep

\* When the source task is done the tracker is empty, so a new one changes nothing.
LEMMA RebuildStep ==
    ASSUME IInv, Rebuild
    PROVE  IInv'
<1>1. UNCHANGED <<cfg, root, ignored, src, got, out, task, handle, chan, bchan, job, queue, odd, faults, handled, refused>>
  BY DEF Rebuild, env
<1>2. spc = "done" /\ spc' = "check" /\ tracker' = {} /\ cancelled' \in BOOLEAN /\ failed' \in BOOLEAN
  BY DEF Rebuild, AttemptOver
<1>3. \A s \in Slots : task[s].wait = <<>>
  BY <1>2 DEF IInv, WaitInv, NoTask
<1>4. tracker = {}
  <2>1. tracker = UNION {ToSet(task[s].wait) : s \in Slots}
    BY DEF IInv, WaitInv
  <2>2. ToSet(<<>>) = {}
    BY DEF ToSet
  <2>3. QED
    BY <1>3, <2>1, <2>2
<1>5. erring' \in [Workers -> BOOLEAN] /\ wdone' \in [Workers -> BOOLEAN]
  BY DEF Rebuild
<1>6. Types'
  BY <1>1, <1>2, <1>5 DEF IInv, Types, Places
<1>7. out = <<>>
  BY <1>2 DEF IInv, HoldInv
<1>8. QED
  BY <1>1, <1>2, <1>4, <1>6, <1>7, QuietStep

(***************************************************************************)
(* The steps that move a handle from one place to the next.                *)
(***************************************************************************)

\* The parts of the invariant that do not speak of the handles.
LEMMA JobFrame ==
    ASSUME IInv, UNCHANGED <<cfg, job, queue, handled, ignored>>,
           \A o \in ToSet(bchan') : Bypassed(o)
    PROVE  JobInv' /\ QueueInv'
<1>1. cfg' = cfg /\ job' = job /\ queue' = queue /\ handled' = handled /\ ignored' = ignored
  OBVIOUS
<1>2. QueueInv'
  BY <1>1 DEF IInv, QueueInv, At
<1>3. \A o \in ToSet(bchan') : Bypassed(o)'
  BY <1>1 DEF Bypassed
<1>4. \A w \in Workers : JobOK(w, job[w], handled \cup ignored, ignored)'
  BY <1>1 DEF IInv, JobInv, JobOK, Bypassed
<1>5. QED
  BY <1>2, <1>3, <1>4 DEF JobInv

\* Fresh messages get an open handle, an entry in the tracker and one ack task.
LEMMA AdmitStep ==
    ASSUME IInv, NEW S \in SUBSET Offsets, IsFiniteSet(S), S \cap tracker = {},
           S # {} => FreeSlots # {}, spc \in {"read", "admit"}, Admit(S),
           src' \in [Offsets -> {"ready", "delivered", "acked"}],
           \A o \in Offsets : src'[o] = "acked" => src[o] = "acked",
           got' \in Seq(Offsets),
           UNCHANGED <<cfg, root, cancelled, failed, chan, bchan, job, erring, wdone, queue, odd, faults,
                       handled, ignored>>
    PROVE  IInv'
<1>1. /\ cfg' = cfg /\ root' = root /\ cancelled' = cancelled /\ failed' = failed /\ chan' = chan
      /\ bchan' = bchan /\ job' = job /\ erring' = erring /\ wdone' = wdone /\ queue' = queue
      /\ odd' = odd /\ faults' = faults /\ handled' = handled /\ ignored' = ignored
  OBVIOUS
<1>2. /\ tracker' = tracker \cup S /\ refused' = refused \ S /\ out' = SetToSeq(S)
      /\ handle' = [o \in Offsets |-> IF o \in S THEN "open" ELSE handle[o]]
      /\ spc' \in {"transform", "admit", "check"} /\ (spc' # "transform" => S = {})
      /\ S = {} => task' = task
      /\ S # {} => task' = [task EXCEPT ![FreeSlot] = [task[FreeSlot] EXCEPT !.wait = SetToSeq(S)]]
  BY DEF Admit
<1>3. Types
  BY DEF IInv
<1>4. /\ SetToSeq(S) \in Seq(Offsets) /\ Inj(SetToSeq(S)) /\ ToSet(SetToSeq(S)) = S
      /\ S = {} => SetToSeq(S) = <<>>
  BY SetToSeqFacts
<1>5. /\ handle' \in [Offsets -> Statuses]
      /\ \A o \in Offsets : handle'[o] = IF o \in S THEN "open" ELSE handle[o]
  BY <1>2, <1>3 DEF Types, Statuses
<1>6. \A o \in S : handle[o] = "none"
  BY DEF IInv, WaitInv
<1>7. out = <<>> /\ ToSet(out) = {}
  BY DEF IInv, HoldInv, ToSet
<1>8. HoldInv'
  <2>1. Splits(Open(handle), ToSet(out), ToSet(chan), ToSet(bchan), job["writer"].batch, job["bypass"].batch)
    BY DEF IInv, HoldInv
  <2>2. Open(handle') = Open(handle) \cup S /\ Open(handle) \cap S = {}
    BY <1>5, <1>6 DEF Open
  <2>3. ToSet(out') = S /\ Inj(out')
    BY <1>2, <1>4
  <2>4. Splits(Open(handle'), ToSet(out'), ToSet(chan), ToSet(bchan), job["writer"].batch, job["bypass"].batch)
    BY <1>7, <2>1, <2>2, <2>3 DEF Splits
  <2>5. spc' \notin {"transform", "dispatch"} => out' = <<>>
    BY <1>2, <1>4
  <2>6. Inj(chan) /\ Inj(bchan)
    BY DEF IInv, HoldInv
  <2>7. QED
    BY <1>1, <2>3, <2>4, <2>5, <2>6 DEF HoldInv, Open
<1>9. task' \in [Slots -> TaskRec] /\ WaitInv' /\ \A s \in Slots : task'[s].acks \subseteq task[s].acks
  <2>1. /\ WaitInv /\ task \in [Slots -> TaskRec]
    BY <1>3 DEF IInv, Types
  <2>2. Permits' = Permits
    BY <1>1 DEF Permits
  <2>3. \A o \in Offsets : handle'[o] # "none" <=> o \in tracker'
    BY <1>2, <1>5, <2>1 DEF WaitInv
  <2>4. CASE S = {}
    <3>1. task' = task /\ tracker' = tracker /\ spc' # "done"
      BY <1>2, <2>4
    <3>2. QED
      BY <2>1, <2>2, <2>3, <3>1 DEF WaitInv
  <2>5. CASE S # {}
    <3>1. FreeSlot \in FreeSlots
      BY <2>5 DEF FreeSlot
    <3>2. PICK f \in Slots : f = FreeSlot /\ f \in 1..Permits /\ task[f] = NoTask
      BY <3>1, <1>3 DEF FreeSlots, Permits, Slots, Types
    <3>3. PICK t : t = [task[f] EXCEPT !.wait = SetToSeq(S)]
      OBVIOUS
    <3>4. t \in TaskRec /\ t.wait = SetToSeq(S) /\ t.acks = task[f].acks
      BY <2>1, <3>2, <3>3, <1>4 DEF TaskRec
    <3>5. task' = [task EXCEPT ![f] = t]
      BY <1>2, <2>5, <3>2, <3>3
    <3>6. task' \in [Slots -> TaskRec] /\ \A s \in Slots : task'[s] = IF s = f THEN t ELSE task[s]
      BY <2>1, <3>4, <3>5
    <3>7. \A s \in Slots : task'[s].acks \subseteq task[s].acks
      BY <3>4, <3>6
    <3>8. \A s \in Slots : Inj(task'[s].wait)
      BY <2>1, <3>4, <3>6, <1>4 DEF WaitInv
    <3>9. \A s \in Slots : ToSet(task[s].wait) \subseteq tracker
      BY <2>1 DEF WaitInv
    <3>10. ToSet(task'[f].wait) = S /\ ToSet(task[f].wait) = {}
           /\ \A s \in Slots : s # f => task'[s].wait = task[s].wait
      BY <3>2, <3>4, <3>6, <1>4 DEF NoTask, ToSet
    <3>11. \A s, r \in Slots : s # r => ToSet(task'[s].wait) \cap ToSet(task'[r].wait) = {}
      <4> SUFFICES ASSUME NEW s \in Slots, NEW r \in Slots, s # r
                   PROVE  ToSet(task'[s].wait) \cap ToSet(task'[r].wait) = {}
        OBVIOUS
      <4>1. CASE s = f
        BY <4>1, <3>9, <3>10
      <4>2. CASE r = f
        BY <4>2, <3>9, <3>10
      <4>3. CASE s # f /\ r # f
        BY <4>3, <3>10, <2>1 DEF WaitInv
      <4>4. QED
        BY <4>1, <4>2, <4>3
    <3>12. tracker' = UNION {ToSet(task'[s].wait) : s \in Slots}
      <4>1. tracker = UNION {ToSet(task[s].wait) : s \in Slots}
        BY <2>1 DEF WaitInv
      <4>2. ASSUME NEW o \in tracker PROVE \E s \in Slots : o \in ToSet(task'[s].wait)
        <5>1. PICK s \in Slots : o \in ToSet(task[s].wait)
          BY <4>1
        <5>2. s # f
          BY <5>1, <3>10
        <5>3. QED
          BY <5>1, <5>2, <3>10
      <4>3. ASSUME NEW s \in Slots, NEW o \in ToSet(task'[s].wait) PROVE o \in tracker \cup S
        <5>1. CASE s = f
          BY <5>1, <3>10
        <5>2. CASE s # f
          BY <5>2, <3>9, <3>10
        <5>3. QED
          BY <5>1, <5>2
      <4>4. \A o \in S : o \in ToSet(task'[f].wait)
        BY <3>10
      <4>5. QED
        BY <1>2, <4>2, <4>3, <4>4
    <3>13. \A s \in Slots : s \notin 1..Permits => task'[s] = NoTask
      BY <2>1, <3>2, <3>6 DEF WaitInv
    <3>14. spc' # "done"
      BY <1>2
    <3>15. QED
      BY <2>2, <2>3, <3>6, <3>7, <3>8, <3>11, <3>12, <3>13, <3>14 DEF WaitInv
  <2>6. QED
    BY <2>4, <2>5
<1>10. JobInv' /\ QueueInv'
  BY <1>1, JobFrame DEF IInv, JobInv
<1>11. AckInv'
  BY <1>1, <1>5, <1>9 DEF IInv, AckInv
<1>12. NackInv'
  BY <1>1, <1>2, <1>5 DEF IInv, NackInv, NackOK, Bypassed
<1>13. Types'
  <2>1. /\ tracker' \in SUBSET Offsets /\ refused' \in SUBSET Offsets /\ out' \in Seq(Offsets) /\ spc' \in Places
    BY <1>2, <1>3, <1>4 DEF Types, Places
  <2>2. QED
    BY <1>1, <1>3, <1>5, <1>9, <2>1 DEF Types
<1>14. QED
  BY <1>8, <1>9, <1>10, <1>11, <1>12, <1>13 DEF IInv

\* The two reads that admit messages.
LEMMA ReadStep ==
    ASSUME IInv, SourceRead \/ StreamAdmit
    PROVE  IInv'
<1>0. UNCHANGED <<cfg, root, cancelled, failed, chan, bchan, job, erring, wdone, queue, odd, faults, handled, ignored>>
  BY DEF SourceRead, StreamAdmit, env, sinkVars
<1>1. CASE SourceRead /\ cfg.mode = "streaming"
  BY <1>1, StreamReads
<1>2. CASE SourceRead /\ cfg.mode # "streaming"
  <2>1. PICK S \in SUBSET {o \in Offsets : src[o] = "ready"} :
           /\ IsFiniteSet(S) /\ src' = [o \in Offsets |-> IF o \in S THEN "delivered" ELSE src[o]]
           /\ Admit(Fresh(S)) /\ UNCHANGED got
    BY <1>2 DEF SourceRead
  <2>2. FreeSlots # {} /\ spc \in {"read", "admit"}
    BY <1>2 DEF SourceRead
  <2>3. /\ Fresh(S) \in SUBSET Offsets /\ IsFiniteSet(Fresh(S)) /\ Fresh(S) \cap tracker = {}
    BY <2>1, FS_Subset DEF Fresh
  <2>4. /\ src' \in [Offsets -> {"ready", "delivered", "acked"}]
        /\ \A o \in Offsets : src'[o] = "acked" => src[o] = "acked"
    BY <2>1 DEF IInv, Types
  <2>5. got' \in Seq(Offsets)
    BY <2>1 DEF IInv, Types
  <2>6. QED
    BY <1>0, <2>1, <2>2, <2>3, <2>4, <2>5, AdmitStep
<1>3. CASE StreamAdmit
  <2>1. /\ spc = "admit" /\ got # <<>> /\ FreeSlots # {} /\ Admit(Fresh({Head(got)})) /\ got' = Tail(got)
        /\ src' = src
    BY <1>3 DEF StreamAdmit
  <2>2. got \in Seq(Offsets) /\ src \in [Offsets -> {"ready", "delivered", "acked"}]
    BY DEF IInv, Types
  <2>3. Head(got) \in Offsets /\ Tail(got) \in Seq(Offsets)
    BY <2>1, <2>2, HeadTailProperties
  <2>4. PICK S : S = Fresh({Head(got)})
    OBVIOUS
  <2>5. S \in SUBSET Offsets /\ IsFiniteSet(S) /\ S \cap tracker = {}
    BY <2>3, <2>4, FS_Singleton, FS_Subset DEF Fresh
  <2>6. /\ src' \in [Offsets -> {"ready", "delivered", "acked"}]
        /\ \A o \in Offsets : src'[o] = "acked" => src[o] = "acked"
    BY <2>1, <2>2
  <2>7. QED
    BY <1>0, <2>1, <2>3, <2>4, <2>5, <2>6, AdmitStep
<1>4. QED
  BY <1>1, <1>2, <1>3

\* A failed transformer resolves what was not yet sent.
LEMMA TransformFailsStep ==
    ASSUME IInv, TransformFails
    PROVE  IInv'
<1>1. /\ UNCHANGED <<cfg, root, ignored, src, cancelled, tracker, task, chan, bchan, job, erring, wdone, queue, odd>>
      /\ UNCHANGED <<handled, refused>>
      /\ out' = <<>> /\ got' = <<>> /\ spc' = "drain" /\ failed' = TRUE
      /\ faults < MaxFaults /\ faults' = faults + 1
      /\ handle' = [o \in Offsets |-> IF o \in ToSet(out) THEN "failed" ELSE handle[o]]
  BY DEF TransformFails, env, sinkVars
<1>2. Types
  BY DEF IInv
<1>3. /\ handle' \in [Offsets -> Statuses]
      /\ \A o \in Offsets : handle'[o] = IF o \in ToSet(out) THEN "failed" ELSE handle[o]
  BY <1>1, <1>2 DEF Types, Statuses
<1>4. Splits(Open(handle), ToSet(out), ToSet(chan), ToSet(bchan), job["writer"].batch, job["bypass"].batch)
  BY DEF IInv, HoldInv
<1>5. HoldInv'
  <2>1. Open(handle') = Open(handle) \ ToSet(out)
    BY <1>3 DEF Open
  <2>2. ToSet(out') = {} /\ Inj(out')
    BY <1>1 DEF ToSet, Inj
  <2>3. Splits(Open(handle'), ToSet(out'), ToSet(chan), ToSet(bchan), job["writer"].batch, job["bypass"].batch)
    BY <1>4, <2>1, <2>2 DEF Splits
  <2>4. Inj(chan) /\ Inj(bchan)
    BY DEF IInv, HoldInv
  <2>5. QED
    BY <1>1, <2>2, <2>3, <2>4 DEF HoldInv, Open
<1>6. WaitInv'
  <2>1. WaitInv
    BY DEF IInv
  <2>2. \A o \in ToSet(out) : handle[o] = "open"
    BY <1>4 DEF Splits, Open
  <2>3. \A o \in Offsets : handle'[o] # "none" <=> o \in tracker
    BY <1>3, <2>1, <2>2 DEF WaitInv
  <2>4. Permits' = Permits
    BY <1>1 DEF Permits
  <2>5. QED
    BY <1>1, <2>1, <2>3, <2>4 DEF WaitInv
<1>7. JobInv' /\ QueueInv'
  BY <1>1, JobFrame DEF IInv, JobInv
<1>8. AckInv'
  BY <1>1, <1>3 DEF IInv, AckInv
<1>9. NackInv'
  BY <1>1, <1>3 DEF IInv, NackInv, NackOK, Bypassed
<1>10. faults' \in 0..MaxFaults
  BY <1>1, <1>2, MonoVertexAssumption DEF Types
<1>11. Types'
  BY <1>1, <1>2, <1>3, <1>10, EmptySeq DEF Types, Places
<1>12. QED
  BY <1>5, <1>6, <1>7, <1>8, <1>9, <1>11 DEF IInv

\* The head of out moves to one of the channels.
LEMMA DispatchStep ==
    ASSUME IInv, Dispatch
    PROVE  IInv'
<1>1. /\ UNCHANGED <<cfg, root, ignored, src, cancelled, got, tracker, task, failed, handle>>
      /\ UNCHANGED <<job, erring, wdone, queue, odd, faults, handled, refused>>
      /\ out # <<>> /\ out' = Tail(out)
      /\ spc' = IF Len(out) > 1 THEN "dispatch" ELSE IF cfg.mode = "streaming" THEN "admit" ELSE "check"
  BY DEF Dispatch, env, sinkVars
<1>2. Types /\ HoldInv
  BY DEF IInv
<1>3. PICK o : o = Head(out)
  OBVIOUS
<1>4. \/ Bypassed(o) /\ bchan' = Append(bchan, o) /\ chan' = chan
      \/ chan' = Append(chan, o) /\ bchan' = bchan
  BY <1>3 DEF Dispatch
<1>5. /\ Tail(out) \in Seq(Offsets) /\ Inj(Tail(out)) /\ o \in Offsets /\ o \in ToSet(out)
      /\ ToSet(Tail(out)) = ToSet(out) \ {o}
  BY <1>1, <1>2, <1>3, TailFacts DEF Types, HoldInv
<1>6. Splits(Open(handle), ToSet(out), ToSet(chan), ToSet(bchan), job["writer"].batch, job["bypass"].batch)
  BY <1>2 DEF HoldInv
<1>7. o \notin ToSet(chan) /\ o \notin ToSet(bchan)
  BY <1>5, <1>6 DEF Splits
<1>8. /\ chan' \in Seq(Offsets) /\ bchan' \in Seq(Offsets) /\ Inj(chan') /\ Inj(bchan')
      /\ \/ ToSet(chan') = ToSet(chan) /\ ToSet(bchan') = ToSet(bchan) \cup {o} /\ Bypassed(o)
         \/ ToSet(chan') = ToSet(chan) \cup {o} /\ ToSet(bchan') = ToSet(bchan)
  <2>1. chan \in Seq(Offsets) /\ bchan \in Seq(Offsets) /\ Inj(chan) /\ Inj(bchan)
    BY <1>2 DEF Types, HoldInv
  <2>2. /\ Append(chan, o) \in Seq(Offsets) /\ ToSet(Append(chan, o)) = ToSet(chan) \cup {o}
        /\ Inj(Append(chan, o))
    BY <1>5, <1>7, <2>1, AppendFacts
  <2>3. /\ Append(bchan, o) \in Seq(Offsets) /\ ToSet(Append(bchan, o)) = ToSet(bchan) \cup {o}
        /\ Inj(Append(bchan, o))
    BY <1>5, <1>7, <2>1, AppendFacts
  <2>4. QED
    BY <1>4, <2>1, <2>2, <2>3
<1>9. HoldInv'
  <2>1. Splits(Open(handle), ToSet(out'), ToSet(chan'), ToSet(bchan'), job["writer"].batch, job["bypass"].batch)
    BY <1>1, <1>5, <1>6, <1>8 DEF Splits
  <2>2. spc' \notin {"transform", "dispatch"} => out' = <<>>
    <3>1. ASSUME ~(Len(out) > 1) PROVE Tail(out) = <<>>
      <4>1. out \in Seq(Offsets) /\ Len(out) \in Nat
        BY <1>2 DEF Types
      <4>5. Len(out) # 0
        BY <1>1, <4>1, EmptySeq
      <4>6. \A n \in Nat : n # 0 /\ ~(n > 1) => n = 1
        OBVIOUS
      <4>2. Len(out) = 1
        BY <3>1, <4>1, <4>5, <4>6
      <4>4. Tail(out) \in Seq(Offsets) /\ Len(Tail(out)) = 0
        BY <1>1, <4>1, <4>2, HeadTailProperties
      <4>3. QED
        BY <4>4, EmptySeq
    <3>2. QED
      BY <1>1, <3>1
  <2>3. QED
    BY <1>1, <1>5, <1>8, <2>1, <2>2 DEF HoldInv, Open
<1>10. WaitInv'
  <2>1. Permits' = Permits
    BY <1>1 DEF Permits
  <2>2. spc' # "done"
    BY <1>1
  <2>3. QED
    BY <1>1, <2>1, <2>2 DEF IInv, WaitInv
<1>11. JobInv' /\ QueueInv'
  <2>1. \A x \in ToSet(bchan') : Bypassed(x)
    BY <1>8 DEF IInv, JobInv
  <2>2. QED
    BY <1>1, <2>1, JobFrame
<1>12. AckInv'
  BY <1>1 DEF IInv, AckInv
<1>13. NackInv'
  BY <1>1 DEF IInv, NackInv, NackOK, Bypassed
<1>14. Types'
  <2>1. spc' \in Places /\ out' \in Seq(Offsets)
    BY <1>1, <1>5 DEF Places
  <2>2. QED
    BY <1>1, <1>2, <1>8, <2>1 DEF Types
<1>15. QED
  BY <1>9, <1>10, <1>11, <1>12, <1>13, <1>14 DEF IInv

\* The first handle an ack task waits for is resolved: the message leaves the tracker.
LEMMA AckRecvStep ==
    ASSUME IInv, NEW s \in Slots, AckRecv(s)
    PROVE  IInv'
<1>1. /\ UNCHANGED <<cfg, root, ignored, src, cancelled, spc, got, out, failed, chan, bchan>>
      /\ UNCHANGED <<job, erring, wdone, queue, odd, faults, handled, refused>>
      /\ task[s].wait # <<>>
  BY DEF AckRecv, env, sinkVars
<1>2. PICK o : o = Head(task[s].wait)
  OBVIOUS
<1>3. /\ handle[o] \in {"ok", "failed"} /\ tracker' = tracker \ {o}
      /\ handle' = [handle EXCEPT ![o] = "none"]
  BY <1>2 DEF AckRecv
<1>4. PICK t : /\ task' = [task EXCEPT ![s] = t]
               /\ t = [task[s] EXCEPT !.wait = Tail(@),
                                      !.acks = IF handle[o] = "ok" THEN @ \cup {o} ELSE @,
                                      !.nacks = IF handle[o] = "failed" THEN @ \cup {o} ELSE @]
  BY <1>2 DEF AckRecv
<1>5. Types /\ WaitInv /\ task \in [Slots -> TaskRec] /\ task[s] \in TaskRec
  BY DEF IInv, Types
<1>6. task[s].wait \in Seq(Offsets) /\ Inj(task[s].wait)
  BY <1>5 DEF TaskRec, WaitInv
<1>7. /\ Tail(task[s].wait) \in Seq(Offsets) /\ Inj(Tail(task[s].wait)) /\ o \in Offsets
      /\ o \in ToSet(task[s].wait) /\ ToSet(Tail(task[s].wait)) = ToSet(task[s].wait) \ {o}
  BY <1>1, <1>2, <1>6, TailFacts
<1>8. /\ t \in TaskRec /\ t.wait = Tail(task[s].wait)
      /\ t.acks = IF handle[o] = "ok" THEN task[s].acks \cup {o} ELSE task[s].acks
  BY <1>4, <1>5, <1>7 DEF TaskRec
<1>9. task' \in [Slots -> TaskRec] /\ \A r \in Slots : task'[r] = IF r = s THEN t ELSE task[r]
  BY <1>4, <1>5, <1>8
<1>10. /\ handle' \in [Offsets -> Statuses]
       /\ \A x \in Offsets : handle'[x] = IF x = o THEN "none" ELSE handle[x]
  BY <1>3, <1>5, <1>7 DEF Types, Statuses
<1>11. HoldInv'
  <2>1. Open(handle') = Open(handle)
    BY <1>3, <1>10 DEF Open
  <2>2. QED
    BY <1>1, <2>1 DEF IInv, HoldInv, Open
<1>12. WaitInv'
  <2>1. \A r \in Slots : Inj(task'[r].wait)
    BY <1>5, <1>7, <1>8, <1>9 DEF WaitInv
  <2>2. \A r \in Slots : ToSet(task'[r].wait) = ToSet(task[r].wait) \ {o}
    <3>1. \A r \in Slots : r # s => o \notin ToSet(task[r].wait)
      BY <1>5, <1>7 DEF WaitInv
    <3>2. QED
      BY <3>1, <1>7, <1>8, <1>9
  <2>3. \A r, q \in Slots : r # q => ToSet(task'[r].wait) \cap ToSet(task'[q].wait) = {}
    BY <1>5, <2>2 DEF WaitInv
  <2>4. tracker' = UNION {ToSet(task'[r].wait) : r \in Slots}
    <3>1. tracker = UNION {ToSet(task[r].wait) : r \in Slots}
      BY <1>5 DEF WaitInv
    <3>2. QED
      BY <1>3, <2>2, <3>1
  <2>5. \A x \in Offsets : handle'[x] # "none" <=> x \in tracker'
    BY <1>3, <1>5, <1>10 DEF WaitInv
  <2>6. Permits' = Permits
    BY <1>1 DEF Permits
  <2>7. task[s] # NoTask
    BY <1>1 DEF NoTask
  <2>8. \A r \in Slots : r \notin 1..Permits => task'[r] = NoTask
    BY <1>5, <1>9, <2>7 DEF WaitInv
  <2>9. spc' # "done"
    BY <1>1, <1>5, <2>7 DEF WaitInv
  <2>10. QED
    BY <2>1, <2>3, <2>4, <2>5, <2>6, <2>8, <2>9 DEF WaitInv
<1>13. JobInv' /\ QueueInv'
  BY <1>1, JobFrame DEF IInv, JobInv
<1>14. AckInv'
  <2>1. AckInv
    BY DEF IInv
  <2>2. t.acks \subseteq handled \cup ignored
    BY <1>7, <1>8, <2>1 DEF AckInv
  <2>3. QED
    BY <1>1, <1>9, <1>10, <2>1, <2>2 DEF AckInv
<1>15. NackInv'
  BY <1>1, <1>10 DEF IInv, NackInv, NackOK, Bypassed
<1>16. Types'
  <2>1. tracker' \in SUBSET Offsets
    BY <1>3, <1>5 DEF Types
  <2>2. QED
    BY <1>1, <1>5, <1>9, <1>10, <2>1 DEF Types
<1>17. QED
  BY <1>11, <1>12, <1>13, <1>14, <1>15, <1>16 DEF IInv

(***************************************************************************)
(* The invariant, and what follows from it.                                *)
(***************************************************************************)

\* The invariant holds when the pod starts ...
LEMMA InvInit == Init => IInv
<1> SUFFICES ASSUME Init PROVE IInv
  OBVIOUS
<1> USE DEF Init
<1>1. ToSet(<<>>) = {} /\ Inj(<<>>) /\ <<>> \in Seq(Offsets)
  BY EmptySeq DEF ToSet, Inj
<1>2. \A w \in Workers : job[w] = Idle
  OBVIOUS
<1>3. "writer" \in Workers /\ "bypass" \in Workers
  BY DEF Workers
<1>4. NoTask \in TaskRec /\ NoTask.wait = <<>> /\ NoTask.acks = {}
  BY <1>1 DEF NoTask, TaskRec
<1>5. Types
  <2>1. job \in [Workers -> JobRec]
    BY IdleFacts
  <2>2. queue \in [Actors -> Queues]
    BY DEF Queues
  <2>3. odd \in 0..MaxOdd /\ faults \in 0..MaxFaults
    BY MonoVertexAssumption
  <2>4. task \in [Slots -> TaskRec]
    BY <1>4
  <2>5. handle \in [Offsets -> Statuses] /\ src \in [Offsets -> {"ready", "delivered", "acked"}]
    BY DEF Statuses
  <2>6. erring \in [Workers -> BOOLEAN] /\ wdone \in [Workers -> BOOLEAN]
    OBVIOUS
  <2>7. QED
    BY <1>1, <2>1, <2>2, <2>3, <2>4, <2>5, <2>6 DEF Types, Places
<1>6. HoldInv
  <2>1. Open(handle) = {}
    BY DEF Open
  <2>2. job["writer"].batch = {} /\ job["bypass"].batch = {}
    BY <1>2, <1>3, IdleFacts
  <2>3. QED
    BY <1>1, <2>1, <2>2 DEF HoldInv, Splits
<1>7. WaitInv
  <2>1. \A s \in Slots : task[s] = NoTask /\ task[s].wait = <<>> /\ ToSet(task[s].wait) = {}
    BY <1>1, <1>4
  <2>2. UNION {ToSet(task[s].wait) : s \in Slots} = {}
    BY <2>1
  <2>3. QED
    BY <1>1, <2>1, <2>2 DEF WaitInv
<1>8. JobInv
  <2>1. \A w \in Workers : JobOK(w, Idle, handled \cup ignored, ignored)
    BY IdleFacts, FS_EmptySet DEF JobOK
  <2>2. QED
    BY <1>1, <1>2, <2>1 DEF JobInv
<1>9. AckInv
  BY <1>4 DEF AckInv
<1>10. NackInv
  BY DEF NackInv, NackOK
<1>11. QueueInv
  BY <1>1, <1>2, IdleFacts DEF QueueInv, At
<1>12. QED
  BY <1>5, <1>6, <1>7, <1>8, <1>9, <1>10, <1>11 DEF IInv

\* ... and every step keeps it: one case per action.
LEMMA InvStep == IInv /\ [Next]_vars => IInv'
<1> SUFFICES ASSUME IInv, [Next]_vars PROVE IInv'
  OBVIOUS
<1>1. CASE SourceStep
  <2>1. CASE SourceCheck \/ SourceReadEmpty \/ StreamBatchEnds \/ SourceStops
    BY <2>1, SourceQuiet
  <2>2. CASE SourceRead \/ StreamAdmit
    BY <2>2, ReadStep
  <2>3. CASE Dispatch
    BY <2>3, DispatchStep
  <2>4. QED
    BY <1>1, <2>1, <2>2, <2>3 DEF SourceStep
<1>2. ASSUME NEW s \in Slots, AckStep(s) PROVE IInv'
  <2>1. CASE AckRecv(s)
    BY <2>1, AckRecvStep
  <2>2. CASE AckSent(s) \/ NackSent(s)
    BY <2>2, AckQuiet
  <2>3. QED
    BY <1>2, <2>1, <2>2 DEF AckStep
<1>3. ASSUME NEW w \in Workers, WorkerStep(w) PROVE IInv'
  <2>1. CASE Take(w)
    BY <2>1, TakeStep
  <2>2. CASE SinkAnswers(w)
    <3>1. PICK r \in [job[w].todo -> Answers] : AtActor(w) /\ Attempt(w, r)
      BY <2>2 DEF SinkAnswers
    <3>2. QED
      BY <3>1, AttemptStep
  <2>3. CASE StorePut(w)
    BY <2>3, StorePutStep
  <2>4. CASE WorkerEnds(w)
    BY <2>4, OutsideQuiet
  <2>5. QED
    BY <1>3, <2>1, <2>2, <2>3, <2>4 DEF WorkerStep
<1>4. CASE Fault
  <2>1. CASE SourceReadFails
    BY <2>1, SourceQuiet
  <2>2. CASE TransformFails
    BY <2>2, TransformFailsStep
  <2>3. ASSUME NEW s \in Slots, AckFails(s) \/ NackFails(s) PROVE IInv'
    BY <2>3, AckQuiet
  <2>4. ASSUME NEW w \in Workers, SinkErrs(w) PROVE IInv'
    BY <2>4, SinkErrsStep
  <2>5. ASSUME NEW w \in Workers, StoreErrs(w) PROVE IInv'
    BY <2>5, StoreErrsStep
  <2>6. ASSUME NEW o \in Offsets, RedeliverEarly(o) PROVE IInv'
    BY <2>6, OutsideQuiet
  <2>7. QED
    BY <1>4, <2>1, <2>2, <2>3, <2>4, <2>5, <2>6 DEF Fault
<1>5. CASE Rebuild
  BY <1>5, RebuildStep
<1>6. CASE Shutdown \/ Exited \/ UNCHANGED vars
  BY <1>6, OutsideQuiet DEF Exited
<1>7. ASSUME NEW o \in Offsets, Redeliver(o) PROVE IInv'
  BY <1>7, OutsideQuiet
<1>8. QED
  BY <1>1, <1>2, <1>3, <1>4, <1>5, <1>6, <1>7 DEF Next

\* The inductive invariant, of every behaviour of the pod: the source, the ack tasks, the
\* writer, the bypass receiver and the sink actors agree on where every message is.
THEOREM InvariantHolds == Spec => []IInv
<1>1. Init => IInv
  BY InvInit
<1>2. IInv /\ [Next]_vars => IInv'
  BY InvStep
<1>3. QED
  BY <1>1, <1>2, PTL DEF Spec

\* The shapes the proofs use are finer than those of TypeOK.
LEMMA InvTypes == IInv => TypeOK
<1> SUFFICES ASSUME IInv PROVE TypeOK
  OBVIOUS
<1>1. Types
  BY DEF IInv
<1>2. {root, cancelled, failed} \subseteq BOOLEAN /\ {got, out, chan, bchan} \subseteq Seq(Offsets)
  BY <1>1 DEF Types
<1>3. {erring, wdone} \subseteq [Workers -> BOOLEAN]
  BY <1>1 DEF Types
<1>4. /\ DOMAIN task = Slots
      /\ \A s \in Slots : /\ task[s].wait \in Seq(Offsets)
                          /\ task[s].acks \cup task[s].nacks \subseteq Offsets
  BY <1>1 DEF Types, TaskRec
<1>5. \A w \in Workers : /\ job[w].leg \in 0..Len(Legs)
                         /\ job[w].todo \cup job[w].nacked \subseteq job[w].batch
  <2>1. \A w \in Workers : job[w] \in JobRec /\ JobOK(w, job[w], handled \cup ignored, ignored)
    BY <1>1 DEF Types, IInv, JobInv
  <2>2. \A w \in Workers : job[w].leg \in 0..6
    BY <2>1 DEF JobRec
  <2>3. QED
    BY <2>1, <2>2, LegFacts DEF JobOK
<1>6. queue \in [Actors -> {<<>>} \cup {<<w>> : w \in Workers}
                              \cup {<<"writer", "bypass">>, <<"bypass", "writer">>}]
  <2>1. Queues \subseteq {<<>>} \cup {<<w>> : w \in Workers}
                              \cup {<<"writer", "bypass">>, <<"bypass", "writer">>}
    BY DEF Queues, Workers
  <2>2. QED
    BY <1>1, <2>1 DEF Types
<1>7. QED
  BY <1>1, <1>2, <1>3, <1>4, <1>5, <1>6 DEF TypeOK, Types, Places, Statuses

\* The variables keep their types: no sink answer, failure, cancellation or rebuild leaves a
\* task, a job or the queue of an actor in a shape the code does not know.
THEOREM TypesHold == Spec => []TypeOK
BY InvariantHolds, InvTypes, PTL

\* No message is acked at the source unless it was written, dropped on purpose, or nacked by a
\* sink on the bypass path, for any number of messages, retries, failures and rebuilds.
THEOREM AckedIsHandled == Spec => []AckedOnlyIfHandled
<1>1. IInv => AckedOnlyIfHandled
  BY DEF IInv, AckInv, AckedOnlyIfHandled
<1>2. QED
  BY <1>1, InvariantHolds, PTL

\* A handle that is open belongs to no message that the writer set aside and whose batch is
\* over: a nack that is not on the bypass path never ends as a success.
THEOREM NacksHonoured == Spec => []NackHonoured
<1>1. ASSUME IInv PROVE NackHonoured
  <2>1. JobOK("writer", job["writer"], handled \cup ignored, ignored)
    BY <1>1 DEF IInv, JobInv, Workers
  <2>2. job["writer"].batch \subseteq Open(handle)
    BY <1>1 DEF IInv, HoldInv, Splits
  <2>3. \A o \in job["writer"].nacked : handle[o] = "open"
    BY <2>1, <2>2 DEF JobOK, Open
  <2>4. QED
    BY <1>1, <2>3 DEF IInv, NackInv, NackOK, NackHonoured
<1>2. QED
  BY <1>1, InvariantHolds, PTL

PlacesOf(tag, s, o) == {<<tag, i>> : i \in {i \in DOMAIN s : s[i] = o}}

\* The places of a value in a sequence without repetitions: one, or none.
LEMMA PlacesIn ==
    ASSUME NEW X, NEW s \in Seq(X), Inj(s), NEW o, NEW tag
    PROVE  /\ o \notin ToSet(s) => PlacesOf(tag, s, o) = {}
           /\ o \in ToSet(s) => \E h : PlacesOf(tag, s, o) = {h}
<1>1. ASSUME o \notin ToSet(s) PROVE {i \in DOMAIN s : s[i] = o} = {}
  BY <1>1 DEF ToSet
<1>2. ASSUME o \in ToSet(s) PROVE \E k : {i \in DOMAIN s : s[i] = o} = {k}
  <2>1. PICK k \in DOMAIN s : s[k] = o
    BY <1>2 DEF ToSet
  <2>2. {i \in DOMAIN s : s[i] = o} = {k}
    BY <2>1 DEF Inj
  <2>3. QED
    BY <2>2
<1>3. ASSUME NEW k, {i \in DOMAIN s : s[i] = o} = {k}
      PROVE  PlacesOf(tag, s, o) = {<<tag, k>>}
  BY <1>3 DEF PlacesOf
<1>4. ASSUME {i \in DOMAIN s : s[i] = o} = {} PROVE PlacesOf(tag, s, o) = {}
  BY <1>4 DEF PlacesOf
<1>5. QED
  BY <1>1, <1>2, <1>3, <1>4

\* An open handle has one holder, any other has none.
LEMMA OneHolder ==
    ASSUME IInv, NEW o \in Offsets
    PROVE  /\ handle[o] # "open" => Holders(o) = {}
           /\ handle[o] = "open" => \E h : Holders(o) = {h}
<1> DEFINE A == PlacesOf("out", out, o)
           B == PlacesOf("chan", chan, o)
           C == PlacesOf("bchan", bchan, o)
           D == {<<w, 0>> : w \in {w \in Workers : o \in job[w].batch}}
           wb == job["writer"].batch
           bb == job["bypass"].batch
<1>1. Holders(o) = A \cup B \cup C \cup D
  BY DEF Holders, PlacesOf
<1>2. /\ out \in Seq(Offsets) /\ chan \in Seq(Offsets) /\ bchan \in Seq(Offsets)
      /\ Inj(out) /\ Inj(chan) /\ Inj(bchan)
      /\ Splits(Open(handle), ToSet(out), ToSet(chan), ToSet(bchan), wb, bb)
  BY DEF IInv, Types, HoldInv
<1>3. (o \notin ToSet(out) => A = {}) /\ (o \in ToSet(out) => \E h : A = {h})
  BY <1>2, PlacesIn
<1>4. (o \notin ToSet(chan) => B = {}) /\ (o \in ToSet(chan) => \E h : B = {h})
  BY <1>2, PlacesIn
<1>5. (o \notin ToSet(bchan) => C = {}) /\ (o \in ToSet(bchan) => \E h : C = {h})
  BY <1>2, PlacesIn
<1>6. /\ o \notin wb /\ o \notin bb => D = {}
      /\ o \in wb /\ o \notin bb => D = {<<"writer", 0>>}
      /\ o \notin wb /\ o \in bb => D = {<<"bypass", 0>>}
  BY DEF Workers
<1>7. o \in Open(handle) <=> handle[o] = "open"
  BY DEF Open
<1> HIDE DEF A, B, C, D, wb, bb
<1>8. CASE handle[o] # "open"
  <2>1. o \notin ToSet(out) /\ o \notin ToSet(chan) /\ o \notin ToSet(bchan) /\ o \notin wb /\ o \notin bb
    BY <1>2, <1>7, <1>8 DEF Splits
  <2>2. QED
    BY <1>1, <1>3, <1>4, <1>5, <1>6, <1>8, <2>1
<1>9. CASE handle[o] = "open"
  <2>1. \/ o \in ToSet(out) /\ o \notin ToSet(chan) /\ o \notin ToSet(bchan) /\ o \notin wb /\ o \notin bb
        \/ o \notin ToSet(out) /\ o \in ToSet(chan) /\ o \notin ToSet(bchan) /\ o \notin wb /\ o \notin bb
        \/ o \notin ToSet(out) /\ o \notin ToSet(chan) /\ o \in ToSet(bchan) /\ o \notin wb /\ o \notin bb
        \/ o \notin ToSet(out) /\ o \notin ToSet(chan) /\ o \notin ToSet(bchan) /\ o \in wb /\ o \notin bb
        \/ o \notin ToSet(out) /\ o \notin ToSet(chan) /\ o \notin ToSet(bchan) /\ o \notin wb /\ o \in bb
    BY <1>2, <1>7, <1>9 DEF Splits
  <2>2. QED
    BY <1>1, <1>3, <1>4, <1>5, <1>6, <1>9, <2>1
<1>10. QED
  BY <1>8, <1>9

\* An offset in the tracker has one ack task that waits for it, any other has none.
LEMMA OneWaits ==
    ASSUME IInv, NEW o \in Offsets
    PROVE  /\ o \notin tracker => {s \in Slots : o \in ToSet(task[s].wait)} = {}
           /\ o \in tracker => \E s : {r \in Slots : o \in ToSet(task[r].wait)} = {s}
<1>1. /\ tracker = UNION {ToSet(task[s].wait) : s \in Slots}
      /\ \A s, r \in Slots : s # r => ToSet(task[s].wait) \cap ToSet(task[r].wait) = {}
  BY DEF IInv, WaitInv
<1>2. CASE o \notin tracker
  BY <1>1, <1>2
<1>3. CASE o \in tracker
  <2>1. PICK s \in Slots : o \in ToSet(task[s].wait)
    BY <1>1, <1>3
  <2>2. {r \in Slots : o \in ToSet(task[r].wait)} = {s}
    BY <1>1, <2>1
  <2>3. QED
    BY <1>3, <2>2
<1>4. QED
  BY <1>2, <1>3

\* Every unresolved handle has exactly one holder, and every handle exactly one ack task that
\* waits for it and an entry in the tracker, so none is leaked, resolved twice or refused
\* forever as a duplicate, across failed batches, cancellations and rebuilds.
THEOREM HandlesHeld == Spec => []EveryHandleHeld
<1>1. ASSUME IInv PROVE EveryHandleHeld
  <2> SUFFICES ASSUME NEW o \in Offsets
               PROVE  /\ Cardinality(Holders(o)) = (IF handle[o] = "open" THEN 1 ELSE 0)
                      /\ handle[o] # "none" <=> o \in tracker
                      /\ Cardinality({s \in Slots : o \in ToSet(task[s].wait)})
                            = (IF o \in tracker THEN 1 ELSE 0)
    BY DEF EveryHandleHeld
  <2>1. Cardinality({}) = 0 /\ \A x : Cardinality({x}) = 1
    BY FS_EmptySet, FS_Singleton
  <2>2. Cardinality(Holders(o)) = (IF handle[o] = "open" THEN 1 ELSE 0)
    BY <1>1, <2>1, OneHolder
  <2>3. Cardinality({s \in Slots : o \in ToSet(task[s].wait)}) = (IF o \in tracker THEN 1 ELSE 0)
    BY <1>1, <2>1, OneWaits
  <2>4. handle[o] # "none" <=> o \in tracker
    BY <1>1 DEF IInv, WaitInv
  <2>5. QED
    BY <2>2, <2>3, <2>4
<1>2. QED
  BY <1>1, InvariantHolds, PTL
=============================================================================
