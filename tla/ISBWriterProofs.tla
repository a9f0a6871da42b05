-------------------------- MODULE ISBWriterProofs --------------------------
(***************************************************************************)
(* Proofs about ISBWriter for every set of messages, jobs and streams,     *)
(* every routing and every number of copies, cancellations and crashes.    *)
(*                                                                         *)
(* A job alone knows what its writes came to, and the mark it ends with    *)
(* outlives it; so JobInv says, phase by phase, which outcomes a job can   *)
(* have on the streams of its message and what an outcome means for the    *)
(* stream.  CopyInv says how the first copy of a message got into a        *)
(* stream, which decides how a second one can.                             *)
(***************************************************************************)
EXTENDS ISBWriter, TLAPS

\* The outcomes a job can have, by its phase, on a stream its message goes to.
OutcomesIn(phase) ==
    CASE phase = "write"   -> {"todo", "paf", "dropped", "cancelled"}
      [] phase = "resolve" -> {"paf", "dropped", "retry", "ok", "lost"}
      [] phase = "success" -> {"dropped", "ok"}
      [] OTHER -> Outcomes

\* What a write came to is true of the stream, and a job forgets no stream.
JobInv ==
    \A j \in Jobs : ws[j] # "idle" =>
        \A s \in Streams :
            /\ s \in Targets(msg[j]) => out[j][s] \in OutcomesIn(ws[j]) \ {"skip"}
            /\ out[j][s] = "ok" => stored[s][msg[j]] > 0
            /\ out[j][s] = "dropped" => s \in Discard /\ <<s, msg[j]>> \in discarded
            /\ out[j][s] = "retry" => <<s, msg[j]>> \in fellBack

\* A copy came with an id the stream still knows, or a second one is explained.
CopyInv ==
    \A s \in Streams, m \in Msgs :
        stored[s][m] > 0 => m \in seen[s] \/ <<s, m>> \in fellBack \cup expired

IInv == TypeOK /\ JobInv /\ CopyInv /\ SuccessMeansStored /\ DuplicatesExplained

----------------------------------------------------------------------------

\* The steps of a job, of the broker and of the pod, one by one.
LEMMA NextCases ==
    ASSUME [Next]_vars
    PROVE  \/ \E j \in Jobs : Routed(j) \/ Resolved(j) \/ EndWrite(j)
           \/ \E j \in Jobs, s \in Streams : Publish(j, s) \/ DiscardFull(j, s) \/ GiveUp(j, s)
           \/ \E j \in Jobs, s \in Streams : PafOk(j, s) \/ PafError(j, s)
           \/ \E j \in Jobs, s \in Streams : FallbackOk(j, s) \/ FallbackError(j, s)
           \/ \E j \in Jobs, m \in Msgs : Submit(j, m)
           \/ \E s \in Streams, m \in Msgs : Persist(s, m) \/ Lose(s, m) \/ ForgetId(s, m)
           \/ \E s \in Streams : RefreshFull(s)
           \/ Cancel \/ Crash \/ Restart \/ UNCHANGED vars
BY DEF Next, JobNext, NetNext, BrokerNext

\* Every state is well typed.
LEMMA TypeInit == Init => TypeOK
<1> SUFFICES ASSUME Init PROVE TypeOK
  OBVIOUS
<1> USE WriterAssumption DEF Init
<1>1. full \in [Streams -> BOOLEAN] /\ cancel \in BOOLEAN
  BY Zenon
<1>2. stored \in [Streams -> [Msgs -> 0..MaxCopies]]
  <2>1. 0 \in 0..MaxCopies
    OBVIOUS
  <2>2. QED
    BY <2>1
<1>3. out \in [Jobs -> [Streams -> Outcomes]]
  BY DEF NoOutcome, Outcomes
<1>4. QED
  BY <1>1, <1>2, <1>3 DEF TypeOK, Phases

\* One more copy keeps the type of stored, takes no copy away and adds one for s and m only.
LEMMA CopyType ==
    ASSUME TypeOK, NEW s \in Streams, NEW m \in Msgs, Copy(s, m)
    PROVE  /\ stored' \in [Streams -> [Msgs -> 0..MaxCopies]]
           /\ stored'[s][m] > 0
           /\ \A r \in Streams, n \in Msgs :
                stored[r][n] \in Nat /\ stored'[r][n] \in Nat /\ stored[r][n] <= stored'[r][n]
           /\ \A r \in Streams, n \in Msgs :
                stored'[r][n] # stored[r][n] => r = s /\ n = m
           /\ stored'[s][m] > 1 => stored[s][m] > 0
<1> DEFINE k == IF stored[s][m] < MaxCopies THEN stored[s][m] + 1 ELSE stored[s][m]
<1>1. /\ stored \in [Streams -> [Msgs -> 0..MaxCopies]]
      /\ stored[s] \in [Msgs -> 0..MaxCopies] /\ stored[s][m] \in 0..MaxCopies
  BY DEF TypeOK
<1>2. k \in 0..MaxCopies /\ k > 0 /\ stored[s][m] <= k /\ (k > 1 => stored[s][m] > 0)
  BY <1>1, WriterAssumption
<1>3. stored' = [stored EXCEPT ![s] = [stored[s] EXCEPT ![m] = k]]
  BY DEF Copy
<1> HIDE DEF k
<1>4. [stored[s] EXCEPT ![m] = k] \in [Msgs -> 0..MaxCopies]
  BY <1>1, <1>2
<1>5. stored' \in [Streams -> [Msgs -> 0..MaxCopies]]
  BY <1>1, <1>3, <1>4
<1>6. \A r \in Streams, n \in Msgs :
         stored'[r][n] = IF r = s /\ n = m THEN k ELSE stored[r][n]
  BY <1>1, <1>3
<1>7. \A r \in Streams, n \in Msgs : stored[r][n] \in Nat
  BY <1>1
<1>8. QED
  BY <1>2, <1>5, <1>6, <1>7

\* SetOut changes one outcome.
LEMMA SetOutType ==
    ASSUME TypeOK, NEW j \in Jobs, NEW s \in Streams, NEW o \in Outcomes, SetOut(j, s, o)
    PROVE  /\ out' \in [Jobs -> [Streams -> Outcomes]]
           /\ \A i \in Jobs, r \in Streams :
                out'[i][r] = IF i = j /\ r = s THEN o ELSE out[i][r]
<1>1. out \in [Jobs -> [Streams -> Outcomes]] /\ out[j] \in [Streams -> Outcomes]
  BY DEF TypeOK
<1>2. out' = [out EXCEPT ![j] = [out[j] EXCEPT ![s] = o]]
  BY DEF SetOut
<1>3. [out[j] EXCEPT ![s] = o] \in [Streams -> Outcomes]
  BY <1>1
<1>4. QED
  BY <1>1, <1>2, <1>3

\* The fallback that failed stored the message or did not.
LEMMA FallbackErrorStored ==
    ASSUME TypeOK, NEW j \in Jobs, NEW s \in Streams, FallbackError(j, s)
    PROVE  UNCHANGED stored \/ Copy(s, msg[j])
BY DEF FallbackError

\* The job whose phase is not idle has a message.
LEMMA BusyHasMessage ==
    ASSUME TypeOK, NEW j \in Jobs, ws[j] # "idle"
    PROVE  msg[j] \in Msgs
BY DEF TypeOK

\* Every step keeps the types.
LEMMA TypeStep == ASSUME TypeOK, [Next]_vars PROVE TypeOK'
<1> USE WriterAssumption DEF writerVars, brokerVars
<1>1. ASSUME NEW j \in Jobs, Routed(j) \/ Resolved(j) \/ EndWrite(j)
      PROVE  TypeOK'
  <2>1. CASE Routed(j) BY <2>1 DEF Routed, TypeOK, Phases
  <2>2. CASE Resolved(j) BY <2>2 DEF Resolved, TypeOK, Phases
  <2>3. CASE EndWrite(j)
    <3>1. msg[j] \in Msgs
      BY <2>3, BusyHasMessage DEF EndWrite
    <3>2. NoOutcome \in [Streams -> Outcomes]
      BY DEF NoOutcome, Outcomes
    <3>3. QED
      BY <2>3, <3>1, <3>2 DEF EndWrite, TypeOK, Phases
  <2>4. QED
    BY <1>1, <2>1, <2>2, <2>3
<1>2. ASSUME NEW j \in Jobs, NEW s \in Streams, Publish(j, s) \/ DiscardFull(j, s) \/ GiveUp(j, s)
      PROVE  TypeOK'
  <2>1. msg[j] \in Msgs
    BY <1>2, BusyHasMessage DEF Publish, DiscardFull, GiveUp, Writing
  <2>2. QED
    <3>1. out' \in [Jobs -> [Streams -> Outcomes]]
      BY <1>2, SetOutType DEF Publish, DiscardFull, GiveUp, Outcomes
    <3>2. QED
      BY <1>2, <2>1, <3>1 DEF Publish, DiscardFull, GiveUp, TypeOK
<1>3. ASSUME NEW j \in Jobs, NEW s \in Streams, PafOk(j, s) \/ PafError(j, s)
      PROVE  TypeOK'
  <2>1. msg[j] \in Msgs
    BY <1>3, BusyHasMessage DEF PafOk, PafError, Resolving
  <2>2. QED
    <3>1. out' \in [Jobs -> [Streams -> Outcomes]]
      BY <1>3, SetOutType DEF PafOk, PafError, Outcomes
    <3>2. QED
      BY <1>3, <2>1, <3>1 DEF PafOk, PafError, TypeOK
<1>4. ASSUME NEW j \in Jobs, NEW s \in Streams, FallbackOk(j, s) \/ FallbackError(j, s)
      PROVE  TypeOK'
  <2>1. msg[j] \in Msgs
    BY <1>4, BusyHasMessage DEF FallbackOk, FallbackError, Resolving
  <2>2. stored' \in [Streams -> [Msgs -> 0..MaxCopies]]
    BY <1>4, <2>1, CopyType, FallbackErrorStored DEF FallbackOk, TypeOK
  <2>3. out' \in [Jobs -> [Streams -> Outcomes]]
    BY <1>4, SetOutType DEF FallbackOk, FallbackError, Outcomes
  <2>4. QED
    BY <1>4, <2>2, <2>3 DEF FallbackOk, FallbackError, TypeOK
<1>5. ASSUME NEW j \in Jobs, NEW m \in Msgs, Submit(j, m)
      PROVE  TypeOK'
  <2>1. [s \in Streams |-> IF s \in Targets(m) THEN "todo" ELSE "skip"] \in [Streams -> Outcomes]
    BY DEF Outcomes
  <2>2. QED
    BY <1>5, <2>1 DEF Submit, StartWrite, TypeOK, Phases
<1>6. ASSUME NEW s \in Streams, NEW m \in Msgs, Persist(s, m) \/ Lose(s, m) \/ ForgetId(s, m)
      PROVE  TypeOK'
  <2>1. stored' \in [Streams -> [Msgs -> 0..MaxCopies]]
    BY <1>6, CopyType DEF Persist, Lose, ForgetId, TypeOK
  <2>2. QED
    BY <1>6, <2>1 DEF Persist, Lose, ForgetId, TypeOK
<1>7. ASSUME NEW s \in Streams, RefreshFull(s) PROVE TypeOK'
  <2>1. full' \in [Streams -> BOOLEAN]
    BY <1>7, Zenon DEF RefreshFull, TypeOK
  <2>2. QED
    BY <1>7, <2>1 DEF RefreshFull, TypeOK
<1>8. CASE Cancel
  BY <1>8 DEF Cancel, TypeOK
<1>9. CASE Crash \/ Restart
  <2>1. full' \in [Streams -> BOOLEAN] /\ cancel' \in BOOLEAN
    BY <1>9, Zenon DEF Crash, Restart, Reset
  <2>2. NoOutcome \in [Streams -> Outcomes]
    BY DEF NoOutcome, Outcomes
  <2>3. QED
    BY <1>9, <2>1, <2>2 DEF Crash, Restart, Reset, TypeOK, Phases
<1>10. CASE UNCHANGED vars
  BY <1>10 DEF vars, TypeOK
<1>11. QED
  BY <1>1, <1>2, <1>3, <1>4, <1>5, <1>6, <1>7, <1>8, <1>9, <1>10, NextCases

\* A step takes no copy out of a stream and forgets nothing of its history.
LEMMA Monotone ==
    ASSUME TypeOK, [Next]_vars
    PROVE  /\ \A s \in Streams, m \in Msgs :
                /\ stored[s][m] \in Nat /\ stored'[s][m] \in Nat
                /\ stored[s][m] <= stored'[s][m]
           /\ discarded \subseteq discarded'
           /\ fellBack \subseteq fellBack'
           /\ expired \subseteq expired'
<1> USE DEF writerVars, brokerVars
<1>0. \A s \in Streams, m \in Msgs : stored[s][m] \in Nat
  BY DEF TypeOK
<1>1. ASSUME NEW j \in Jobs, NEW s \in Streams, FallbackOk(j, s) \/ FallbackError(j, s)
      PROVE  \A r \in Streams, m \in Msgs :
                stored'[r][m] \in Nat /\ stored[r][m] <= stored'[r][m]
  <2>1. msg[j] \in Msgs
    BY <1>1, BusyHasMessage DEF FallbackOk, FallbackError, Resolving
  <2>2. Copy(s, msg[j]) \/ UNCHANGED stored
    BY <1>1, FallbackErrorStored DEF FallbackOk
  <2>3. QED
    BY <1>0, <2>1, <2>2, CopyType
<1>2. ASSUME NEW s \in Streams, NEW m \in Msgs, Persist(s, m) \/ Lose(s, m) \/ ForgetId(s, m)
      PROVE  \A r \in Streams, n \in Msgs :
                stored'[r][n] \in Nat /\ stored[r][n] <= stored'[r][n]
  <2>1. Copy(s, m) \/ UNCHANGED stored
    BY <1>2 DEF Persist, Lose, ForgetId
  <2>2. QED
    BY <1>0, <2>1, CopyType
<1>3. ASSUME \E j \in Jobs, m \in Msgs : Submit(j, m)
      PROVE  UNCHANGED <<stored, discarded, fellBack, expired>>
  BY <1>3 DEF Submit, StartWrite
<1>4. ASSUME NEW j \in Jobs, Routed(j) \/ Resolved(j) \/ EndWrite(j)
      PROVE  UNCHANGED <<stored, discarded, fellBack, expired>>
  BY <1>4 DEF Routed, Resolved, EndWrite
<1>5. ASSUME NEW j \in Jobs, NEW s \in Streams,
             Publish(j, s) \/ DiscardFull(j, s) \/ GiveUp(j, s) \/ PafOk(j, s) \/ PafError(j, s)
      PROVE  /\ UNCHANGED <<stored, expired>>
             /\ discarded \subseteq discarded' /\ fellBack \subseteq fellBack'
  BY <1>5 DEF Publish, DiscardFull, GiveUp, PafOk, PafError
<1>6. ASSUME (\E s \in Streams : RefreshFull(s)) \/ Cancel \/ Crash \/ Restart \/ UNCHANGED vars
      PROVE  UNCHANGED <<stored, discarded, fellBack, expired>>
  BY <1>6 DEF RefreshFull, Cancel, Crash, Restart, Reset, vars
<1>7. ASSUME NEW j \in Jobs, NEW s \in Streams, FallbackOk(j, s) \/ FallbackError(j, s)
      PROVE  UNCHANGED <<discarded, fellBack, expired>>
  BY <1>7 DEF FallbackOk, FallbackError
<1>8. ASSUME NEW s \in Streams, NEW m \in Msgs, Persist(s, m) \/ Lose(s, m) \/ ForgetId(s, m)
      PROVE  UNCHANGED <<discarded, fellBack>> /\ expired \subseteq expired'
  BY <1>8 DEF Persist, Lose, ForgetId
<1>9. QED
  BY <1>0, <1>1, <1>2, <1>3, <1>4, <1>5, <1>6, <1>7, <1>8, NextCases

\* What the mark of a finished task says stays true, and a new mark is true.
LEMMA JobStep == ASSUME TypeOK, TypeOK', JobInv, [Next]_vars PROVE JobInv'
<1> DEFINE Good(j) == ws[j] # "idle" =>
        \A s \in Streams :
            /\ s \in Targets(msg[j]) => out[j][s] \in OutcomesIn(ws[j]) \ {"skip"}
            /\ out[j][s] = "ok" => stored[s][msg[j]] > 0
            /\ out[j][s] = "dropped" => s \in Discard /\ <<s, msg[j]>> \in discarded
            /\ out[j][s] = "retry" => <<s, msg[j]>> \in fellBack
<1> USE DEF writerVars, brokerVars
<1>0. \A j \in Jobs : Good(j)
  BY DEF JobInv
\* A job that takes no step: the streams and the history only grow.
<1>1. ASSUME NEW j \in Jobs, ws'[j] = ws[j], msg'[j] = msg[j],
             \A s \in Streams : out'[j][s] = out[j][s]
      PROVE  Good(j)'
  <2>1. ws[j] # "idle" => msg[j] \in Msgs
    BY BusyHasMessage
  <2>2. QED
    BY <1>0, <1>1, <2>1, Monotone
<1>2. ASSUME NEW j \in Jobs, Routed(j) \/ Resolved(j) \/ EndWrite(j)
      PROVE  \A i \in Jobs : Good(i)'
  <2>1. ASSUME NEW i \in Jobs, i # j PROVE Good(i)'
    BY <1>1, <1>2, <2>1 DEF Routed, Resolved, EndWrite, TypeOK
  <2>2. Good(j)'
    <3>1. CASE Routed(j)
      BY <1>0, <3>1 DEF Routed, OutcomesIn, Outcomes, TypeOK
    <3>2. CASE Resolved(j)
      BY <1>0, <3>2 DEF Resolved, OutcomesIn, Outcomes, TypeOK
    <3>3. CASE EndWrite(j)
      BY <3>3 DEF EndWrite, TypeOK
    <3>4. QED
      BY <1>2, <3>1, <3>2, <3>3
  <2>3. QED
    BY <2>1, <2>2
<1>3. ASSUME NEW j \in Jobs, NEW s \in Streams, Publish(j, s) \/ DiscardFull(j, s) \/ GiveUp(j, s)
      PROVE  \A i \in Jobs : Good(i)'
  <2>1. ws[j] = "write" /\ UNCHANGED <<ws, msg, stored, fellBack>>
    BY <1>3 DEF Publish, DiscardFull, GiveUp, Writing
  <2>2. \A i \in Jobs, r \in Streams : ~(i = j /\ r = s) => out'[i][r] = out[i][r]
    BY <1>3, SetOutType DEF Publish, DiscardFull, GiveUp, Outcomes
  <2>3. \/ out'[j][s] = "paf" \/ out'[j][s] = "cancelled"
        \/ out'[j][s] = "dropped" /\ s \in Discard /\ <<s, msg[j]>> \in discarded'
    BY <1>3, SetOutType DEF Publish, DiscardFull, GiveUp, Outcomes
  <2>4. ASSUME NEW i \in Jobs, i # j PROVE Good(i)'
    BY <1>1, <2>1, <2>2, <2>4
  <2>5. Good(j)'
    BY <1>0, <2>1, <2>2, <2>3, Monotone DEF OutcomesIn
  <2>6. QED
    BY <2>4, <2>5
<1>4. ASSUME NEW j \in Jobs, NEW s \in Streams,
             PafOk(j, s) \/ PafError(j, s) \/ FallbackOk(j, s) \/ FallbackError(j, s)
      PROVE  \A i \in Jobs : Good(i)'
  <2>1. ws[j] = "resolve" /\ UNCHANGED <<ws, msg>>
    BY <1>4 DEF PafOk, PafError, FallbackOk, FallbackError, Resolving
  <2>2. msg[j] \in Msgs
    BY <2>1, BusyHasMessage
  <2>3. \A i \in Jobs, r \in Streams : ~(i = j /\ r = s) => out'[i][r] = out[i][r]
    BY <1>4, SetOutType DEF PafOk, PafError, FallbackOk, FallbackError, Outcomes
  <2>4. \/ out'[j][s] = "ok" /\ stored'[s][msg[j]] > 0
        \/ out'[j][s] = "retry" /\ <<s, msg[j]>> \in fellBack'
        \/ out'[j][s] = "lost"
    <3>1. CASE PafOk(j, s)
      BY <3>1, SetOutType DEF PafOk, Outcomes
    <3>2. CASE PafError(j, s)
      BY <3>2, SetOutType DEF PafError, Outcomes
    <3>3. CASE FallbackOk(j, s)
      BY <2>2, <3>3, SetOutType, CopyType DEF FallbackOk, Outcomes
    <3>4. CASE FallbackError(j, s)
      BY <1>0, <2>1, <3>4, SetOutType DEF FallbackError, Outcomes
    <3>5. QED
      BY <1>4, <3>1, <3>2, <3>3, <3>4
  <2>5. ASSUME NEW i \in Jobs, i # j PROVE Good(i)'
    BY <1>1, <2>1, <2>3, <2>5
  <2>6. Good(j)'
    BY <1>0, <2>1, <2>2, <2>3, <2>4, Monotone DEF OutcomesIn
  <2>7. QED
    BY <2>5, <2>6
<1>5. ASSUME NEW j \in Jobs, NEW m \in Msgs, Submit(j, m)
      PROVE  \A i \in Jobs : Good(i)'
  <2>1. ASSUME NEW i \in Jobs, i # j PROVE Good(i)'
    BY <1>1, <1>5, <2>1 DEF Submit, StartWrite, TypeOK
  <2>2. Good(j)'
    <3>1. \A s \in Streams : out'[j][s] = IF s \in Targets(m) THEN "todo" ELSE "skip"
      BY <1>5 DEF Submit, StartWrite, TypeOK
    <3>2. msg'[j] = m /\ (Tag[m] = "forward" => ws'[j] = "write")
      BY <1>5, WriterAssumption DEF Submit, StartWrite, TypeOK
    <3>3. QED
      BY <3>1, <3>2 DEF Targets, OutcomesIn
  <2>3. QED
    BY <2>1, <2>2
<1>6. ASSUME UNCHANGED <<msg, ws, out>> PROVE \A i \in Jobs : Good(i)'
  BY <1>1, <1>6
<1>7. CASE Crash \/ Restart
  BY <1>7 DEF Crash, Restart, Reset, JobInv
<1>8. \/ \E j \in Jobs : Routed(j) \/ Resolved(j) \/ EndWrite(j)
      \/ \E j \in Jobs, s \in Streams : Publish(j, s) \/ DiscardFull(j, s) \/ GiveUp(j, s)
      \/ \E j \in Jobs, s \in Streams :
            PafOk(j, s) \/ PafError(j, s) \/ FallbackOk(j, s) \/ FallbackError(j, s)
      \/ \E j \in Jobs, m \in Msgs : Submit(j, m)
      \/ Crash \/ Restart
      \/ UNCHANGED <<msg, ws, out>>
  BY NextCases DEF Persist, Lose, ForgetId, RefreshFull, Cancel, vars
<1>9. JobInv' <=> \A i \in Jobs : Good(i)'
  BY DEF JobInv
<1> HIDE DEF Good
<1>10. QED
  BY <1>2, <1>3, <1>4, <1>5, <1>6, <1>7, <1>8, <1>9

\* A first copy has its id in the window, a fallback or an expired id to explain it, and a
\* second one a fallback or an expired id.
LEMMA CopyStep ==
    ASSUME TypeOK, JobInv, CopyInv, DuplicatesExplained, [Next]_vars
    PROVE  CopyInv' /\ DuplicatesExplained'
<1> USE DEF writerVars, brokerVars
<1>1. ASSUME UNCHANGED <<stored, seen>> PROVE CopyInv' /\ DuplicatesExplained'
  BY <1>1, Monotone DEF CopyInv, DuplicatesExplained
<1>2. ASSUME NEW j \in Jobs, NEW s \in Streams, FallbackOk(j, s) \/ FallbackError(j, s)
      PROVE  CopyInv' /\ DuplicatesExplained'
  <2>1. ws[j] = "resolve" /\ out[j][s] = "retry" /\ UNCHANGED <<seen, fellBack, expired>>
    BY <1>2 DEF FallbackOk, FallbackError, Resolving
  <2>2. msg[j] \in Msgs /\ <<s, msg[j]>> \in fellBack
    BY <2>1, BusyHasMessage DEF JobInv
  <2>3. Copy(s, msg[j]) \/ UNCHANGED stored
    BY <1>2, FallbackErrorStored DEF FallbackOk
  <2>4. \A r \in Streams, n \in Msgs : stored'[r][n] # stored[r][n] => <<r, n>> \in fellBack
    BY <2>2, <2>3, CopyType
  <2>5. QED
    BY <2>1, <2>4 DEF CopyInv, DuplicatesExplained
<1>3. ASSUME NEW s \in Streams, NEW m \in Msgs, Persist(s, m)
      PROVE  CopyInv' /\ DuplicatesExplained'
  <2>1. UNCHANGED <<fellBack, expired>>
    BY <1>3 DEF Persist
  <2>2. m \in seen'[s] /\ \A r \in Streams : seen[r] \subseteq seen'[r]
    BY <1>3 DEF Persist, TypeOK
  <2>3. CASE m \in seen[s]
    BY <1>3, <2>1, <2>2, <2>3 DEF Persist, IsKnown, CopyInv, DuplicatesExplained
  <2>4. CASE m \notin seen[s]
    <3>1. Copy(s, m)
      BY <1>3, <2>4 DEF Persist, IsKnown
    <3>2. \A r \in Streams, n \in Msgs : stored'[r][n] # stored[r][n] => r = s /\ n = m
      BY <3>1, CopyType
    <3>3. stored'[s][m] > 1 => stored[s][m] > 0
      BY <3>1, CopyType
    <3>4. CopyInv'
      BY <2>1, <2>2, <3>2 DEF CopyInv
    <3>5. DuplicatesExplained'
      BY <2>1, <2>4, <3>2, <3>3 DEF CopyInv, DuplicatesExplained
    <3>6. QED
      BY <3>4, <3>5
  <2>5. QED
    BY <2>3, <2>4
<1>4. ASSUME NEW s \in Streams, NEW m \in Msgs, ForgetId(s, m)
      PROVE  CopyInv' /\ DuplicatesExplained'
  <2>1. UNCHANGED <<stored, fellBack>> /\ expired' = expired \cup {<<s, m>>}
    BY <1>4 DEF ForgetId
  <2>2. \A r \in Streams, n \in Msgs : n \in seen[r] => n \in seen'[r] \/ (r = s /\ n = m)
    BY <1>4 DEF ForgetId, TypeOK
  <2>3. QED
    BY <2>1, <2>2 DEF CopyInv, DuplicatesExplained
<1>5. \/ UNCHANGED <<stored, seen>>
      \/ \E j \in Jobs, s \in Streams : FallbackOk(j, s) \/ FallbackError(j, s)
      \/ \E s \in Streams, m \in Msgs : Persist(s, m) \/ ForgetId(s, m)
  BY NextCases DEF Routed, Resolved, EndWrite, Publish, DiscardFull, GiveUp, PafOk, PafError, Submit,
      StartWrite, Lose, RefreshFull, Cancel, Crash, Restart, Reset, vars
<1>6. QED
  BY <1>1, <1>2, <1>3, <1>4, <1>5

\* A task that ends with a success has written or discarded its message everywhere.
LEMMA SuccessStep ==
    ASSUME TypeOK, JobInv, SuccessMeansStored, [Next]_vars
    PROVE  SuccessMeansStored'
<1> USE DEF writerVars, brokerVars
<1>1. ASSUME NEW m \in Msgs, Tag[m] = "forward", NEW s \in Routes[m],
             stored[s][m] > 0 \/ (s \in Discard /\ <<s, m>> \in discarded)
      PROVE  stored'[s][m] > 0 \/ (s \in Discard /\ <<s, m>> \in discarded')
  BY <1>1, Monotone, WriterAssumption
<1>2. done \subseteq Msgs
  BY DEF TypeOK
<1>3. CASE UNCHANGED done
  BY <1>1, <1>2, <1>3 DEF SuccessMeansStored
<1>4. ASSUME NEW j \in Jobs, EndWrite(j), ws[j] = "success" PROVE SuccessMeansStored'
  <2>1. msg[j] \in Msgs /\ done' = done \cup {msg[j]}
    BY <1>4, BusyHasMessage DEF EndWrite
  <2>2. ASSUME Tag[msg[j]] = "forward", NEW s \in Routes[msg[j]]
        PROVE  stored[s][msg[j]] > 0 \/ (s \in Discard /\ <<s, msg[j]>> \in discarded)
    <3>1. s \in Streams /\ s \in Targets(msg[j])
      BY <2>1, <2>2, WriterAssumption DEF Targets
    <3>2. out[j][s] \in {"dropped", "ok"}
      BY <1>4, <3>1 DEF JobInv, OutcomesIn
    <3>3. QED
      BY <1>4, <3>1, <3>2 DEF JobInv
  <2>3. QED
    BY <1>1, <1>2, <2>1, <2>2 DEF SuccessMeansStored
<1>5. UNCHANGED done \/ \E j \in Jobs : EndWrite(j) /\ ws[j] = "success"
  BY NextCases DEF Routed, Resolved, EndWrite, Publish, DiscardFull, GiveUp, PafOk, PafError,
      FallbackOk, FallbackError, Submit, StartWrite, Persist, Lose, ForgetId, RefreshFull, Cancel,
      Crash, Restart, Reset, vars
<1>6. QED
  BY <1>3, <1>4, <1>5

----------------------------------------------------------------------------

\* The inductive invariant holds in every state.
THEOREM InvariantHolds == Spec => []IInv
<1>1. Init => IInv
  BY TypeInit DEF Init, IInv, JobInv, CopyInv, SuccessMeansStored, DuplicatesExplained
<1>2. IInv /\ [Next]_vars => IInv'
  <2> SUFFICES ASSUME IInv, [Next]_vars PROVE IInv'
    OBVIOUS
  <2> USE DEF IInv
  <2>1. TypeOK' BY TypeStep
  <2>2. JobInv' BY <2>1, JobStep
  <2>3. CopyInv' /\ DuplicatesExplained' BY CopyStep
  <2>4. SuccessMeansStored' BY SuccessStep
  <2>5. QED BY <2>1, <2>2, <2>3, <2>4
<1>3. QED
  BY <1>1, <1>2, PTL DEF Spec

\* The types, and that a permit is held exactly while a task has a message (streaming_write).
THEOREM TypesHold == Spec => []TypeOK
<1>1. IInv => TypeOK
  BY DEF IInv
<1>2. QED
  BY <1>1, InvariantHolds, PTL

\* mark_success is called only for a message that every stream it is routed to holds, or was
\* allowed to discard, whatever failed, was cancelled or crashed before.
THEOREM NoSilentLoss == Spec => []SuccessMeansStored
<1>1. IInv => SuccessMeansStored
  BY DEF IInv
<1>2. QED
  BY <1>1, InvariantHolds, PTL

\* A stream holds a message twice only after a fallback write without an id, or when the id had
\* left the deduplication window.
THEOREM DuplicatesAreExplained == Spec => []DuplicatesExplained
<1>1. IInv => DuplicatesExplained
  BY DEF IInv
<1>2. QED
  BY <1>1, InvariantHolds, PTL

=============================================================================
