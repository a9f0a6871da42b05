---------------------------- MODULE SessionReduce ----------------------------
(***************************************************************************)
(* A reduce vertex with session windows: SessionWindowManager              *)
(* (reduce/reducer/unaligned/windower/session.rs), UnalignedReducer,       *)
(* UnalignedReduceActor and the session ReduceTask (reducer.rs), the       *)
(* published watermark, shutdown, a failing UDF, restart and replay.       *)
(*                                                                         *)
(* All sessions share one stream to the SDK.  A window is its key, start   *)
(* and end.  The channels between the reducer and the SDK are one queue.   *)
(* Of the WAL, whose files ReduceWal models, the items read, those of them *)
(* a kill has taken and the frozen GC events are kept.                     *)
(***************************************************************************)
EXTENDS Integers, Sequences, SequencesExt, FiniteSets, FiniteSetsExt, TLC

CONSTANTS
    Keys,
    Inputs,     \* the inputs considered
    Keyed,      \* whether the vertex is keyed
    Timeout,    \* the timeout of a session
    Lateness,   \* allowed_lateness
    ChanCap,    \* bound: capacity of the channel from PBQ (500)
    MaxFaults,  \* bound: failures of the UDF, signals and kills
    Losses      \* bound: the sets of items a kill may take from the WAL (any)

Item == [typ : {"data", "wmb"}, key : Keys, et : Nat, wm : Int, late : BOOLEAN]

\* What the reader can deliver: as in AlignedReduce.
Possible(in) ==
    /\ in \in Seq(Item)
    /\ \A i \in DOMAIN in :
          /\ i > 1 => in[i].wm >= in[i-1].wm
          /\ in[i].et >= in[i].wm \/ in[i].late
          /\ in[i].typ = "wmb" => in[i].et = in[i].wm

ASSUME SessionAssumption ==
    /\ Keys # {} /\ "NON_KEYED_STREAM" \notin Keys
    /\ \A in \in Inputs : Possible(in)
    /\ Keyed \in BOOLEAN
    /\ {Timeout, ChanCap} \subseteq Nat \ {0}
    /\ {Lateness, MaxFaults} \subseteq Nat
    /\ \A items \in Losses : items \subseteq Nat

VARIABLES
    input,          \* what is read; it never changes
    up,             \* the pod runs
    nread,          \* items read from the ISB and written to the WAL
    gone,           \* those of them that were in no frozen segment when the pod was killed
    replay,         \* items the boot compaction has still to replay
    chan,           \* the channel from PBQ to the reducer
    wm,             \* current_watermark
    active,         \* active_windows, by key
    closed,         \* closed_windows
    reqs,           \* window operations on their way to the SDK
    sdk,            \* the SDK's windows: state and messages
    writing,        \* results handed to the ISB writer and not yet written
    tracked,        \* tracked_windows, by key
    task,           \* the reduce task: none, run, ending, done
    failed, err,    \* the UDF has failed; the error is in error_rx
    shutting,       \* shutting_down_on_err
    cancel, hard,   \* the token and the hard_shutdown_token
    ended,          \* the input stream has ended
    gcq, gc,        \* GC events sent since boot; the end a boot will read for each key
    fetched, pub,   \* latest_fetched_wm, and the largest watermark published
    early,          \* history: messages overtaken by a watermark in chan, or drained
    accepted,       \* history: messages assigned to windows
    results,        \* history: windows with a result, each with its messages
    faults,         \* failures, signals and kills so far
    flaws           \* history: what the properties except, see Flaw

inVars == <<input, nread, gone>>
pbqVars == <<replay, chan>>
winVars == <<active, closed>>
taskVars == <<sdk, writing, tracked, task, failed>>
ctlVars == <<err, shutting, cancel, hard, ended>>
gcVars == <<gcq, gc>>
pubVars == <<fetched, pub, early>>
histVars == <<accepted, results, faults>>
vars == <<inVars, up, pbqVars, wm, winVars, reqs, taskVars, ctlVars, gcVars, pubVars, histVars, flaws>>

\* dropped: insertion into a BTreeSet found a window of the key with the same end.
\* clash: insertion into closed_windows found one of another key.
\* overwritten: tracked_windows held an earlier session of the key.
\* overtaken: the SDK finished a session before an earlier one of the key.
\* lost: the writer gave a result up at the hard shutdown.
Flaw == {"dropped", "clash", "overwritten", "overtaken", "lost"}

Win(k, s, e) == [k |-> k, s |-> s, e |-> e]
Default == "NON_KEYED_STREAM"
WinKeys == IF Keyed THEN Keys ELSE {Default}
KeyOf(m) == IF Keyed THEN input[m].key ELSE Default
NoWindow == <<>>

Init ==
    /\ input \in Inputs
    /\ up = TRUE /\ nread = 0 /\ gone = {} /\ replay = <<>> /\ chan = <<>> /\ wm = -1
    /\ active = [k \in WinKeys |-> {}] /\ closed = {}
    /\ reqs = <<>> /\ sdk = <<>> /\ writing = {} /\ tracked = [k \in WinKeys |-> NoWindow]
    /\ task = "none" /\ failed = FALSE
    /\ err = FALSE /\ shutting = FALSE /\ cancel = FALSE /\ hard = FALSE /\ ended = FALSE
    /\ gcq = <<>> /\ gc = [k \in WinKeys |-> -1]
    /\ fetched = -1 /\ pub = -1 /\ early = {}
    /\ accepted = {} /\ results = {} /\ faults = 0 /\ flaws = {}

Larger(a, b) == IF a > b THEN a ELSE b
Smaller(a, b) == IF a < b THEN a ELSE b
Flag(cond, name) == IF cond THEN {name} ELSE {}

----------------------------------------------------------------------------
(* PBQ, as in AlignedReduce.                                               *)

Replay ==
    /\ up /\ replay # <<>> /\ Len(chan) < ChanCap
    /\ chan' = Append(chan, Head(replay))
    /\ replay' = Tail(replay)
    /\ UNCHANGED <<inVars, up, wm, winVars, reqs, taskVars, ctlVars, gcVars, pubVars, histVars, flaws>>

\* The reader starts after the replay and stops at the token.
Read ==
    /\ up /\ ~cancel
    /\ replay = <<>> /\ Len(chan) < ChanCap
    /\ nread < Len(input)
    /\ nread' = nread + 1
    /\ chan' = Append(chan, nread')
    /\ fetched' = Larger(fetched, input[nread'].wm)
    /\ UNCHANGED <<input, gone, up, replay, wm, winVars, reqs, taskVars, ctlVars, gcVars, pub, early, histVars, flaws>>

----------------------------------------------------------------------------
(* SessionWindowManager.  A BTreeSet of windows is ordered by their ends   *)
(* alone: an insertion leaves a window with the same end where it is.      *)

HasEnd(ws, w) == \E v \in ws : v.e = w.e
\* Mutant: windows are ordered by start and key too.
InsertAny(ws, w) == ws \cup {w}
Insert(ws, w) == IF HasEnd(ws, w) THEN ws ELSE ws \cup {w}
FirstOf(ws) == CHOOSE w \in ws : \A v \in ws : w.e <= v.e

Hull(ws) == [FirstOf(ws) EXCEPT !.s = Min({w.s : w \in ws}), !.e = Max({w.e : w \in ws})]
Covers(w, v) == w.s <= v.s /\ v.e <= w.e

\* find_window_to_merge takes the first of these.
Overlapping(ws, w) == {v \in ws : w.s < v.e /\ v.s < w.e}

\* assign_windows: the operation for the SDK, and the key's windows after it.
Assign(ws, m) ==
    LET new == Win(KeyOf(m), input[m].et, input[m].et + Timeout)
        old == FirstOf(Overlapping(ws, new))
        big == Hull({old, new})
    IN  IF Overlapping(ws, new) = {}
        THEN [op |-> [op |-> "open", m |-> m, ws |-> <<new>>], ws |-> Insert(ws, new), dropped |-> FALSE]
        ELSE IF Covers(old, new)
        THEN [op |-> [op |-> "append", m |-> m, ws |-> <<old>>], ws |-> ws, dropped |-> FALSE]
        ELSE [op |-> [op |-> "expand", m |-> m, ws |-> <<old, big>>],
              ws |-> Insert(ws \ {old}, big), dropped |-> HasEnd(ws \ {old}, big)]

\* windows_that_can_be_merged: expired windows that overlap, the smaller ones first.
Groups(ws) ==
    FoldRight(
        LAMBDA w, gs : IF gs # <<>> /\ w.e > Hull(Head(gs)).s
                       THEN <<Head(gs) \cup {w}>> \o Tail(gs) ELSE <<{w}>> \o gs,
        SetToSortSeq(ws, LAMBDA v, w : v.e < w.e), <<>>)

\* Mutant: a session that expires is not merged with the active ones.
CloseGroupAlone(acc, g) ==
    LET w == Hull(g)
        merge == IF Cardinality(g) = 1 THEN <<>> ELSE <<[op |-> "merge", m |-> 0, ws |-> SetToSeq(g)]>>
    IN  [acc EXCEPT !.ops = @ \o merge \o <<[op |-> "close", m |-> 0, ws |-> <<w>>]>>,
                    !.done = Append(@, w)]

\* process_close_window_group: merge the group, then with an active window, or close.
CloseGroup(acc, g) ==
    LET w == Hull(g)
        merge == IF Cardinality(g) = 1 THEN <<>> ELSE <<[op |-> "merge", m |-> 0, ws |-> SetToSeq(g)]>>
        a == FirstOf(Overlapping(acc.ws, w))
    IN  IF Overlapping(acc.ws, w) = {}
        THEN [acc EXCEPT !.ops = @ \o merge \o <<[op |-> "close", m |-> 0, ws |-> <<w>>]>>,
                         !.done = Append(@, w)]
        ELSE [acc EXCEPT !.ws = Insert(@ \ {a}, Hull({w, a})),
                         !.ops = @ \o merge \o <<[op |-> "merge", m |-> 0, ws |-> <<w, a>>]>>]

\* close_windows for one key and the watermark x, as a set of one: the key's windows, the
\* operations, and what goes to closed_windows.
CloseKey(k, x) ==
    {FoldLeft(CloseGroup, [k |-> k, ws |-> {w \in active[k] : w.e > x}, ops |-> <<>>, done |-> <<>>], gs) :
        gs \in {Groups({w \in active[k] : w.e <= x})}}

\* close_windows: the keys in the order of a HashMap.
Closings(x) ==
    LET due == {k \in WinKeys : \E w \in active[k] : w.e <= x} IN
    { [active |-> [k \in WinKeys |-> UNION ({active[k] : j \in {k} \ due} \cup {c.ws : c \in {d \in Range(cs) : d.k = k}})],
       ops |-> FlattenSeq([i \in DOMAIN cs |-> cs[i].ops]),
       done |-> FlattenSeq([i \in DOMAIN cs |-> cs[i].done])] :
      cs \in SetToSeqs(UNION {CloseKey(k, x) : k \in due}) }

MoveToClosed(ws) == FoldLeft(Insert, closed, ws)

\* Mutant: older windows are removed, this one is not.
DeleteOlder(cls, w) == {v \in cls : v.e >= w.e}

\* delete_window removes the window with this end, whatever its key.
DeleteWindow(cls, w) == {v \in cls : v.e # w.e}

\* oldest_window_end_time: a closed one if there is any.
OldestEnd == Min({w.e : w \in IF closed # {} THEN closed ELSE UNION {active[k] : k \in WinKeys}})

----------------------------------------------------------------------------
(* UnalignedReducer.                                                       *)

\* The two checks of assign_and_close_windows, as in AlignedReduce.
Drops(m, x) ==
    \/ input[m].late /\ (x = -1 \/ input[m].et < x - Lateness)
    \/ x > input[m].et

\* The next item of the channel.
Take ==
    /\ up /\ ~ended /\ chan # <<>>
    /\ chan' = Tail(chan)
    /\ UNCHANGED <<inVars, up, replay>>

\* What closing windows does; ops are the operations that follow the closings.
Close(c, act, ops) ==
    /\ active' = act
    /\ closed' = MoveToClosed(c.done)
    /\ reqs' = reqs \o c.ops \o ops

Clashes(c) == Len(c.done) + Cardinality(closed) > Cardinality(MoveToClosed(c.done))

ConsumeData ==
    /\ Take /\ ~shutting
    /\ input[Head(chan)].typ = "data"
    /\ LET m == Head(chan)
           k == KeyOf(m)
           x == Larger(wm, input[m].wm)
       IN
       /\ wm' = x
       /\ IF Drops(m, x)
          THEN UNCHANGED <<winVars, reqs, accepted, flaws>>
          ELSE \E c \in Closings(x - Lateness) :
                  LET a == Assign(c.active[k], m) IN
                  /\ Close(c, [c.active EXCEPT ![k] = a.ws], <<a.op>>)
                  /\ accepted' = accepted \cup {m}
                  /\ flaws' = flaws \cup Flag(a.dropped, "dropped") \cup Flag(Clashes(c), "clash")
    /\ UNCHANGED <<taskVars, ctlVars, gcVars, pubVars, results, faults>>

\* An idle watermark closes windows if it is larger than the current one.
ConsumeWmb ==
    /\ Take /\ ~shutting
    /\ input[Head(chan)].typ = "wmb"
    /\ LET x == input[Head(chan)].wm IN
       IF x > wm
       THEN /\ wm' = x
            /\ \E c \in Closings(x - Lateness) :
                  Close(c, c.active, <<>>) /\ flaws' = flaws \cup Flag(Clashes(c), "clash")
       ELSE UNCHANGED <<wm, winVars, reqs, flaws>>
    /\ UNCHANGED <<taskVars, ctlVars, gcVars, pubVars, histVars>>

\* After an error the input is drained; it is in the WAL.
Drain ==
    /\ Take /\ shutting
    /\ early' = early \cup {Head(chan)}
    /\ UNCHANGED <<wm, winVars, reqs, taskVars, ctlVars, gcVars, fetched, pub, histVars, flaws>>

HandleError ==
    /\ up /\ ~ended /\ err
    /\ err' = FALSE /\ shutting' = TRUE /\ cancel' = TRUE
    /\ UNCHANGED <<inVars, up, pbqVars, wm, winVars, reqs, taskVars, hard, ended, gcVars, pubVars, histVars, flaws>>

\* The reader has seen the token and PBQ has passed on everything.
StreamEnds ==
    /\ up /\ cancel /\ ~ended
    /\ replay = <<>> /\ chan = <<>>
    /\ ended' = TRUE
    /\ UNCHANGED <<inVars, up, pbqVars, wm, winVars, reqs, taskVars, err, shutting, cancel, hard,
                   gcVars, pubVars, histVars, flaws>>

----------------------------------------------------------------------------
(* The SDK, external: it keeps the windows it is told of.                  *)

MessagesOf(ws) == UNION {sdk[w].ms : w \in ws \cap DOMAIN sdk}
Replaced(ws, w, st, ms) == (w :> [st |-> st, ms |-> ms]) @@ [v \in DOMAIN sdk \ ws |-> sdk[v]]

\* One window operation; the first one makes the actor start the task.
SdkApply ==
    /\ up /\ task \in {"none", "run"} /\ reqs # <<>>
    /\ LET r == Head(reqs)
           ws == Range(r.ws)
       IN sdk' = CASE r.op = "close" -> Replaced(ws, r.ws[1], "closing", MessagesOf(ws))
                   [] r.op = "merge" -> Replaced(ws, Hull(ws), "open", MessagesOf(ws))
                   [] OTHER -> Replaced(ws, Last(r.ws), "open", MessagesOf(ws) \cup {r.m})
    /\ reqs' = Tail(reqs)
    /\ task' = "run"
    /\ UNCHANGED <<inVars, up, pbqVars, wm, winVars, writing, tracked, failed, ctlVars, gcVars, pubVars, histVars, flaws>>

----------------------------------------------------------------------------
(* ReduceTask.                                                             *)

\* The result of a closed window is received and handed to the writer.
Response(w) ==
    /\ up /\ task = "run"
    /\ w \in DOMAIN sdk /\ sdk[w].st = "closing"
    /\ sdk' = [sdk EXCEPT ![w].st = "answered"]
    /\ writing' = writing \cup {[w |-> w, ms |-> sdk[w].ms]}
    /\ flaws' = flaws \cup Flag(\E v \in DOMAIN sdk : v.k = w.k /\ v.e < w.e, "overtaken")
    /\ UNCHANGED <<inVars, up, pbqVars, wm, winVars, reqs, tracked, task, failed, ctlVars, gcVars, pubVars, histVars>>

\* Its EOF is received: the window replaces what tracked_windows has for the keys.
Eof(w) ==
    /\ up /\ task = "run"
    /\ w \in DOMAIN sdk /\ sdk[w].st = "answered"
    /\ sdk' = [v \in DOMAIN sdk \ {w} |-> sdk[v]]
    /\ tracked' = [tracked EXCEPT ![w.k] = w]
    /\ flaws' = flaws \cup Flag(tracked[w.k] # NoWindow, "overwritten")
    /\ UNCHANGED <<inVars, up, pbqVars, wm, winVars, reqs, writing, task, failed, ctlVars, gcVars, pubVars, histVars>>

WriteResult(r) ==
    /\ up /\ r \in writing
    /\ writing' = writing \ {r}
    /\ results' = results \cup {r}
    /\ UNCHANGED <<inVars, up, pbqVars, wm, winVars, reqs, sdk, tracked, task, failed, ctlVars, gcVars, pubVars,
                   accepted, faults, flaws>>

\* A write that is retried when the hard shutdown comes is given up: the result has no
\* upstream to be redelivered from, and the writer ends without an error.
GiveUpWrite(r) ==
    /\ up /\ hard /\ r \in writing
    /\ writing' = writing \ {r}
    /\ flaws' = flaws \cup {"lost"}
    /\ UNCHANGED <<inVars, up, pbqVars, wm, winVars, reqs, sdk, tracked, task, failed, ctlVars, gcVars, pubVars, histVars>>

\* write_gc_events, in the order of a HashMap, and delete_tracked_windows.
CollectGarbage ==
    LET ks == {k \in WinKeys : tracked[k] # NoWindow} IN
    /\ gcq' = gcq \o SetToSeq({[k |-> k, e |-> tracked[k].e] : k \in ks})
    /\ closed' = {v \in closed : \A k \in ks : v \in DeleteWindow(closed, tracked[k])}
    /\ tracked' = [k \in WinKeys |-> NoWindow]

\* Mutant: the writer is not waited for.
BatchTickEarly ==
    /\ up /\ task = "run"
    /\ tracked # [k \in WinKeys |-> NoWindow]
    /\ CollectGarbage
    /\ UNCHANGED <<inVars, up, pbqVars, wm, active, reqs, sdk, writing, task, failed, ctlVars, gc, pubVars, histVars, flaws>>

\* The batch timer: the writer is awaited before the tracked windows go.
BatchTick ==
    /\ up /\ task = "run" /\ writing = {}
    /\ tracked # [k \in WinKeys |-> NoWindow]
    /\ CollectGarbage
    /\ UNCHANGED <<inVars, up, pbqVars, wm, active, reqs, sdk, writing, task, failed, ctlVars, gc, pubVars, histVars, flaws>>

\* The stream to the SDK fails.
UdfFails ==
    /\ up /\ task = "run" /\ faults < MaxFaults
    /\ task' = "ending" /\ failed' = TRUE /\ faults' = faults + 1
    /\ UNCHANGED <<inVars, up, pbqVars, wm, winVars, reqs, sdk, writing, tracked, ctlVars, gcVars, pubVars,
                   accepted, results, flaws>>

\* The hard shutdown is seen.
TaskCancelled ==
    /\ up /\ hard /\ task = "run"
    /\ task' = "ending"
    /\ UNCHANGED <<inVars, up, pbqVars, wm, winVars, reqs, sdk, writing, tracked, failed, ctlVars, gcVars, pubVars, histVars, flaws>>

\* After the end of the responses: the last batch, and the error if there was one.
TaskEnds ==
    /\ up /\ task = "ending" /\ writing = {}
    /\ CollectGarbage
    /\ task' = "done"
    /\ err' = (err \/ failed)
    /\ UNCHANGED <<inVars, up, pbqVars, wm, active, reqs, sdk, writing, failed, shutting, cancel, hard, ended,
                   gc, pubVars, histVars, flaws>>

----------------------------------------------------------------------------
(* compute_min_watermark, for the results and for the idle ticker.         *)

\* Mutant: only the active windows hold the watermark.
MinWatermarkActive ==
    LET ws == UNION {active[k] : k \in WinKeys} IN
    IF ws = {} THEN fetched ELSE Smaller(fetched, FirstOf(ws).e - 1)

MinWatermark ==
    IF closed = {} /\ \A k \in WinKeys : active[k] = {} THEN fetched ELSE Smaller(fetched, OldestEnd - 1)

Publish ==
    /\ up
    /\ MinWatermark > pub
    /\ pub' = MinWatermark
    /\ early' = early \cup {m \in Range(chan) : input[m].et + Timeout <= pub'}
    /\ UNCHANGED <<inVars, up, pbqVars, wm, winVars, reqs, taskVars, ctlVars, gcVars, fetched, histVars, flaws>>

----------------------------------------------------------------------------
(* Shutdown, kill and boot.                                                *)

Cancel ==
    /\ up /\ ~cancel /\ faults < MaxFaults
    /\ cancel' = TRUE /\ faults' = faults + 1
    /\ UNCHANGED <<inVars, up, pbqVars, wm, winVars, reqs, taskVars, err, shutting, hard, ended,
                   gcVars, pubVars, accepted, results, flaws>>

HardShutdown ==
    /\ up /\ cancel /\ ~hard
    /\ hard' = TRUE
    /\ UNCHANGED <<inVars, up, pbqVars, wm, winVars, reqs, taskVars, err, shutting, cancel, ended,
                   gcVars, pubVars, histVars, flaws>>

\* The GC writer is not waited for: a boot reads the events up to some point.
Frozen ==
    {[k \in WinKeys |-> Max({gc[k]} \cup {gcq[j].e : j \in {j \in 1..i : gcq[j].k = k}})] : i \in 0..Len(gcq)}

Down ==
    /\ up' = FALSE
    /\ gc' \in Frozen
    /\ gcq' = <<>> /\ replay' = <<>> /\ chan' = <<>> /\ wm' = -1
    /\ active' = [k \in WinKeys |-> {}] /\ closed' = {}
    /\ reqs' = <<>> /\ sdk' = <<>> /\ writing' = {} /\ tracked' = [k \in WinKeys |-> NoWindow]
    /\ task' = "none" /\ failed' = FALSE
    /\ err' = FALSE /\ shutting' = FALSE /\ cancel' = FALSE /\ hard' = FALSE /\ ended' = FALSE
    /\ fetched' = -1

\* The actor has ended: its task has, or there was none.
Exit ==
    /\ up /\ ended
    /\ task = "done" \/ (task = "none" /\ reqs = <<>>)
    /\ Down
    /\ UNCHANGED <<inVars, pub, early, histVars, flaws>>

\* Items in segments that are not frozen are lost, though they were acknowledged: the active
\* segment of the data writer and of a compaction (ReduceWal says which).
Kill ==
    /\ up /\ faults < MaxFaults
    /\ faults' = faults + 1
    /\ \E items \in Losses : gone' = gone \cup (items \cap 1..nread)
    /\ Down
    /\ UNCHANGED <<input, nread, pub, early, accepted, results, flaws>>

\* Mutant: what ends with the session is deleted too.
RetainedAfter(m) == input[m].key \notin WinKeys \/ input[m].typ = "wmb" \/ input[m].et > gc[input[m].key]

\* The unaligned compaction: by the keys the message was read with.
Retained(m) == input[m].key \notin WinKeys \/ input[m].typ = "wmb" \/ input[m].et >= gc[input[m].key]

\* list_files gives the compaction the frozen segments only.
Readable == (1..nread) \ gone

Boot ==
    /\ ~up
    /\ up' = TRUE
    /\ replay' = SelectSeq([i \in 1..nread |-> i], LAMBDA m : m \in Readable /\ Retained(m))
    /\ UNCHANGED <<inVars, chan, wm, winVars, reqs, taskVars, ctlVars, gcVars, pubVars, histVars, flaws>>

ReducerNext == ConsumeData \/ ConsumeWmb \/ Drain
SdkNext == SdkApply \/ \E w \in DOMAIN sdk : Response(w) \/ Eof(w)
WriterNext == \E r \in writing : WriteResult(r)
FaultNext == (\E r \in writing : GiveUpWrite(r)) \/ UdfFails \/ Cancel \/ Kill

\* Every item is read and reduced as far as its watermarks allow.
Idle ==
    /\ up /\ ~cancel /\ ~err /\ task # "ending"
    /\ nread = Len(input) /\ replay = <<>> /\ chan = <<>> /\ reqs = <<>> /\ writing = {}
    /\ \A w \in DOMAIN sdk : sdk[w].st = "open"
    /\ tracked = [k \in WinKeys |-> NoWindow]
    /\ UNCHANGED vars

Next ==
    \/ Replay \/ Read
    \/ ReducerNext \/ HandleError \/ StreamEnds
    \/ SdkNext \/ WriterNext \/ BatchTick \/ TaskCancelled \/ TaskEnds
    \/ Publish
    \/ HardShutdown \/ Exit \/ Boot
    \/ FaultNext \/ Idle

Spec == Init /\ [][Next]_vars

\* Every task gets to run, the SDK answers, the batch timer ticks, the graceful timeout
\* passes, writes succeed in the end and the pod is started again.
FairSpec ==
    /\ Spec
    /\ WF_vars(Replay \/ Read)
    /\ WF_vars(ReducerNext) /\ WF_vars(HandleError) /\ WF_vars(StreamEnds)
    /\ WF_vars(SdkNext) /\ WF_vars(WriterNext) /\ WF_vars(BatchTick)
    /\ WF_vars(HardShutdown) /\ WF_vars(TaskCancelled) /\ WF_vars(TaskEnds)
    /\ WF_vars(Exit) /\ WF_vars(Boot)

----------------------------------------------------------------------------

Windows == [k : WinKeys, s : Nat, e : Nat]

TypeOK ==
    /\ input \in Inputs /\ nread \in 0..Len(input)
    /\ {replay, chan} \subseteq Seq(1..nread) /\ Len(chan) <= ChanCap
    /\ \A k \in WinKeys : active[k] \subseteq Windows /\ \A w \in active[k] : w.k = k /\ w.s < w.e
    /\ \A ws \in {active[k] : k \in WinKeys} \cup {closed} : \A v, w \in ws : v.e = w.e => v = w
    /\ closed \subseteq Windows /\ DOMAIN sdk \subseteq Windows
    /\ \A w \in DOMAIN sdk : sdk[w].st \in {"open", "closing", "answered"} /\ sdk[w].ms \subseteq 1..nread
    /\ \A r \in writing \cup results : r.w \in Windows /\ r.ms \subseteq accepted
    /\ \A k \in WinKeys : tracked[k] \in Windows \cup {NoWindow} /\ gc[k] \in Int
    /\ task \in {"none", "run", "ending", "done"}
    /\ {wm, fetched, pub} \subseteq Int
    /\ {up, failed, err, shutting, cancel, hard, ended} \subseteq BOOLEAN
    /\ gone \cup early \cup accepted \subseteq 1..nread /\ flaws \subseteq Flaw
    /\ faults \in 0..MaxFaults

\* The session of a message by its definition: the accepted messages of the key that no
\* time of inactivity separates from it.
Quiet(k, t) == \A m \in accepted : KeyOf(m) = k => input[m].et >= t \/ t >= input[m].et + Timeout
SessionOf(m) ==
    {n \in accepted : /\ KeyOf(n) = KeyOf(m)
                      /\ \A t \in (Smaller(input[m].et, input[n].et) + 1)..Larger(input[m].et, input[n].et) :
                            ~Quiet(KeyOf(m), t)}

\* Every result is reduced from a whole session and nothing else, however its messages
\* were ordered and its windows opened, expanded and merged (session.rs), through failures
\* and restarts; of a session a kill has taken messages of, from part of it.  Excepted: a
\* window was dropped from its BTreeSet.
ResultIsSession ==
    "dropped" \notin flaws => \A r \in results : \A m \in r.ms :
        /\ r.ms \subseteq SessionOf(m)
        /\ SessionOf(m) \cap gone = {} => r.ms = SessionOf(m)

\* The messages a GC event lets the compaction delete are in results that were written
\* (the writer is awaited before write_gc_events).  Excepted: the flaws, and messages a kill
\* has taken, of which nothing is left to delete.
Reduced == UNION {r.ms : r \in results}
GcEnd(k) == Max({gc[k]} \cup {gcq[j].e : j \in {j \in DOMAIN gcq : gcq[j].k = k}})
Known == {"dropped", "overtaken", "lost"}
GcContract ==
    flaws \cap Known = {} => \A m \in accepted \ gone : input[m].et < GcEnd(KeyOf(m)) => m \in Reduced

\* A closed session without result, with the SDK or with the writer, holds the published
\* watermark below the time of its result (closed_windows is kept for this), through
\* restarts: no result is late when it is written.  Excepted: a session with a message that
\* a published watermark overtook in the channel from PBQ, or that was drained; and sessions of
\* a key that a kill has taken messages of.
Unfinished == closed \cup {w \in DOMAIN sdk : sdk[w].st # "open"} \cup {r.w : r \in writing}
Overtaken(w) == \E m \in early : KeyOf(m) = w.k /\ w.s <= input[m].et /\ input[m].et < w.e
WatermarkWaitsForSessions ==
    flaws \cap {"dropped", "clash", "lost"} = {}
        => \A w \in Unfinished \ {r.w : r \in results} :
              pub < w.e \/ Overtaken(w) \/ \E m \in gone : KeyOf(m) = w.k

\* A closed window is released in the end and stops holding the watermark.  Excepted: its
\* entry in tracked_windows was overwritten.
ClosedReleased ==
    closed # {} ~> closed = {} \/ "overwritten" \in flaws

Messages == UNION {{m \in DOMAIN in : in[m].typ = "data"} : in \in Inputs}

\* Every message assigned to a window is in a result in the end, through failures, signals and
\* restarts.  Excepted: a kill has taken the message, or every item whose watermark closes its
\* session but those the compaction has deleted with their own; and the flaws.
Closable(m) ==
    \E i \in {j \in DOMAIN input \ gone : Retained(j)} : \A n \in SessionOf(m) : input[n].et + Timeout <= input[i].wm - Lateness
EveryMessageReduced ==
    \A m \in Messages :
        m \in accepted ~>
            \/ m \in gone \/ flaws \cap Known # {}
            \/ m \in accepted /\ (Closable(m) => m \in Reduced)

\* The same without exceptions: "The moment an event that arrives in between the two windows
\* arrives, the two windows are merged into one" (session.md), so none of their messages is
\* lost by assign_windows or close_windows.
NoMessageLost == \A m \in Messages : m \in accepted ~> m \in Reduced

==============================================================================
