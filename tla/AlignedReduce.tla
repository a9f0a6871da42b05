--------------------------- MODULE AlignedReduce ---------------------------
(***************************************************************************)
(* A reduce vertex with fixed or sliding windows: the window managers      *)
(* (reduce/reducer/aligned/windower), AlignedReducer, AlignedReduceActor   *)
(* and ReduceTask (reducer.rs), the watermark the vertex publishes         *)
(* (watermark/isb.rs), shutdown, failing tasks, restart and replay.        *)
(*                                                                         *)
(* The input is a sequence of items: data messages and idle watermarks     *)
(* (WMB), each with the watermark the reader gave it.  Reading an item     *)
(* writes it to the WAL.  Of the WAL, whose files ReduceWal models, three  *)
(* things are kept: the items read, those of them a kill has taken, and    *)
(* the end of the GC events that were frozen; a boot replays the items     *)
(* that are left and not older than that.  A window is its start; all have *)
(* one length.                                                             *)
(***************************************************************************)
EXTENDS Integers, Sequences, SequencesExt, FiniteSets, FiniteSetsExt

CONSTANTS
    Inputs,     \* the inputs considered
    Kinds,      \* the windows considered, a subset of {"fixed", "sliding"}
    Length, Slide,
    Lateness,   \* allowed_lateness
    ChanCap,    \* bound: capacity of the channel from PBQ (500)
    MaxFails,   \* bound: tasks that fail
    MaxStops,   \* bound: signals and kills
    Losses      \* bound: the sets of items a kill may take from the WAL (any)

Item == [typ : {"data", "wmb"}, et : Nat, wm : Int, late : BOOLEAN]

\* The fetcher's watermark never falls (WatermarkVertex), and a message that is not late
\* is not older than it.
Possible(in) ==
    /\ in \in Seq(Item)
    /\ \A i \in DOMAIN in :
          /\ \A j \in 1..i : in[j].wm <= in[i].wm
          /\ in[i].et >= in[i].wm \/ in[i].late
          /\ in[i].typ = "wmb" => in[i].et = in[i].wm

ASSUME AlignedAssumption ==
    /\ \A in \in Inputs : Possible(in)
    /\ Kinds \subseteq {"fixed", "sliding"}
    /\ {Length, Slide, ChanCap} \subseteq Nat \ {0} /\ Slide <= Length
    /\ {Lateness, MaxFails, MaxStops} \subseteq Nat
    /\ \A items \in Losses : items \subseteq Nat

VARIABLES
    input, kind,    \* what is read, and the windows; neither ever changes
    up,             \* the pod runs
    nread,          \* items read from the ISB and written to the WAL
    gone,           \* those of them that were in no frozen segment when the pod was killed
    replay,         \* items the boot compaction has still to replay
    chan,           \* the channel from PBQ to the reducer
    wm,             \* current_watermark
    active, closed, \* active_windows and closed_windows
    maxDel,         \* max_deleted_window_end_time
    saved,          \* the state file of a sliding window manager, or None
    aq,             \* the channel from the reducer to the actor
    stream,         \* active_streams: the task of a window and what it was sent
    closing,        \* the task the actor waits for, or None
    err,            \* an error in error_rx
    shutting,       \* shutting_down_on_err
    cancel, hard,   \* the token and the hard_shutdown_token
    ended,          \* the input stream has ended
    gcq,            \* ends of the GC events sent since boot
    gcEnd,          \* the largest end of the GC events that a boot will read
    fetched, pub,   \* latest_fetched_wm, and the largest watermark published
    results,        \* history: the responses for windows not finished yet, and their messages
    finished,       \* history: windows all of whose results were written
    again,          \* history: finished windows with another result
    accepted,       \* history: messages assigned to windows when they were first read
    fails, stops,   \* tasks that failed, signals and kills
    killed, early,  \* history: a kill; a watermark published while chan held items or was drained
    lost            \* history: a result was given up

inVars == <<input, kind, nread, gone>>
winVars == <<active, closed, maxDel>>
actVars == <<aq, stream, closing>>
ctlVars == <<err, shutting, cancel, hard, ended>>
gcVars == <<gcq, gcEnd>>
pubVars == <<fetched, pub>>
histVars == <<results, finished, again, accepted, fails, stops, killed, early, lost>>
vars == <<inVars, up, replay, chan, wm, winVars, saved, actVars, ctlVars, gcVars, pubVars, histVars>>

None == <<>>
NoFile == {}
Step == IF kind = "fixed" THEN Length ELSE Slide
End(w) == w + Length

Init ==
    /\ input \in Inputs /\ kind \in Kinds
    /\ up = TRUE /\ nread = 0 /\ gone = {} /\ replay = <<>> /\ chan = <<>>
    /\ wm = -1 /\ active = {} /\ closed = {} /\ maxDel = -1 /\ saved = NoFile
    /\ aq = <<>> /\ stream = <<>> /\ closing = None
    /\ err = FALSE /\ shutting = FALSE /\ cancel = FALSE /\ hard = FALSE /\ ended = FALSE
    /\ gcq = <<>> /\ gcEnd = 0
    /\ fetched = -1 /\ pub = -1
    /\ results = {} /\ finished = {} /\ again = {} /\ accepted = {}
    /\ fails = 0 /\ stops = 0 /\ killed = FALSE /\ early = FALSE /\ lost = FALSE

Larger(a, b) == IF a > b THEN a ELSE b
Smaller(a, b) == IF a < b THEN a ELSE b

\* The map f with v for w, and without w.
With(f, w, v) == [x \in DOMAIN f \cup {w} |-> IF x = w THEN v ELSE f[x]]
Without(f, w) == [x \in DOMAIN f \ {w} |-> f[x]]

\* The members of a set in the order of op.
InOrder(S, op(_, _)) ==
    CHOOSE s \in [1..Cardinality(S) -> S] : \A i, j \in DOMAIN s : i < j => op(s[i], s[j])

----------------------------------------------------------------------------
(* PBQ.                                                                    *)

Replay ==
    /\ up /\ replay # <<>> /\ Len(chan) < ChanCap
    /\ chan' = Append(chan, Head(replay))
    /\ replay' = Tail(replay)
    /\ UNCHANGED <<inVars, up, wm, winVars, saved, actVars, ctlVars, gcVars, pubVars, histVars>>

\* The reader starts after the replay and stops at the token.
Read ==
    /\ up /\ ~cancel
    /\ replay = <<>> /\ Len(chan) < ChanCap
    /\ nread < Len(input)
    /\ nread' = nread + 1
    /\ chan' = Append(chan, nread')
    /\ fetched' = Larger(fetched, input[nread'].wm)
    /\ UNCHANGED <<input, kind, gone, up, replay, wm, winVars, saved, actVars, ctlVars, gcVars, pub, histVars>>

----------------------------------------------------------------------------
(* The window managers.                                                    *)

\* Mutant: the end of a window belongs to it.
CreateWindowsToEnd(et) ==
    LET first == et - (et % Step)
    IN  {w \in {first - k * Step : k \in 0..Length} : et <= End(w)}

\* create_window and create_windows: from the latest window of an event time back by the
\* slide, as long as the time is before the end.
CreateWindows(et) ==
    LET first == et - (et % Step)
    IN  {w \in {first - k * Step : k \in 0..Length} : et < End(w)}

\* Mutant: only windows in active_windows count, so a finished one is created again.
CreatableAlways(w) == TRUE

\* A window the manager creates: a sliding one only if it was not finished before.
Creatable(w) == kind = "sliding" => End(w) > maxDel

\* assign_windows: append to the windows that are open, open the others, the latest first.
AssignWindows(m, open) ==
    LET ws == InOrder({w \in CreateWindows(input[m].et) : w \in open \/ Creatable(w)}, >)
    IN  [i \in DOMAIN ws |->
            [op |-> IF ws[i] \in open THEN "append" ELSE "open", w |-> ws[i], m |-> m]]

\* close_windows: what ends by the watermark, in the order of the ends.
ToClose(x) == {w \in active : End(w) <= x}
CloseMsgs(ws) ==
    LET s == InOrder(ws, <) IN [i \in DOMAIN s |-> [op |-> "close", w |-> s[i], m |-> 0]]

\* oldest_window: a closed one if there is any.
Oldest(act, cls) == IF cls # {} THEN Min(cls) ELSE Min(act)

----------------------------------------------------------------------------
(* AlignedReducer.                                                         *)

\* The two checks of assign_and_close_windows: late messages, and messages the watermark
\* has passed.
Drops(m, x) ==
    \/ input[m].late /\ (x = -1 \/ input[m].et < x - Lateness)
    \/ x > input[m].et

ConsumeData ==
    /\ up /\ ~ended /\ chan # <<>> /\ ~shutting
    /\ LET m == Head(chan)
           x == Larger(wm, input[m].wm)
           toClose == ToClose(x - Lateness)
           msgs == AssignWindows(m, active \ toClose)
       IN
       /\ input[m].typ = "data"
       /\ wm' = x
       /\ IF Drops(m, x)
          THEN UNCHANGED <<winVars, aq, accepted>>
          ELSE /\ active' = (active \ toClose) \cup {msgs[i].w : i \in DOMAIN msgs}
               /\ closed' = closed \cup toClose
               /\ aq' = aq \o CloseMsgs(toClose) \o msgs
               /\ accepted' = accepted \cup {m}
               /\ UNCHANGED maxDel
    /\ chan' = Tail(chan)
    /\ UNCHANGED <<inVars, up, replay, saved, stream, closing, ctlVars, gcVars, pubVars,
                   results, finished, again, fails, stops, killed, early, lost>>

\* Mutant: the windows are not put into closed_windows.
ConsumeWmbForgets ==
    /\ up /\ ~ended /\ chan # <<>> /\ ~shutting
    /\ LET x == input[Head(chan)].wm
           toClose == ToClose(x - Lateness)
       IN
       /\ input[Head(chan)].typ = "wmb"
       /\ x > wm
       /\ wm' = x
       /\ active' = active \ toClose
       /\ aq' = aq \o CloseMsgs(toClose)
    /\ chan' = Tail(chan)
    /\ UNCHANGED <<inVars, up, replay, closed, maxDel, saved, stream, closing, ctlVars, gcVars, pubVars, histVars>>

\* An idle watermark closes windows if it is larger than the current one.
ConsumeWmb ==
    /\ up /\ ~ended /\ chan # <<>> /\ ~shutting
    /\ LET x == input[Head(chan)].wm
           toClose == ToClose(x - Lateness)
       IN
       /\ input[Head(chan)].typ = "wmb"
       /\ IF x > wm
          THEN /\ wm' = x
               /\ active' = active \ toClose
               /\ closed' = closed \cup toClose
               /\ aq' = aq \o CloseMsgs(toClose)
          ELSE UNCHANGED <<wm, active, closed, aq>>
    /\ chan' = Tail(chan)
    /\ UNCHANGED <<inVars, up, replay, maxDel, saved, stream, closing, ctlVars, gcVars, pubVars, histVars>>

\* After an error the input is drained; it is in the WAL.
Drain ==
    /\ up /\ ~ended /\ chan # <<>> /\ shutting
    /\ chan' = Tail(chan)
    /\ UNCHANGED <<inVars, up, replay, wm, winVars, saved, actVars, ctlVars, gcVars, pubVars, histVars>>

HandleError ==
    /\ up /\ ~ended /\ err
    /\ err' = FALSE /\ shutting' = TRUE /\ cancel' = TRUE
    /\ UNCHANGED <<inVars, up, replay, chan, wm, winVars, saved, actVars, hard, ended, gcVars, pubVars, histVars>>

\* The reader has seen the token and PBQ has passed on everything.
StreamEnds ==
    /\ up /\ cancel /\ ~ended
    /\ replay = <<>> /\ chan = <<>>
    /\ ended' = TRUE
    /\ UNCHANGED <<inVars, up, replay, chan, wm, winVars, saved, actVars, err, shutting, cancel, hard,
                   gcVars, pubVars, histVars>>

----------------------------------------------------------------------------
(* AlignedReduceActor.  It handles one message at a time.                  *)

\* window_open; a task started after the hard shutdown is cancelled at once.
Opened(w, m) == With(stream, w, [st |-> IF hard THEN "dead" ELSE "run", ms |-> <<m>>])

\* window_open, and window_append for a window without a stream, which happens in a replay.
ActorOpen ==
    /\ up /\ closing = None /\ aq # <<>>
    /\ LET a == Head(aq) IN
       /\ a.op = "open" \/ (a.op = "append" /\ a.w \notin DOMAIN stream)
       /\ stream' = Opened(a.w, a.m)
    /\ aq' = Tail(aq)
    /\ UNCHANGED <<inVars, up, replay, chan, wm, winVars, saved, closing, ctlVars, gcVars, pubVars, histVars>>

\* window_append; a task that has failed does not take the message, which is an error too.
ActorAppend ==
    /\ up /\ closing = None /\ aq # <<>>
    /\ LET a == Head(aq) IN
       /\ a.op = "append" /\ a.w \in DOMAIN stream
       /\ stream' = IF stream[a.w].st = "run" THEN [stream EXCEPT ![a.w].ms = Append(@, a.m)] ELSE stream
       /\ err' = (err \/ (stream[a.w].st # "run" /\ ~hard))
    /\ aq' = Tail(aq)
    /\ UNCHANGED <<inVars, up, replay, chan, wm, winVars, saved, closing, shutting, cancel, hard, ended,
                   gcVars, pubVars, histVars>>

\* window_close: the stream is closed and its task awaited, if it still runs.
ActorClose ==
    /\ up /\ closing = None /\ aq # <<>>
    /\ LET a == Head(aq) IN
       /\ a.op = "close"
       /\ IF a.w \in DOMAIN stream
          THEN /\ stream' = Without(stream, a.w)
               /\ closing' = IF stream[a.w].st = "run"
                             THEN [w |-> a.w, ms |-> stream[a.w].ms, st |-> "udf"] ELSE None
          ELSE UNCHANGED <<stream, closing>>
    /\ aq' = Tail(aq)
    /\ UNCHANGED <<inVars, up, replay, chan, wm, winVars, saved, ctlVars, gcVars, pubVars, histVars>>

----------------------------------------------------------------------------
(* ReduceTask.                                                             *)

\* reduce_fn fails while the window is open.
TaskFails(w) ==
    /\ up /\ fails < MaxFails
    /\ w \in DOMAIN stream /\ stream[w].st = "run"
    /\ stream' = [stream EXCEPT ![w].st = "failed"]
    /\ err' = TRUE
    /\ fails' = fails + 1
    /\ UNCHANGED <<inVars, up, replay, chan, wm, winVars, saved, aq, closing, shutting, cancel, hard, ended,
                   gcVars, pubVars, results, finished, again, accepted, stops, killed, early, lost>>

\* reduce_fn passes a response of the UDF on to the writer as it comes, which writes it
\* downstream.  A task without response takes the step too.
Respond ==
    /\ up /\ closing # None /\ closing.st = "udf"
    /\ closing' = [closing EXCEPT !.st = "some"]
    /\ IF closing.w \in finished
       THEN /\ again' = again \cup {closing.w}
            /\ UNCHANGED results
       ELSE /\ results' = results \cup {[w |-> closing.w, ms |-> closing.ms]}
            /\ UNCHANGED again
    /\ UNCHANGED <<inVars, up, replay, chan, wm, winVars, saved, aq, stream, ctlVars, gcVars, pubVars,
                   finished, accepted, fails, stops, killed, early, lost>>

\* The task has got all responses, and the writer has written them.
WriteResults ==
    /\ up /\ closing # None /\ closing.st = "some"
    /\ closing' = [closing EXCEPT !.st = "written"]
    /\ finished' = finished \cup {closing.w}
    /\ UNCHANGED <<inVars, up, replay, chan, wm, winVars, saved, aq, stream, ctlVars, gcVars, pubVars,
                   results, again, accepted, fails, stops, killed, early, lost>>

\* reduce_fn or the writer fails after the window was closed, before or after a response.
CloseFails ==
    /\ up /\ fails < MaxFails
    /\ closing # None /\ closing.st \in {"udf", "some"}
    /\ closing' = None
    /\ err' = TRUE
    /\ fails' = fails + 1
    /\ UNCHANGED <<inVars, up, replay, chan, wm, winVars, saved, aq, stream, shutting, cancel, hard, ended,
                   gcVars, pubVars, results, finished, again, accepted, stops, killed, early, lost>>

\* The hard shutdown is seen before the end of the responses.
CloseCancelled ==
    /\ up /\ hard
    /\ closing # None /\ closing.st \in {"udf", "some"}
    /\ closing' = None
    /\ UNCHANGED <<inVars, up, replay, chan, wm, winVars, saved, aq, stream, ctlVars, gcVars, pubVars, histVars>>

\* A write that is retried when the hard shutdown comes is given up: the result has no
\* upstream to be redelivered from, and the writer ends without an error.
GiveUpWrite ==
    /\ up /\ hard
    /\ closing # None /\ closing.st \in {"udf", "some"}
    /\ closing' = [closing EXCEPT !.st = "written"]
    /\ lost' = TRUE
    /\ UNCHANGED <<inVars, up, replay, chan, wm, winVars, saved, aq, stream, ctlVars, gcVars, pubVars,
                   results, finished, again, accepted, fails, stops, killed, early>>

\* Mutant: the end of the window, for sliding windows too.
GcEndOfWindow(w) == End(w)

\* The end of the GC event of a finished window.
GcEndOf(w) == IF kind = "sliding" THEN Oldest(active, closed) ELSE End(w)

\* gc_window, and the GC event.
GcWindow ==
    /\ up /\ closing # None /\ closing.st = "written"
    /\ closed' = closed \ {closing.w}
    /\ maxDel' = IF kind = "sliding" THEN Larger(maxDel, End(closing.w)) ELSE maxDel
    /\ gcq' = Append(gcq, GcEndOf(closing.w))
    /\ closing' = None
    /\ UNCHANGED <<inVars, up, replay, chan, wm, active, saved, aq, stream, ctlVars, gcEnd, pubVars, histVars>>

----------------------------------------------------------------------------
(* compute_min_watermark, for the results and for the idle ticker.         *)

\* Mutant: what was fetched is published although older windows are not done.
MinFetched == fetched

\* With no window at all the idle watermark of the input is taken, which is not larger
\* than what the last WMB carried.
MinWatermark ==
    IF active \cup closed = {} THEN fetched ELSE Smaller(fetched, End(Oldest(active, closed)) - 1)

Publish ==
    /\ up
    /\ MinWatermark > pub
    /\ pub' = MinWatermark
    /\ early' = (early \/ chan # <<>> \/ shutting)
    /\ UNCHANGED <<inVars, up, replay, chan, wm, winVars, saved, actVars, ctlVars, gcVars, fetched,
                   results, finished, again, accepted, fails, stops, killed, lost>>

----------------------------------------------------------------------------
(* Shutdown, kill and boot.                                                *)

Cancel ==
    /\ up /\ ~cancel /\ stops < MaxStops
    /\ cancel' = TRUE
    /\ stops' = stops + 1
    /\ UNCHANGED <<inVars, up, replay, chan, wm, winVars, saved, actVars, err, shutting, hard, ended,
                   gcVars, pubVars, results, finished, again, accepted, fails, killed, early, lost>>

\* After graceful_timeout; tasks of open windows end, one that is closing may or may not.
HardShutdown ==
    /\ up /\ cancel /\ ~hard
    /\ hard' = TRUE
    /\ stream' = [w \in DOMAIN stream |->
                     IF stream[w].st = "run" THEN [stream[w] EXCEPT !.st = "dead"] ELSE stream[w]]
    /\ UNCHANGED <<inVars, up, replay, chan, wm, winVars, saved, aq, closing, err, shutting, cancel, ended,
                   gcVars, pubVars, histVars>>

\* The GC writer is not waited for: a boot reads the events up to some point.
Frozen == {Max({gcEnd} \cup {gcq[j] : j \in 1..i}) : i \in 0..Len(gcq)}

Down ==
    /\ up' = FALSE
    /\ gcEnd' \in Frozen
    /\ gcq' = <<>> /\ replay' = <<>> /\ chan' = <<>> /\ wm' = -1
    /\ active' = {} /\ closed' = {} /\ maxDel' = -1
    /\ aq' = <<>> /\ stream' = <<>> /\ closing' = None
    /\ err' = FALSE /\ shutting' = FALSE /\ cancel' = FALSE /\ hard' = FALSE /\ ended' = FALSE
    /\ fetched' = -1

\* Mutant: windows that are closed and not finished are not saved.
StateActive == [ws |-> active, maxDel |-> maxDel]

\* save_state.
State == [ws |-> active \cup closed, maxDel |-> maxDel]

\* The actor has handled everything and all tasks have ended.
Exit ==
    /\ up /\ ended /\ aq = <<>> /\ closing = None
    /\ \A w \in DOMAIN stream : stream[w].st # "run"
    /\ saved' = IF kind = "sliding" THEN {State} ELSE NoFile
    /\ Down
    /\ UNCHANGED <<inVars, pub, histVars>>

\* Items in segments that are not frozen are lost, though they were acknowledged: the active
\* segment of the data writer and of a compaction (ReduceWal says which).
Kill ==
    /\ up /\ stops < MaxStops
    /\ stops' = stops + 1
    /\ killed' = TRUE
    /\ \E items \in Losses : gone' = gone \cup (items \cap 1..nread)
    /\ Down
    /\ UNCHANGED <<input, kind, nread, saved, pub, results, finished, again, accepted, fails, early, lost>>

\* list_files gives the compaction the frozen segments only.
Readable == (1..nread) \ gone

\* load_state, which removes the file, and the boot compaction.
Boot ==
    /\ ~up
    /\ up' = TRUE
    /\ replay' = InOrder({i \in Readable : input[i].et >= gcEnd}, <)
    /\ active' = UNION {s.ws : s \in saved}
    /\ maxDel' = IF saved = NoFile THEN -1 ELSE (CHOOSE s \in saved : TRUE).maxDel
    /\ saved' = NoFile
    /\ UNCHANGED <<inVars, chan, wm, closed, actVars, ctlVars, gcVars, pubVars, histVars>>

ReducerNext == ConsumeData \/ ConsumeWmb \/ Drain \/ HandleError \/ StreamEnds
ActorNext == ActorOpen \/ ActorAppend \/ ActorClose
TaskNext == CloseCancelled \/ Respond \/ WriteResults \/ GcWindow
FaultNext == CloseFails \/ GiveUpWrite \/ (\E w \in DOMAIN stream : TaskFails(w)) \/ Cancel \/ Kill

\* Every item is read and reduced as far as its watermarks allow.
Idle ==
    /\ up /\ ~cancel /\ ~err
    /\ nread = Len(input) /\ replay = <<>> /\ chan = <<>> /\ aq = <<>> /\ closing = None
    /\ UNCHANGED vars

Next ==
    \/ Replay \/ Read
    \/ ReducerNext \/ ActorNext \/ TaskNext \/ Publish
    \/ HardShutdown \/ Exit \/ Boot
    \/ FaultNext \/ Idle

Spec == Init /\ [][Next]_vars

\* Every task gets to run, the graceful timeout passes, and the pod is started again.
FairSpec ==
    /\ Spec
    /\ WF_vars(Replay \/ Read)
    /\ WF_vars(ConsumeData \/ ConsumeWmb \/ Drain) /\ WF_vars(HandleError) /\ WF_vars(StreamEnds)
    /\ WF_vars(ActorNext) /\ WF_vars(TaskNext)
    /\ WF_vars(HardShutdown) /\ WF_vars(Exit) /\ WF_vars(Boot)

----------------------------------------------------------------------------

WindowOp == [op : {"open", "append", "close"}, w : Int, m : Nat]

TypeOK ==
    /\ input \in Inputs /\ kind \in Kinds
    /\ nread \in 0..Len(input)
    /\ {replay, chan} \subseteq Seq(1..nread) /\ Len(chan) <= ChanCap
    /\ wm \in Int /\ maxDel \in Int /\ gcEnd \in Nat /\ {fetched, pub} \subseteq Int
    /\ active \subseteq Int /\ closed \subseteq Int /\ active \cap closed = {}
    /\ aq \in Seq(WindowOp) /\ gcq \in Seq(Int)
    /\ \A w \in DOMAIN stream :
          stream[w].st \in {"run", "failed", "dead"} /\ stream[w].ms \in Seq(1..nread)
    /\ closing = None \/ closing.st \in {"udf", "some", "written"}
    /\ {up, err, shutting, cancel, hard, ended, killed, early, lost} \subseteq BOOLEAN
    /\ accepted \subseteq 1..nread /\ gone \subseteq 1..nread
    /\ fails \in 0..MaxFails /\ stops \in 0..MaxStops
    /\ Cardinality(saved) <= 1
    \* oldest_window().expect("no oldest window found") in ReduceTask
    /\ closing # None => closing.w \in closed

\* The windows of a message, by their definition: the aligned intervals it falls into.
WindowsOf(m) == {w \in (input[m].et - Length + 1)..input[m].et : w % Step = 0}

\* Every response for a window, up to the last one of the task that finishes it, is reduced
\* from all messages of the window, each once and in the order they were read, through
\* replays, failed tasks and out-of-order messages (assign_windows, window_append).
\* Excepted: messages a kill has taken from the WAL may be missing; a result was given up,
\* and its messages collected.
MessagesOf(w) == {m \in accepted : w \in WindowsOf(m)}
ResultComplete ==
    ~lost => \A r \in results :
        /\ \A i, j \in DOMAIN r.ms : i < j => r.ms[i] < r.ms[j]
        /\ Range(r.ms) \subseteq MessagesOf(r.w)
        /\ MessagesOf(r.w) \ gone \subseteq Range(r.ms)

\* "any GC event that is written means all the messages < the window end time can be
\* deleted" (segment.rs): each of their windows is finished, its results written.
\* Excepted: messages a kill has taken, of which nothing is left to delete; a result was
\* given up; with fixed windows, a task has failed.
Deletable(m) == \A w \in WindowsOf(m) : w \in finished
GcEvents == {gcEnd} \cup Range(gcq)
Excepted == lost \/ (kind = "fixed" /\ fails > 0)
GcContract ==
    ~Excepted => \A m \in accepted \ gone : input[m].et < Max(GcEvents) => Deletable(m)

\* No finished window of a sliding vertex has another result after a graceful restart, which
\* the state file is for (sliding.rs), whatever tasks failed before or after a response.
NoSecondResult == kind = "sliding" /\ ~killed => again = {}

\* A window that is not finished holds the published watermark below the time of its results
\* (compute_min_watermark), across restarts.  An item on its way from PBQ to the
\* reducer, or drained after an error and to be replayed, is in no window yet: watermarks
\* published meanwhile are excepted, and so is a result that was given up.
WatermarkWaitsForWindows ==
    ~early /\ ~lost => \A w \in (active \cup closed) \ finished : pub < End(w)

\* Every message that is assigned to windows is reduced in all of them in the end, through
\* failed tasks, signals and restarts.  Excepted: a kill has taken the message, or every item
\* whose watermark closes its windows; and as above.
Closable(m) == \E i \in DOMAIN input \ gone : \A w \in WindowsOf(m) : End(w) <= input[i].wm - Lateness
EveryMessageReduced ==
    \A m \in 1..Max({Len(in) : in \in Inputs}) :
        m \in accepted ~>
            \/ Excepted \/ m \in gone
            \/ m \in accepted /\ (Closable(m) => Deletable(m))
=============================================================================
