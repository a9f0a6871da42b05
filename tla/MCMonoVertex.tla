--------------------------- MODULE MCMonoVertex ---------------------------
(* Model-checking instances of MonoVertex.                                 *)
EXTENDS MonoVertex

T(m, d) == [mark |-> m, dest |-> d]
Cfg(m, n, s, k, b, t) ==
    [mode |-> m, concurrency |-> n, strategy |-> s, sinks |-> k, bypassSink |-> b, tag |-> t]

\* One batch at a time, nothing bypassed; two batches ahead, one message bypassed to the
\* fallback sink; streaming with one permit and a bypass condition on the primary sink; a
\* batch with a dropped and a bypassed message.
MCConfigs == {
    Cfg("batch", 2, "retry", {"onSuccess"}, FALSE, << T("none", "none"), T("none", "none") >>),
    Cfg("ahead", 4, "fallback", {"fallback", "serving"}, FALSE,
        << T("none", "fallback"), T("none", "none") >>),
    Cfg("streaming", 1, "drop", {"fallback"}, TRUE, << T("none", "primary"), T("nack", "none") >>),
    Cfg("batch", 2, "fallback", {"onSuccess"}, FALSE,
        << T("drop", "onSuccess"), T("none", "onSuccess") >>) }
=============================================================================
