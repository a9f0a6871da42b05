-------------------------- MODULE MCSessionReduce --------------------------
(* Model-checking instances of SessionReduce.                              *)
EXTENDS SessionReduce

Data(k, t, x) == [typ |-> "data", key |-> k, et |-> t, wm |-> x, late |-> t < x]
Wmb(x) == [typ |-> "wmb", key |-> "a", et |-> x, wm |-> x, late |-> FALSE]

\* With Timeout 4: two sessions and a bridge, and a second message at the time of the later one.
MCLostInputs ==
    { << Data("a", 1, 0), Data("a", 7, 0), Data("a", 4, 0), Data("a", 7, 0), Wmb(20) >> }

\* The same; two sessions bridged by a third message, one of whose windows expires before the
\* other; a session closed by the watermark of the message behind it in the channel; and two
\* sessions of a key, one of which ends with that of another key.
MCInputs == MCLostInputs \cup {
    << Data("a", 1, 0), Data("a", 7, 0), Data("a", 4, 0), Wmb(9), Wmb(20) >>,
    << Data("a", 1, 0), Data("a", 6, 6), Wmb(20) >>,
    << Data("b", 5, 0), Data("a", 1, 0), Data("a", 5, 0), Wmb(20) >> }

\* Nothing, and what was read since a rotation after the second item.
MCLosses == { {}, 3..5 }
=============================================================================
