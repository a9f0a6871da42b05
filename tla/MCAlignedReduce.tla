--------------------------- MODULE MCAlignedReduce ---------------------------
(* Model-checking instances of AlignedReduce.                              *)
EXTENDS AlignedReduce

Data(t, x) == [typ |-> "data", et |-> t, wm |-> x, late |-> t < x]
Wmb(x) == [typ |-> "wmb", et |-> x, wm |-> x, late |-> FALSE]

\* Out-of-order messages, one at the edge of two windows, one in a window that starts below
\* zero; a message before any watermark, and a late one within Lateness; the end of all.
MCInputs == {
    << Data(2, 0), Data(0, 0), Data(3, 2), Wmb(9) >>,
    << Data(1, -1), Data(5, 3), Data(2, 3), Wmb(9) >> }
\* Nothing, and what was read since a rotation after the first item.
MCLosses == { {}, 2..4 }
==============================================================================
