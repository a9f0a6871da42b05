---------------------------- MODULE AtLeastOnce ----------------------------
(***************************************************************************)
(* What a vertex promises about the messages it reads: an input message is *)
(* acked, once and for all, only after everything owed for it has been     *)
(* settled.  What is owed for an input is a set of (stream, message)       *)
(* pairs; a pair is settled when the message has reached the stream, or    *)
(* when the configuration lets the vertex give it up.                      *)
(***************************************************************************)
CONSTANTS
    Inputs,     \* the input messages
    Debts,      \* every <<stream, message>> pair
    Owed(_)     \* the debts of an input

VARIABLES
    settled,    \* the debts settled so far
    waived,     \* inputs dropped on purpose, which owe nothing
    acked       \* the inputs acked so far

vars == <<settled, waived, acked>>

Init == settled = {} /\ waived = {} /\ acked = {}

Settle ==
    /\ \E d \in Debts : settled' = settled \cup {d}
    /\ UNCHANGED <<waived, acked>>

Waive ==
    /\ \E o \in Inputs : waived' = waived \cup {o}
    /\ UNCHANGED <<settled, acked>>

Ack ==
    /\ \E o \in Inputs :
         /\ Owed(o) \subseteq settled \/ o \in waived
         /\ acked' = acked \cup {o}
    /\ UNCHANGED <<settled, waived>>

Spec == Init /\ [][Settle \/ Waive \/ Ack]_vars
=============================================================================
