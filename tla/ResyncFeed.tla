----------------------------- MODULE ResyncFeed -----------------------------
(***************************************************************************)
(* What a stream that starts with a snapshot promises its consumer.  A     *)
(* source numbers its values 0, 1, 2, ...  Each time the consumer          *)
(* subscribes, the floor rises to the source's current value; whatever is  *)
(* delivered from then on lies between the floor and the source.  Within   *)
(* these bounds the sink may move back: the snapshot is read after the     *)
(* subscription starts, so updates it already includes may follow it.      *)
(***************************************************************************)
EXTENDS Integers

VARIABLES
    source,   \* number of the source's current value
    floor,    \* number it had when the consumer last subscribed
    sink      \* number of the value the consumer holds, -1 for none

vars == <<source, floor, sink>>

Init == source = 0 /\ floor = 0 /\ sink = -1

Produce == source' = source + 1 /\ UNCHANGED <<floor, sink>>

Resubscribe == floor' = source /\ UNCHANGED <<source, sink>>

Deliver == sink' \in floor..source /\ UNCHANGED <<source, floor>>

Next == Produce \/ Resubscribe \/ Deliver

Spec == Init /\ [][Next]_vars
=============================================================================
