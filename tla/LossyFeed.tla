----------------------------- MODULE LossyFeed -----------------------------
(***************************************************************************)
(* What a market-data stream promises its consumer, with every queue,      *)
(* goroutine and connection left out.  A source numbers its values 1, 2,   *)
(* 3, ...; the sink holds the last value it received.  Values may be       *)
(* skipped, but a delivery always moves the sink forward, and never past   *)
(* the source: nothing is invented, nothing is delivered twice and nothing *)
(* old overwrites something newer.                                         *)
(***************************************************************************)
EXTENDS Integers

VARIABLES
    source,   \* number of the newest value produced, 0 before the first
    sink      \* number of the value the consumer holds, 0 before the first

vars == <<source, sink>>

Init == source = 0 /\ sink = 0

Produce == source' = source + 1 /\ UNCHANGED sink

Deliver == sink' \in (sink + 1)..source /\ UNCHANGED source

Next == Produce \/ Deliver

Spec == Init /\ [][Next]_vars
=============================================================================
