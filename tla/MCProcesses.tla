---------------------------- MODULE MCProcesses ----------------------------
(* Instances of Processes for TLC.                                          *)
EXTENDS Processes

CONSTANTS u1

MCUserOf == [u \in Users |-> Router]
=============================================================================
