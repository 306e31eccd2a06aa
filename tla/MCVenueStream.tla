--------------------------- MODULE MCVenueStream ---------------------------
(* Instances of VenueStream for TLC: two calls of the RPC, so that the      *)
(* aggregator can compete with the command-line client or with its own      *)
(* previous, not yet ended call.                                            *)
EXTENDS VenueStream
=============================================================================
