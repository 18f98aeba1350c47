---------------------------- MODULE MCMultiplexer ----------------------------
(* Instances of Multiplexer for TLC. *)
EXTENDS Multiplexer

\* The ends whose application opens channels: only the frontend in this
\* repository, both in the runs about simultaneous opens.
FrontOpens == {"front"}
BothOpen == Ends
=============================================================================
