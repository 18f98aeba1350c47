---------------------------- MODULE MCMainChannel ----------------------------
(* Instances of MainChannel for TLC. *)
EXTENDS MainChannel

Configured(timeout, reload) == [connectionTimeout |-> timeout, reloadOnReconnect |-> reload]

\* Contexts are kept for a while, and the page restarts its connection or reloads:
\* buffers are flushed to old contexts and drained before new ones.
Kept == {Configured("positive", FALSE), Configured("positive", TRUE)}

\* The messages written by each end.
FewWrites == [frontend |-> 1, backend |-> 2]
TwoUp == [frontend |-> 2, backend |-> 0]
=============================================================================
