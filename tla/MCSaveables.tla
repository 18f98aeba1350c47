---------------------------- MODULE MCSaveables ----------------------------
(* An instance of Saveables for TLC. *)
EXTENDS Saveables, TLC

CONSTANTS a1, a2, a

\* Two tabs that show one document.
TabDoc == a1 :> a @@ a2 :> a
=============================================================================
