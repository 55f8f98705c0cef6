----------------------------- MODULE MCLifecycle ----------------------------
(***************************************************************************)
(* An instance of Lifecycle for TLC: two streams and two HTTP requests, so *)
(* that one can be drained while the other is in the way.                  *)
(***************************************************************************)
EXTENDS Lifecycle

CONSTANTS g1, g2, h1, h2
=============================================================================
