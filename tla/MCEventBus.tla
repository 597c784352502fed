----------------------------- MODULE MCEventBus -----------------------------
(***************************************************************************)
(* Two publishers, two topics and two handlers, which may subscribe to     *)
(* either topic or to both.  The properties are temporal, so no symmetry.  *)
(***************************************************************************)
EXTENDS EventBus

CONSTANTS p1, p2, t1, t2, g1, g2
=============================================================================
