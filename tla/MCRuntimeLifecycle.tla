------------------------- MODULE MCRuntimeLifecycle -------------------------
(* RuntimeLifecycle for TLC: two resources, the second registered after    *)
(* the first.                                                              *)
EXTENDS RuntimeLifecycle
=============================================================================
