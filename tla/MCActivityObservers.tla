------------------------- MODULE MCActivityObservers -------------------------
(* Small instances of ActivityObservers. *)
EXTENDS ActivityObservers

CONSTANTS a1, a2
=============================================================================
