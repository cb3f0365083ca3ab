-------------------------------- MODULE MCSemIf --------------------------------
(***************************************************************************)
(* A small instance of SemIf: the local engines, and nothing else.          *)
(***************************************************************************)
EXTENDS SemIf

LocalOnly ==
    {[backend |-> "ereshkigal", debias |-> "none", conformal |-> TRUE, tandem |-> TRUE,
      verify |-> TRUE]}
=============================================================================
