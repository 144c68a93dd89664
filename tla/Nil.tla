-------------------------------- MODULE Nil ---------------------------------
(***************************************************************************)
(* The value that stands for nil, and for "no such thing", in every module *)
(* of a run.                                                               *)
(***************************************************************************)
CONSTANT None
=============================================================================
