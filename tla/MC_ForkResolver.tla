-------------------------- MODULE MC_ForkResolver --------------------------
(***************************************************************************)
(* Every tree of up to six blocks and every two heads of it, with limits   *)
(* low enough to be hit.                                                   *)
(***************************************************************************)
EXTENDS ForkResolver
=============================================================================
