--------------------------- MODULE MCLoginLimiter ---------------------------
(***************************************************************************)
(* Instance of LoginLimiter for TLC.                                       *)
(***************************************************************************)
EXTENDS LoginLimiter, TLC

HandlerSymmetry == Permutations(Handler)
=============================================================================
