-------------------------------- MODULE MCOcb --------------------------------
(***************************************************************************)
(* The cipher for model checking: blocks of two bits, of which all         *)
(* twenty-four permutations are tried as keys.                             *)
(***************************************************************************)
EXTENDS Ocb

MCPoly == <<1, 0>>

=============================================================================
