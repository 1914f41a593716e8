----------------------------- MODULE MCWitness -----------------------------
(* Two variables and two values written into two frames, the least that   *)
(* shows a value set through the frame new_frame gave being lost.          *)
EXTENDS Witness
=============================================================================
