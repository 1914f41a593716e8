---------------------------- MODULE MCCompiler -----------------------------
(* Three Boolean and two algebraic variables of two digits, and operators *)
(* and ITEs over them.  Node 6 (x op y) is shared, so its compilation is  *)
(* replayed from the cache; node 11 nests three ITEs under one toplevel;  *)
(* node 12 compiles the fresh leaf b2 after a microcode descriptor, and    *)
(* node 13 joins them under a third condition and node 14 combines two   *)
(* ITE chains.                                                            *)
EXTENDS Compiler

MCNodes == 1 .. 14
MCKind == [n \in MCNodes |->
             CASE n \in 1 .. 3        -> "bool"
               [] n \in 4 .. 5        -> "alg"
               [] n \in {6, 8, 12, 14} -> "op"
               [] n \in {7, 9, 10, 11, 13} -> "ite"]
MCArgs == [n \in MCNodes |->
             CASE n = 6  -> <<4, 5>>
               [] n = 7  -> <<1, 6, 4>>
               [] n = 8  -> <<7, 6>>
               [] n = 9  -> <<2, 4, 5>>
               [] n = 10 -> <<3, 5, 4>>
               [] n = 11 -> <<1, 9, 10>>
               [] n = 12 -> <<6, 9>>
               [] n = 13 -> <<3, 8, 12>>
               [] n = 14 -> <<11, 7>>
               [] OTHER  -> <<>>]

(* Every operator and ITE node as a toplevel expression.                 *)
MCBodies == 6 .. 14
=============================================================================
