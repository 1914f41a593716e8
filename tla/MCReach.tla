------------------------------ MODULE MCReach ------------------------------
(* A four-state model for the BMC race: 0 is initial; 0 -> 1 -> 2 -> 1,    *)
(* 1 -> 0 and a self-loop on the isolated state 3.  Reaching 2 takes two   *)
(* steps, so the forward strategy unrolls before finding it; 3 is never    *)
(* reachable and both strategies must prove it by exhausting the unique    *)
(* paths.  The global constraint {0, 1, 3} cuts 2 off.                     *)
EXTENDS Reach

MCStates == 0 .. 3
MCInitStates == {0}
MCTrans == {<<0, 1>>, <<1, 2>>, <<2, 1>>, <<1, 0>>, <<3, 3>>}
MCInvar == MCStates
MCUIntMax == 100

(* Commands with no forward or backward constraint (both strategies run). *)
MCInputs ==
    [target : {{1}, {2}, {3}}, fwd : {MCStates}, bwd : {MCStates},
     glob : {MCStates, {0, 1, 3}}]

(* Commands with a backward constraint (backward strategy alone).          *)
MCBackwardInputs ==
    [target : {{2}}, fwd : {MCStates}, bwd : {{0, 2}}, glob : {MCStates}]
=============================================================================
