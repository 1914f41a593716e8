------------------------------ MODULE ReachRace ------------------------------
(***************************************************************************)
(* What the race of the strategy threads promises about the answer of a   *)
(* `reach` command, short of completeness: the status leaves UNKNOWN once *)
(* and for all (spec P7); it becomes REACHABLE only together with a       *)
(* witness of length k + 1 that satisfies INIT at its first frame, TRANS  *)
(* between consecutive frames, INVAR at every frame and the target at its *)
(* last (spec P5), and UNREACHABLE without a witness; the witness never   *)
(* changes afterwards.                                                    *)
(***************************************************************************)
EXTENDS Naturals, Sequences

CONSTANTS States, InitStates, Trans, Invar, Inputs

VARIABLES cmd, status, witness

(* Spec P5: the witness frames evaluated against the model.               *)
IsWitness(c, w) ==
    /\ Len(w) > 0
    /\ w[1] \in InitStates
    /\ w[Len(w)] \in c.target
    /\ \A i \in 1 .. Len(w) : w[i] \in Invar
    /\ \A i \in 1 .. Len(w) - 1 : <<w[i], w[i + 1]>> \in Trans

Init ==
    /\ cmd \in Inputs
    /\ status = "UNKNOWN"
    /\ witness = <<>>

Reachable ==
    /\ status = "UNKNOWN"
    /\ status' = "REACHABLE"
    /\ witness' \in {w \in Seq(States) : IsWitness(cmd, w)}
    /\ UNCHANGED cmd

Unreachable ==
    /\ status = "UNKNOWN"
    /\ status' = "UNREACHABLE"
    /\ UNCHANGED <<cmd, witness>>

Next == Reachable \/ Unreachable

Spec == Init /\ [][Next]_<<cmd, status, witness>>

=============================================================================
