--------------------------- MODULE ReachRaceProofs ---------------------------
(***************************************************************************)
(* The BMC race of module Reach implements the abstract specification     *)
(* ReachRace (spec P5 and P7), for every model, every command and every   *)
(* set of strategies: the identity mapping on cmd, status and witness     *)
(* maps every step of a strategy thread to a step of ReachRace or to a    *)
(* stutter.  The invariant PInv of ReachPathProofs supplies the witness   *)
(* path; the step lemma below is the race under sync_set_status.          *)
(***************************************************************************)
EXTENDS ReachPathProofs

USE StrategiesAssumption, UIntMaxAssumption

(* A witness read off a model has at least the frame of depth 0.          *)
LEMMA TraceNonEmpty ==
    ASSUME NEW asg, NEW n \in Nat
    PROVE  /\ ForwardTrace(asg, n) # NoWitness
           /\ BackwardTrace(asg, n) # NoWitness
<1>1. /\ DOMAIN ForwardTrace(asg, n) = 1 .. n + 1
      /\ DOMAIN BackwardTrace(asg, n) = 1 .. n + 1
      /\ DOMAIN NoWitness = {}
      BY DEF ForwardTrace, BackwardTrace, NoWitness
<1>2. 1 \in 1 .. n + 1
      OBVIOUS
<1>. QED
     BY <1>1, <1>2

(* What a step of a strategy thread does to the answer of the command:    *)
(* nothing, the decision UNREACHABLE, or the decision REACHABLE together  *)
(* with a witness; a thread that loses the race changes neither.          *)
RaceStep ==
    /\ cmd' = cmd
    /\ \/ UNCHANGED <<status, witness>>
       \/ /\ status = UNKNOWN
          /\ status' = UNREACHABLE
          /\ witness' = witness
       \/ /\ status = UNKNOWN
          /\ status' = REACHABLE
          /\ witness' # NoWitness

LEMMA ThreadRaceStep ==
    ASSUME TypeOK, NEW e \in Strategies, Thread(e)
    PROVE  RaceStep
<1>1. CASE BackwardStart(e) \/ ForwardStart(e) \/ Cleanup(e)
      BY <1>1 DEF BackwardStart, ForwardStart, NewEngine, Cleanup, RaceStep
<1>2. CASE BackwardUnroll(e) \/ ForwardUnroll(e)
      BY <1>2 DEF BackwardUnroll, ForwardUnroll, RaceStep
<1>3. CASE BackwardGoalCheck(e) \/ BackwardProofCheck(e) \/ ForwardProofCheck(e)
      BY <1>3 DEF BackwardGoalCheck, BackwardProofCheck, ForwardProofCheck,
                  SyncSetStatus, RaceStep
<1>4. CASE ForwardWitnessCheck(e)
  <2>1. k[e] \in Nat
        BY DEF TypeOK
  <2>. QED
       BY <1>4, <2>1, TraceNonEmpty DEF ForwardWitnessCheck, RecordWitness,
                                        SyncSetStatus, RaceStep
<1>5. CASE BackwardWitnessCheck(e)
  <2>1. k[e] \in Nat
        BY DEF TypeOK
  <2>. QED
       BY <1>5, <2>1, TraceNonEmpty DEF BackwardWitnessCheck, RecordWitness,
                                        SyncSetStatus, RaceStep
<1>. QED
     BY <1>1, <1>2, <1>3, <1>4, <1>5 DEF Thread

(* The race implements ReachRace (spec P5 and P7): whatever the           *)
(* interleaving of the forward and backward threads and the interrupts of *)
(* their solvers, the status of a `reach` command is decided once, a      *)
(* REACHABLE answer is set with a witness satisfying INIT, TRANS, INVAR    *)
(* and the target, an UNREACHABLE answer without one, and neither the     *)
(* status nor the witness changes afterwards.                             *)
THEOREM RaceRefinement == Spec => RaceSpec
<1>1. Init => RR!Init
      BY DEF Init, RR!Init, UNKNOWN, NoWitness
<1>2. PInv /\ PInv' /\ [Next]_vars => [RR!Next]_<<cmd, status, witness>>
  <2>. SUFFICES ASSUME PInv, PInv', [Next]_vars
                PROVE  [RR!Next]_<<cmd, status, witness>>
       OBVIOUS
  <2>1. CASE UNCHANGED vars
        BY <2>1 DEF vars
  <2>2. CASE Next
    <3>1. RaceStep
          BY <2>2, ThreadRaceStep DEF Next, PInv, IInv
    <3>2. CASE UNCHANGED <<status, witness>>
          BY <3>1, <3>2 DEF RaceStep
    <3>3. CASE status = UNKNOWN /\ status' = UNREACHABLE /\ witness' = witness
          BY <3>1, <3>3 DEF RaceStep, RR!Next, RR!Unreachable, UNKNOWN, UNREACHABLE
    <3>4. CASE status = UNKNOWN /\ status' = REACHABLE /\ witness' # NoWitness
      <4>1. witness' \in Seq(States) /\ WitnessPath(witness)'
            BY <3>4 DEF PInv, IInv, TypeOK, WitnessInv
      <4>2. RR!IsWitness(cmd, witness')
            BY <3>1, <4>1 DEF RaceStep, WitnessPath, RR!IsWitness
      <4>. QED
           BY <3>1, <3>4, <4>1, <4>2 DEF RaceStep, RR!Next, RR!Reachable,
                                         UNKNOWN, REACHABLE
    <3>. QED
         BY <3>1, <3>2, <3>3, <3>4 DEF RaceStep
  <2>. QED
       BY <2>1, <2>2
<1>. QED
     BY <1>1, <1>2, PInvInvariant, PTL DEF Spec, RaceSpec, RR!Spec

=============================================================================
