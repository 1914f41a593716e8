---------------------------- MODULE ReachProofs ----------------------------
(***************************************************************************)
(* Proofs about the BMC race of module Reach, for every model, every      *)
(* command and every set of strategies.                                    *)
(***************************************************************************)
EXTENDS Reach, TLAPS

(* What a step of a strategy thread can do to the shared state: nothing,  *)
(* a sync_set_status alone, or a sync_set_status(REACHABLE) together with *)
(* the recording of a witness guarded by the same race.                   *)
StatusStep ==
    \/ UNCHANGED <<status, witnesses, witness>>
    \/ /\ \E s \in {REACHABLE, UNREACHABLE} : SyncSetStatus(s)
       /\ UNCHANGED <<witnesses, witness>>
    \/ /\ \E w : RecordWitness(w)
       /\ SyncSetStatus(REACHABLE)

(* Every step of every thread touches the status and the witnesses only   *)
(* through sync_set_status and the race-guarded witness recording.        *)
LEMMA ThreadStatusStep ==
    ASSUME NEW e \in Strategies, Thread(e)
    PROVE  StatusStep
<1>1. CASE BackwardStart(e) \/ ForwardStart(e) \/ Cleanup(e)
      BY <1>1 DEF BackwardStart, ForwardStart, NewEngine, Cleanup, StatusStep
<1>2. CASE BackwardUnroll(e) \/ ForwardUnroll(e)
      BY <1>2 DEF BackwardUnroll, ForwardUnroll, StatusStep
<1>3. CASE BackwardGoalCheck(e)
      BY <1>3 DEF BackwardGoalCheck, StatusStep, Goto
<1>4. CASE BackwardProofCheck(e)
      BY <1>4 DEF BackwardProofCheck, StatusStep, Goto
<1>5. CASE ForwardProofCheck(e)
      BY <1>5 DEF ForwardProofCheck, StatusStep, Goto
<1>6. CASE BackwardWitnessCheck(e)
      BY <1>6 DEF BackwardWitnessCheck, StatusStep, Goto
<1>7. CASE ForwardWitnessCheck(e)
      BY <1>7 DEF ForwardWitnessCheck, StatusStep, Goto
<1>. QED
     BY <1>1, <1>2, <1>3, <1>4, <1>5, <1>6, <1>7 DEF Thread

(* The shared state steps like StatusStep on every step of the system.    *)
LEMMA NextStatusStep == [Next]_vars => StatusStep
BY ThreadStatusStep DEF Next, vars, StatusStep

(* SingleWitness (spec P5, the race on sync_set_status): the WitnessMgr   *)
(* never holds more than the winner's witness, whatever the interleaving  *)
(* of the strategy threads.  It is inductive as it stands: a thread       *)
(* records a witness only while the status is UNKNOWN, which the first    *)
(* disjunct guarantees empty, and in the same step makes it REACHABLE.    *)
THEOREM SingleWitnessInvariant == Spec => []SingleWitness
<1>1. Init => SingleWitness
      BY DEF Init, SingleWitness, NoWitness
<1>2. SingleWitness /\ [Next]_vars => SingleWitness'
  <2>. SUFFICES ASSUME SingleWitness, StatusStep PROVE SingleWitness'
       BY NextStatusStep
  <2>1. CASE UNCHANGED <<status, witnesses, witness>>
        BY <2>1 DEF SingleWitness
  <2>2. CASE /\ \E s \in {REACHABLE, UNREACHABLE} : SyncSetStatus(s)
             /\ UNCHANGED <<witnesses, witness>>
        BY <2>2 DEF SingleWitness, SyncSetStatus, UNKNOWN, REACHABLE, UNREACHABLE
  <2>3. CASE /\ \E w : RecordWitness(w)
             /\ SyncSetStatus(REACHABLE)
        BY <2>3 DEF SingleWitness, SyncSetStatus, RecordWitness, UNKNOWN,
                    REACHABLE, NoWitness
  <2>. QED
       BY <2>1, <2>2, <2>3 DEF StatusStep
<1>. QED
     BY <1>1, <1>2, PTL DEF Spec

(* Once decided, the verdict of the race never changes: no thread, late   *)
(* in its solve, overwrites the status the winner set (the guard of       *)
(* sync_set_status).                                                      *)
StatusStable == [][status # UNKNOWN => status' = status]_vars

THEOREM StatusStableProperty == Spec => StatusStable
<1>1. [Next]_vars => (status # UNKNOWN => status' = status)
      BY NextStatusStep DEF StatusStep, SyncSetStatus, RecordWitness
<1>. QED
     BY <1>1, PTL DEF Spec, StatusStable

-----------------------------------------------------------------------------
(***************************************************************************)
(* Type correctness.  TypeOK alone is not inductive: a witness is read    *)
(* off a solver model at the frames 0 .. k, and it is a sequence of       *)
(* states only because every one of those frames carries a constraint of  *)
(* the engine (assert_fsm_invar at each frame the strategy unrolls), so   *)
(* that the model assigns it a state.                                     *)
(***************************************************************************)

(* The time of frame j of thread e's unrolling.                           *)
Frame(e, j) == IF e = "backward" THEN UINT_MAX - j ELSE j

(* The frames thread e has unrolled: the forward strategy asserts INVAR   *)
(* at k + 1 before it proves and deepens.                                 *)
Depth(e) == IF e = "forward" /\ pc[e] = "proof" THEN k[e] + 1 ELSE k[e]

FramesAsserted ==
    \A e \in Strategies : pc[e] # "start" =>
        \A j \in 0 .. Depth(e) : At("invar", Frame(e, j), MAINGROUP) \in asserted[e]

IInv == TypeOK /\ FramesAsserted

(* The model of a solve assigns a state to every frame that carries a     *)
(* main-group constraint.                                                 *)
LEMMA ModelsFrame ==
    ASSUME NEW F, NEW G, NEW asg \in Models(Active(F, G)), NEW t,
           At("invar", t, MAINGROUP) \in F
    PROVE  asg[t] \in States
<1>1. t \in Times(Active(F, G))
      BY DEF Active, Times, At, MAINGROUP
<1>. QED
     BY <1>1 DEF Models

LEMMA ForwardTraceType ==
    ASSUME NEW F, NEW G, NEW asg \in Models(Active(F, G)), NEW n \in Nat,
           \A j \in 0 .. n : At("invar", j, MAINGROUP) \in F
    PROVE  ForwardTrace(asg, n) \in Seq(States)
<1>1. \A i \in 1 .. n + 1 : asg[i - 1] \in States
      BY ModelsFrame
<1>. QED
     BY <1>1 DEF ForwardTrace

LEMMA BackwardTraceType ==
    ASSUME NEW F, NEW G, NEW asg \in Models(Active(F, G)), NEW n \in Nat,
           \A j \in 0 .. n : At("invar", UINT_MAX - j, MAINGROUP) \in F
    PROVE  BackwardTrace(asg, n) \in Seq(States)
<1>1. \A i \in 1 .. n + 1 : asg[UINT_MAX - (n + 1 - i)] \in States
  <2>. TAKE i \in 1 .. n + 1
  <2>1. n + 1 - i \in 0 .. n
        OBVIOUS
  <2>. QED
       BY <2>1, ModelsFrame
<1>. QED
     BY <1>1 DEF BackwardTrace

LEMMA InvertLastGroupType ==
    ASSUME NEW G \in Seq(BOOLEAN)
    PROVE  InvertLastGroup(G) \in Seq(BOOLEAN)
<1>1. /\ DOMAIN G = 1 .. Len(G)
      /\ \A i \in 1 .. Len(G) : G[i] \in BOOLEAN
      OBVIOUS
<1>2. /\ DOMAIN InvertLastGroup(G) = 1 .. Len(G)
      /\ \A i \in 1 .. Len(G) : InvertLastGroup(G)[i] \in BOOLEAN
      BY <1>1, Zenon DEF InvertLastGroup
<1>3. InvertLastGroup(G) = [i \in 1 .. Len(G) |-> InvertLastGroup(G)[i]]
      BY <1>2 DEF InvertLastGroup
<1>. QED
     BY <1>2, <1>3

LEMMA InitIInv == Init => IInv
BY DEF Init, IInv, TypeOK, FramesAsserted, PCs, UNKNOWN, NoWitness

(* The typing facts every action step relies on.                          *)
LEMMA FrameConstraintsType ==
    ASSUME NEW t \in Int, NEW kinds \in SUBSET Kinds
    PROVE  FrameConstraints(t, kinds) \subseteq Formula
BY DEF FrameConstraints, At, Formula, MAINGROUP

USE StrategiesAssumption, UIntMaxAssumption

LEMMA StartIInv ==
    ASSUME IInv, NEW e \in Strategies, BackwardStart(e) \/ ForwardStart(e)
    PROVE  IInv'
<1>1. /\ pc[e] = "start"
      /\ \E F \in SUBSET Formula :
            /\ At("invar", Frame(e, 0), MAINGROUP) \in F
            /\ asserted' = [asserted EXCEPT ![e] = F]
      /\ pc' = [pc EXCEPT ![e] = IF e = "backward" THEN "goal" ELSE "witness"]
      /\ k' = [k EXCEPT ![e] = 0]
      /\ registered' = registered \cup {e}
      /\ interrupted' = [interrupted EXCEPT ![e] = FALSE]
      /\ groups' = [groups EXCEPT ![e] = <<>>]
      /\ UNCHANGED <<cmd, status, witnesses, witness>>
  <2>1. CASE BackwardStart(e)
    <3>. DEFINE F == FrameConstraints(UINT_MAX, {"target", "invar", "bwd", "glob"})
    <3>1. F \in SUBSET Formula
          BY FrameConstraintsType DEF Kinds
    <3>2. At("invar", Frame(e, 0), MAINGROUP) \in F
          BY <2>1 DEF BackwardStart, Frame, FrameConstraints
    <3>. QED
         BY <2>1, <3>1, <3>2 DEF BackwardStart, NewEngine
  <2>2. CASE ForwardStart(e)
    <3>. DEFINE F == FrameConstraints(0, {"init", "invar", "fwd", "glob"})
    <3>1. F \in SUBSET Formula
          BY FrameConstraintsType DEF Kinds
    <3>2. At("invar", Frame(e, 0), MAINGROUP) \in F
          BY <2>2 DEF ForwardStart, Frame, FrameConstraints
    <3>. QED
         BY <2>2, <3>1, <3>2 DEF ForwardStart, NewEngine
  <2>. QED
       BY <2>1, <2>2
<1>2. TypeOK'
      BY <1>1 DEF IInv, TypeOK, PCs
<1>3. FramesAsserted'
      BY <1>1 DEF IInv, TypeOK, FramesAsserted, Depth
<1>. QED
     BY <1>2, <1>3 DEF IInv

LEMMA CleanupIInv ==
    ASSUME IInv, NEW e \in Strategies, Cleanup(e)
    PROVE  IInv'
BY DEF IInv, TypeOK, FramesAsserted, Depth, Cleanup, PCs

LEMMA GoalProofIInv ==
    ASSUME IInv, NEW e \in Strategies,
           BackwardGoalCheck(e) \/ BackwardProofCheck(e)
    PROVE  IInv'
<1>1. /\ UNCHANGED <<cmd, k, asserted, groups, registered, interrupted,
                     witnesses, witness>>
      /\ pc' = [pc EXCEPT ![e] = pc'[e]]
      /\ pc'[e] \in {"cleanup", "witness"}
      /\ pc[e] \in {"goal", "proof"}
      /\ e = "backward"
      /\ status' \in {status, REACHABLE, UNREACHABLE}
  <2>. pc \in [Strategies -> PCs]
       BY DEF IInv, TypeOK
  <2>1. CASE BackwardGoalCheck(e)
        BY <2>1 DEF BackwardGoalCheck, Goto, SyncSetStatus
  <2>2. CASE BackwardProofCheck(e)
        BY <2>2 DEF BackwardProofCheck, Goto, SyncSetStatus
  <2>. QED
       BY <2>1, <2>2
<1>2. pc' \in [Strategies -> PCs]
      BY <1>1 DEF IInv, TypeOK, PCs
<1>3. status' \in {UNKNOWN, REACHABLE, UNREACHABLE}
      BY <1>1 DEF IInv, TypeOK
<1>4. TypeOK'
      BY <1>1, <1>2, <1>3 DEF IInv, TypeOK
<1>5. FramesAsserted'
      BY <1>1 DEF IInv, TypeOK, FramesAsserted, Depth
<1>. QED
     BY <1>4, <1>5 DEF IInv

LEMMA ForwardProofIInv ==
    ASSUME IInv, NEW e \in Strategies, ForwardProofCheck(e)
    PROVE  IInv'
<1>1. /\ UNCHANGED <<cmd, asserted, groups, registered, interrupted,
                     witnesses, witness>>
      /\ e = "forward"
      /\ pc[e] = "proof"
      /\ pc' = [pc EXCEPT ![e] = pc'[e]]
      /\ pc'[e] \in {"cleanup", "witness"}
      /\ \/ k' = k
         \/ k' = [k EXCEPT ![e] = k[e] + 1]
      /\ status' \in {status, REACHABLE, UNREACHABLE}
  <2>. pc \in [Strategies -> PCs] /\ k \in [Strategies -> Nat]
       BY DEF IInv, TypeOK
  <2>. QED
       BY DEF ForwardProofCheck, Goto, SyncSetStatus
<1>2. TypeOK'
  <2>1. pc' \in [Strategies -> PCs]
        BY <1>1 DEF IInv, TypeOK, PCs
  <2>2. status' \in {UNKNOWN, REACHABLE, UNREACHABLE}
        BY <1>1 DEF IInv, TypeOK
  <2>3. k' \in [Strategies -> Nat]
    <3>1. k \in [Strategies -> Nat]
          BY DEF IInv, TypeOK
    <3>2. CASE k' = k
          BY <3>1, <3>2
    <3>3. CASE k' = [k EXCEPT ![e] = k[e] + 1]
          BY <3>1, <3>3
    <3>. QED
         BY <1>1, <3>2, <3>3
  <2>. QED
       BY <1>1, <2>1, <2>2, <2>3 DEF IInv, TypeOK
<1>3. FramesAsserted'
      BY <1>1 DEF IInv, TypeOK, FramesAsserted, Depth
<1>. QED
     BY <1>2, <1>3 DEF IInv

LEMMA BackwardUnrollIInv ==
    ASSUME IInv, NEW e \in Strategies, BackwardUnroll(e)
    PROVE  IInv'
<1>. DEFINE n == k[e] + 1
            t == UINT_MAX - n
            New == FrameConstraints(t, {"trans", "invar", "glob"})
                   \cup {Uniqueness(UINT_MAX - j, t) : j \in 0 .. n - 1}
<1>. USE DEF IInv, TypeOK
<1>1. /\ e = "backward"
      /\ pc[e] = "unroll"
      /\ groups' = [groups EXCEPT ![e] = InvertLastGroup(groups[e])]
      /\ k' = [k EXCEPT ![e] = n]
      /\ asserted' = [asserted EXCEPT ![e] = asserted[e] \cup New]
      /\ pc' = [pc EXCEPT ![e] = pc'[e]]
      /\ pc'[e] \in {"cleanup", "proof"}
      /\ UNCHANGED <<cmd, registered, interrupted, status, witnesses, witness>>
      BY DEF BackwardUnroll, Goto
<1>2. New \subseteq Formula
  <2>1. FrameConstraints(t, {"trans", "invar", "glob"}) \subseteq Formula
        BY FrameConstraintsType DEF Kinds
  <2>2. \A j \in 0 .. n - 1 : Uniqueness(UINT_MAX - j, t) \in Formula
        BY DEF Uniqueness, Formula, Kinds, MAINGROUP
  <2>. QED
       BY <2>1, <2>2
<1>3. At("invar", Frame(e, n), MAINGROUP) \in New
      BY <1>1 DEF Frame, FrameConstraints
<1>4. InvertLastGroup(groups[e]) \in Seq(BOOLEAN)
      BY InvertLastGroupType
<1>5. TypeOK'
  <2>1. k' \in [Strategies -> Nat]
        BY <1>1
  <2>2. asserted' \in [Strategies -> SUBSET Formula]
        BY <1>1, <1>2
  <2>3. groups' \in [Strategies -> Seq(BOOLEAN)]
        BY <1>1, <1>4
  <2>4. pc' \in [Strategies -> PCs]
        BY <1>1 DEF PCs
  <2>. QED
       BY <1>1, <2>1, <2>2, <2>3, <2>4
<1>6. FramesAsserted'
      BY <1>1, <1>3 DEF FramesAsserted, Depth
<1>. QED
     BY <1>5, <1>6

LEMMA ForwardUnrollIInv ==
    ASSUME IInv, NEW e \in Strategies, ForwardUnroll(e)
    PROVE  IInv'
<1>. DEFINE New == {At("trans", k[e], MAINGROUP)}
                   \cup FrameConstraints(k[e] + 1, {"invar", "fwd", "glob"})
                   \cup {Uniqueness(j, k[e] + 1) : j \in 0 .. k[e]}
<1>. USE DEF IInv, TypeOK
<1>1. /\ e = "forward"
      /\ pc[e] = "unroll"
      /\ groups' = [groups EXCEPT ![e] = InvertLastGroup(groups[e])]
      /\ asserted' = [asserted EXCEPT ![e] = asserted[e] \cup New]
      /\ pc' = [pc EXCEPT ![e] = "proof"]
      /\ UNCHANGED <<cmd, k, registered, interrupted, status, witnesses, witness>>
      BY DEF ForwardUnroll, Goto
<1>0. k[e] \in Nat
      OBVIOUS
<1>2. New \subseteq Formula
  <2>1. FrameConstraints(k[e] + 1, {"invar", "fwd", "glob"}) \subseteq Formula
        BY <1>0, FrameConstraintsType DEF Kinds
  <2>2. /\ At("trans", k[e], MAINGROUP) \in Formula
        /\ \A j \in 0 .. k[e] : Uniqueness(j, k[e] + 1) \in Formula
        BY DEF At, Uniqueness, Formula, Kinds, MAINGROUP
  <2>. QED
       BY <2>1, <2>2
<1>3. At("invar", Frame(e, k[e] + 1), MAINGROUP) \in New
      BY <1>1 DEF Frame, FrameConstraints
<1>4. InvertLastGroup(groups[e]) \in Seq(BOOLEAN)
      BY InvertLastGroupType
<1>5. TypeOK'
      BY <1>1, <1>2, <1>4 DEF PCs
<1>6. FramesAsserted'
      BY <1>1, <1>3 DEF FramesAsserted, Depth
<1>. QED
     BY <1>5, <1>6

LEMMA BackwardWitnessIInv ==
    ASSUME IInv, NEW e \in Strategies, BackwardWitnessCheck(e)
    PROVE  IInv'
<1>. DEFINE G == NewGroup(groups[e])
            F == asserted[e] \cup {At("init", UINT_MAX - k[e], Len(G))}
<1>. USE DEF IInv, TypeOK
<1>1. /\ e = "backward"
      /\ pc[e] = "witness"
      /\ asserted' = [asserted EXCEPT ![e] = F]
      /\ groups' = [groups EXCEPT ![e] = G]
      /\ pc' = [pc EXCEPT ![e] = pc'[e]]
      /\ pc'[e] \in {"cleanup", "unroll"}
      /\ status' \in {status, REACHABLE}
      /\ \/ UNCHANGED <<witnesses, witness>>
         \/ \E asg \in Models(Active(F, G)) : RecordWitness(BackwardTrace(asg, k[e]))
      /\ UNCHANGED <<cmd, k, registered, interrupted>>
      BY DEF BackwardWitnessCheck, Goto, SyncSetStatus
<1>2. /\ G \in Seq(BOOLEAN)
      /\ F \subseteq Formula
  <2>1. k[e] \in Nat /\ groups[e] \in Seq(BOOLEAN)
        OBVIOUS
  <2>2. G \in Seq(BOOLEAN) /\ Len(G) \in Nat
        BY <2>1 DEF NewGroup
  <2>. QED
       BY <2>1, <2>2 DEF At, Formula, Kinds
<1>3. \A j \in 0 .. k[e] : At("invar", UINT_MAX - j, MAINGROUP) \in F
      BY <1>1 DEF FramesAsserted, Depth, Frame
<1>4. witnesses' \in Seq(Seq(States)) /\ witness' \in Seq(States)
  <2>1. CASE UNCHANGED <<witnesses, witness>>
        BY <2>1
  <2>2. CASE \E asg \in Models(Active(F, G)) : RecordWitness(BackwardTrace(asg, k[e]))
    <3>1. PICK asg \in Models(Active(F, G)) : RecordWitness(BackwardTrace(asg, k[e]))
          BY <2>2
    <3>2. BackwardTrace(asg, k[e]) \in Seq(States)
          BY <1>3, BackwardTraceType
    <3>3. CASE status = UNKNOWN
      <4>1. /\ witnesses' = Append(witnesses, BackwardTrace(asg, k[e]))
            /\ witness' = BackwardTrace(asg, k[e])
            BY <3>1, <3>3, Zenon DEF RecordWitness
      <4>. QED
           BY <3>2, <4>1
    <3>4. CASE status # UNKNOWN
          BY <3>1, <3>4 DEF RecordWitness
    <3>. QED
         BY <3>3, <3>4
  <2>. QED
       BY <1>1, <2>1, <2>2
<1>5. TypeOK'
  <2>1. asserted' \in [Strategies -> SUBSET Formula]
        BY <1>1, <1>2
  <2>2. groups' \in [Strategies -> Seq(BOOLEAN)]
        BY <1>1, <1>2
  <2>3. pc' \in [Strategies -> PCs]
        BY <1>1 DEF PCs
  <2>4. status' \in {UNKNOWN, REACHABLE, UNREACHABLE}
        BY <1>1
  <2>. QED
       BY <1>1, <1>4, <2>1, <2>2, <2>3, <2>4
<1>6. FramesAsserted'
      BY <1>1 DEF FramesAsserted, Depth
<1>. QED
     BY <1>5, <1>6

LEMMA ForwardWitnessIInv ==
    ASSUME IInv, NEW e \in Strategies, ForwardWitnessCheck(e)
    PROVE  IInv'
<1>. DEFINE G == NewGroup(groups[e])
            F == asserted[e] \cup {At("target", k[e], Len(G))}
<1>. USE DEF IInv, TypeOK
<1>1. /\ e = "forward"
      /\ pc[e] = "witness"
      /\ asserted' = [asserted EXCEPT ![e] = F]
      /\ groups' = [groups EXCEPT ![e] = G]
      /\ pc' = [pc EXCEPT ![e] = pc'[e]]
      /\ pc'[e] \in {"cleanup", "unroll"}
      /\ status' \in {status, REACHABLE}
      /\ \/ UNCHANGED <<witnesses, witness>>
         \/ \E asg \in Models(Active(F, G)) : RecordWitness(ForwardTrace(asg, k[e]))
      /\ UNCHANGED <<cmd, k, registered, interrupted>>
      BY DEF ForwardWitnessCheck, Goto, SyncSetStatus
<1>2. /\ G \in Seq(BOOLEAN)
      /\ F \subseteq Formula
  <2>1. k[e] \in Nat /\ groups[e] \in Seq(BOOLEAN)
        OBVIOUS
  <2>2. G \in Seq(BOOLEAN) /\ Len(G) \in Nat
        BY <2>1 DEF NewGroup
  <2>. QED
       BY <2>1, <2>2 DEF At, Formula, Kinds
<1>3. \A j \in 0 .. k[e] : At("invar", j, MAINGROUP) \in F
      BY <1>1 DEF FramesAsserted, Depth, Frame
<1>4. witnesses' \in Seq(Seq(States)) /\ witness' \in Seq(States)
  <2>1. CASE UNCHANGED <<witnesses, witness>>
        BY <2>1
  <2>2. CASE \E asg \in Models(Active(F, G)) : RecordWitness(ForwardTrace(asg, k[e]))
    <3>1. PICK asg \in Models(Active(F, G)) : RecordWitness(ForwardTrace(asg, k[e]))
          BY <2>2
    <3>2. ForwardTrace(asg, k[e]) \in Seq(States)
          BY <1>3, ForwardTraceType
    <3>3. CASE status = UNKNOWN
      <4>1. /\ witnesses' = Append(witnesses, ForwardTrace(asg, k[e]))
            /\ witness' = ForwardTrace(asg, k[e])
            BY <3>1, <3>3, Zenon DEF RecordWitness
      <4>. QED
           BY <3>2, <4>1
    <3>4. CASE status # UNKNOWN
          BY <3>1, <3>4 DEF RecordWitness
    <3>. QED
         BY <3>3, <3>4
  <2>. QED
       BY <1>1, <2>1, <2>2
<1>5. TypeOK'
  <2>1. asserted' \in [Strategies -> SUBSET Formula]
        BY <1>1, <1>2
  <2>2. groups' \in [Strategies -> Seq(BOOLEAN)]
        BY <1>1, <1>2
  <2>3. pc' \in [Strategies -> PCs]
        BY <1>1 DEF PCs
  <2>4. status' \in {UNKNOWN, REACHABLE, UNREACHABLE}
        BY <1>1
  <2>. QED
       BY <1>1, <1>4, <2>1, <2>2, <2>3, <2>4
<1>6. FramesAsserted'
      BY <1>1 DEF FramesAsserted, Depth
<1>. QED
     BY <1>5, <1>6

(* Every step of the race preserves the strengthened type invariant.      *)
LEMMA NextIInv == IInv /\ [Next]_vars => IInv'
<1>. SUFFICES ASSUME IInv, [Next]_vars PROVE IInv'
     OBVIOUS
<1>1. CASE UNCHANGED vars
      BY <1>1 DEF vars, IInv, TypeOK, FramesAsserted, Depth
<1>2. ASSUME NEW e \in Strategies, Thread(e) PROVE IInv'
      BY <1>2, StartIInv, CleanupIInv, GoalProofIInv, ForwardProofIInv,
         BackwardUnrollIInv, ForwardUnrollIInv, BackwardWitnessIInv,
         ForwardWitnessIInv DEF Thread
<1>. QED
     BY <1>1, <1>2 DEF Next

(* Type correctness of the race: the engines hold well-formed formulas,   *)
(* the group stacks are Boolean sequences, and every witness extracted    *)
(* from a solver model, forward or reversed backward, is a sequence of    *)
(* states of the model.                                                   *)
THEOREM TypeCorrect == Spec => []TypeOK
<1>1. Init => IInv
      BY InitIInv
<1>2. IInv /\ [Next]_vars => IInv'
      BY NextIInv
<1>3. IInv => TypeOK
      BY DEF IInv
<1>. QED
     BY <1>1, <1>2, <1>3, PTL DEF Spec

=============================================================================
