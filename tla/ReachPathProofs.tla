--------------------------- MODULE ReachPathProofs ---------------------------
(***************************************************************************)
(* Proofs that what the strategy threads of module Reach read off a SAT   *)
(* model means what the command promises: a witness is a path of the      *)
(* model (spec P5), and the uniqueness constraints bound the unrolling    *)
(* by the number of states.  Both rest on an invariant saying which       *)
(* formulas each engine holds at each frame it has unrolled.              *)
(***************************************************************************)
EXTENDS ReachProofs, FiniteSetTheorems

(* The set A of formulas holds the main-group constraint kd at frame j of *)
(* thread e.                                                               *)
HeldAt(A, e, kd, j) == At(kd, Frame(e, j), MAINGROUP) \in A

(* The formulas an engine A of thread e holds at the frames 0 .. D it has *)
(* unrolled: the global constraints at every frame (assert_fsm_invar is   *)
(* FramesAsserted), the pairwise uniqueness of the frames, TRANS between  *)
(* consecutive frames, and, at the frame where the strategy starts, INIT  *)
(* with the forward constraints (forward) or the target with the backward *)
(* constraints (backward).                                                *)
FramesHeld(A, e, D) ==
    /\ \A j \in 0 .. D : HeldAt(A, e, "glob", j)
    /\ \A i, j \in 0 .. D : i < j => Uniqueness(Frame(e, i), Frame(e, j)) \in A
    /\ e = "forward" =>
          /\ HeldAt(A, e, "init", 0)
          /\ \A j \in 0 .. D : HeldAt(A, e, "fwd", j)
          /\ \A j \in 0 .. D - 1 : HeldAt(A, e, "trans", j)
    /\ e = "backward" =>
          /\ HeldAt(A, e, "target", 0)
          /\ HeldAt(A, e, "bwd", 0)
          /\ \A j \in 1 .. D : HeldAt(A, e, "trans", j)

PathAsserted ==
    \A e \in Strategies : pc[e] # "start" => FramesHeld(asserted[e], e, Depth(e))

(* What a witness read off a model satisfies, for every command: it       *)
(* starts in INIT, ends in the target, steps by TRANS and stays in INVAR  *)
(* and the global and forward constraints; the backward constraints are   *)
(* asserted at the goal frame only, its last state.                       *)
WitnessPath(w) ==
    /\ Len(w) > 0
    /\ w[1] \in InitStates
    /\ w[Len(w)] \in cmd.target \cap cmd.bwd
    /\ \A i \in 1 .. Len(w) : w[i] \in Invar \cap cmd.glob \cap cmd.fwd
    /\ \A i \in 1 .. Len(w) - 1 : <<w[i], w[i + 1]>> \in Trans

WitnessInv == witness # NoWitness => WitnessPath(witness)

(* A thread about to solve with frames 0 .. k + 1 (forward) or looking    *)
(* for a witness at depth k has found k + 1 distinct states.              *)
DepthInv ==
    \A e \in Strategies :
        /\ k[e] <= Cardinality(States)
        /\ (e = "forward" \/ pc[e] \in {"start", "goal", "witness", "unroll"})
              => k[e] < Cardinality(States)

PInv == IInv /\ PathAsserted /\ WitnessInv /\ DepthInv

(* Asserting more formulas, or looking at fewer frames, keeps them held.  *)
LEMMA FramesHeldMono ==
    ASSUME NEW A, NEW B, NEW e, NEW D \in Int, NEW E \in Int,
           FramesHeld(A, e, D), A \subseteq B, E <= D
    PROVE  FramesHeld(B, e, E)
BY DEF FramesHeld, HeldAt

-----------------------------------------------------------------------------
(***************************************************************************)
(* What a model of the active formulas of an engine tells about the       *)
(* states it assigns to the frames.                                        *)
(***************************************************************************)

(* Every active formula holds in a model of the solve.                    *)
LEMMA ModelHolds ==
    ASSUME NEW F, NEW G, NEW asg \in Models(Active(F, G)), NEW f \in F,
           f.g = MAINGROUP \/ G[f.g]
    PROVE  Holds(f, asg)
BY DEF Models, Active

(* A unary constraint in force at frame t puts the state there in the     *)
(* set the constraint denotes.                                            *)
LEMMA ModelUnary ==
    ASSUME NEW F, NEW G, NEW asg \in Models(Active(F, G)),
           NEW kd \in {"init", "invar", "target", "fwd", "bwd", "glob"},
           NEW t, NEW g, At(kd, t, g) \in F, g = MAINGROUP \/ G[g]
    PROVE  asg[t] \in Denotes(kd)
<1>1. Holds(At(kd, t, g), asg)
      BY ModelHolds DEF At
<1>. QED
     BY <1>1 DEF Holds, At

(* A TRANS formula at t relates the states at t and t + 1.                *)
LEMMA ModelTrans ==
    ASSUME NEW F, NEW G, NEW asg \in Models(Active(F, G)), NEW t,
           At("trans", t, MAINGROUP) \in F
    PROVE  <<asg[t], asg[t + 1]>> \in Trans
<1>1. Holds(At("trans", t, MAINGROUP), asg)
      BY ModelHolds DEF At
<1>. QED
     BY <1>1 DEF Holds, At

(* A uniqueness formula separates the states of its two frames.           *)
LEMMA ModelUniq ==
    ASSUME NEW F, NEW G, NEW asg \in Models(Active(F, G)), NEW t, NEW u,
           Uniqueness(t, u) \in F
    PROVE  asg[t] # asg[u]
<1>1. Holds(Uniqueness(t, u), asg)
      BY ModelHolds DEF Uniqueness, MAINGROUP
<1>. QED
     BY <1>1 DEF Holds, Uniqueness

(* The pigeonhole step: a model of D + 1 frames that are pairwise         *)
(* distinct and each carry assert_fsm_invar needs D + 1 distinct states.  *)
LEMMA UniqueFrames ==
    ASSUME NEW F, NEW G, NEW asg \in Models(Active(F, G)),
           NEW e \in Strategies, NEW D \in Nat,
           \A j \in 0 .. D : At("invar", Frame(e, j), MAINGROUP) \in F,
           \A i, j \in 0 .. D : i < j => Uniqueness(Frame(e, i), Frame(e, j)) \in F
    PROVE  D < Cardinality(States)
<1>. DEFINE f == [j \in 0 .. D |-> asg[Frame(e, j)]]
<1>1. f \in [0 .. D -> States]
      BY ModelsFrame
<1>2. IsFiniteSet(0 .. D) /\ Cardinality(0 .. D) = D + 1
      BY FS_Interval
<1>3. IsFiniteSet(States) /\ Cardinality(States) \in Nat
      BY FS_CardinalityType, StatesAssumption
<1>4. \A x, y \in 0 .. D : x # y => f[x] # f[y]
  <2>. SUFFICES ASSUME NEW x \in 0 .. D, NEW y \in 0 .. D, x < y
                PROVE  f[x] # f[y] /\ f[y] # f[x]
       OBVIOUS
  <2>. QED
       BY ModelUniq
<1>. SUFFICES ASSUME Cardinality(States) < Cardinality(0 .. D) PROVE FALSE
     BY <1>2, <1>3
<1>5. \E x, y \in 0 .. D : x # y /\ f[x] = f[y]
  <2>. HIDE DEF f
  <2>. QED
       BY <1>1, <1>2, <1>3, FS_PigeonHole
<1>. QED
     BY <1>4, <1>5

-----------------------------------------------------------------------------
(***************************************************************************)
(* The strengthened invariant PInv is inductive.  IInv is preserved by    *)
(* NextIInv; the lemmas below show, action by action, that the other      *)
(* three conjuncts are.                                                   *)
(***************************************************************************)
USE StrategiesAssumption, UIntMaxAssumption

LEMMA CardinalityPositive ==
    Cardinality(States) \in Nat /\ 0 < Cardinality(States)
<1>1. IsFiniteSet(States) /\ States # {}
      BY StatesAssumption
<1>. QED
     BY <1>1, FS_CardinalityType, FS_EmptySet

LEMMA InitPInv == Init => PInv
<1>. SUFFICES ASSUME Init PROVE PInv
     OBVIOUS
<1>1. IInv
      BY InitIInv
<1>2. PathAsserted /\ WitnessInv
      BY DEF Init, PathAsserted, WitnessInv, NoWitness
<1>3. DepthInv
      BY CardinalityPositive DEF Init, DepthInv
<1>. QED
     BY <1>1, <1>2, <1>3 DEF PInv

(* The rest of PInv, which the lemmas below establish for each action.    *)
QInv == PathAsserted /\ WitnessInv /\ DepthInv

LEMMA StartQInv ==
    ASSUME PInv, NEW e \in Strategies, BackwardStart(e) \/ ForwardStart(e)
    PROVE  QInv'
<1>. USE DEF PInv, IInv, TypeOK
<1>1. /\ pc[e] = "start"
      /\ pc' = [pc EXCEPT ![e] = IF e = "backward" THEN "goal" ELSE "witness"]
      /\ k' = [k EXCEPT ![e] = 0]
      /\ UNCHANGED <<cmd, witness>>
      /\ \E F : /\ asserted' = [asserted EXCEPT ![e] = F]
                /\ FramesHeld(F, e, 0)
      BY DEF BackwardStart, ForwardStart, NewEngine, FramesHeld, HeldAt, Frame,
             FrameConstraints
<1>2. Depth(e)' = 0
      BY <1>1 DEF Depth
<1>3. \A x \in Strategies \ {e} :
         /\ pc'[x] = pc[x] /\ k'[x] = k[x] /\ asserted'[x] = asserted[x]
         /\ Depth(x)' = Depth(x)
      BY <1>1 DEF Depth
<1>4. PathAsserted'
  <2>. SUFFICES ASSUME NEW x \in Strategies, pc'[x] # "start"
                PROVE  FramesHeld(asserted'[x], x, Depth(x)')
       BY DEF PathAsserted
  <2>1. CASE x = e
        BY <1>1, <1>2, <2>1
  <2>2. CASE x # e
        BY <1>3, <2>2 DEF PathAsserted
  <2>. QED
       BY <2>1, <2>2
<1>5. WitnessInv'
      BY <1>1 DEF WitnessInv, WitnessPath
<1>6. DepthInv'
      BY <1>1, CardinalityPositive DEF DepthInv
<1>. QED
     BY <1>4, <1>5, <1>6 DEF QInv

LEMMA CleanupQInv ==
    ASSUME PInv, NEW e \in Strategies, Cleanup(e)
    PROVE  QInv'
<1>. USE DEF PInv, IInv, TypeOK
<1>1. /\ pc[e] = "cleanup"
      /\ pc' = [pc EXCEPT ![e] = "done"]
      /\ UNCHANGED <<cmd, k, asserted, witness>>
      BY DEF Cleanup
<1>2. \A x \in Strategies : Depth(x)' = Depth(x)
      BY <1>1 DEF Depth
<1>3. PathAsserted'
      BY <1>1, <1>2 DEF PathAsserted
<1>4. WitnessInv'
      BY <1>1 DEF WitnessInv, WitnessPath
<1>5. DepthInv'
      BY <1>1 DEF DepthInv
<1>. QED
     BY <1>3, <1>4, <1>5 DEF QInv

(* A SAT answer to the solve over the frames a thread has unrolled means  *)
(* those frames hold Depth(e) + 1 distinct states.                        *)
LEMMA SatDepth ==
    ASSUME PInv, NEW e \in Strategies, pc[e] # "start",
           SAT \in Outcomes(e, asserted[e], groups[e])
    PROVE  Depth(e) < Cardinality(States)
<1>1. Solve(asserted[e], groups[e]) = SAT
      BY DEF Outcomes, SAT, STATUS_UNKNOWN
<1>2. PICK asg \in Models(Active(asserted[e], groups[e])) : TRUE
      BY <1>1 DEF Solve, SAT, UNSAT
<1>3. Depth(e) \in Nat
      BY DEF PInv, IInv, TypeOK, Depth
<1>4. \A j \in 0 .. Depth(e) : At("invar", Frame(e, j), MAINGROUP) \in asserted[e]
      BY DEF PInv, IInv, FramesAsserted
<1>5. \A i, j \in 0 .. Depth(e) :
         i < j => Uniqueness(Frame(e, i), Frame(e, j)) \in asserted[e]
      BY DEF PInv, PathAsserted, FramesHeld
<1>. QED
     BY <1>2, <1>3, <1>4, <1>5, UniqueFrames

LEMMA GoalProofQInv ==
    ASSUME PInv, NEW e \in Strategies,
           BackwardGoalCheck(e) \/ BackwardProofCheck(e)
    PROVE  QInv'
<1>. USE DEF PInv, IInv, TypeOK
<1>1. /\ e = "backward"
      /\ pc[e] \in {"goal", "proof"}
      /\ pc' = [pc EXCEPT ![e] = pc'[e]]
      /\ pc'[e] \in {"cleanup", "witness"}
      /\ pc'[e] = "witness" =>
            \/ pc[e] = "goal"
            \/ SAT \in Outcomes(e, asserted[e], groups[e])
      /\ UNCHANGED <<cmd, k, asserted, witness>>
      BY DEF BackwardGoalCheck, BackwardProofCheck, Goto
<1>2. \A x \in Strategies : Depth(x)' = Depth(x)
      BY <1>1 DEF Depth
<1>3. PathAsserted'
      BY <1>1, <1>2 DEF PathAsserted
<1>4. WitnessInv'
      BY <1>1 DEF WitnessInv, WitnessPath
<1>5. pc'[e] = "witness" => k[e] < Cardinality(States)
      BY <1>1, SatDepth DEF DepthInv, Depth
<1>6. DepthInv'
      BY <1>1, <1>5 DEF DepthInv
<1>. QED
     BY <1>3, <1>4, <1>6 DEF QInv

LEMMA ForwardProofQInv ==
    ASSUME PInv, NEW e \in Strategies, ForwardProofCheck(e)
    PROVE  QInv'
<1>. USE DEF PInv, IInv, TypeOK
<1>1. /\ e = "forward"
      /\ pc[e] = "proof"
      /\ pc' = [pc EXCEPT ![e] = pc'[e]]
      /\ pc'[e] \in {"cleanup", "witness"}
      /\ \/ k' = k
         \/ /\ k' = [k EXCEPT ![e] = k[e] + 1]
            /\ SAT \in Outcomes(e, asserted[e], groups[e])
      /\ UNCHANGED <<cmd, asserted, witness>>
      BY DEF ForwardProofCheck, Goto
<1>2. Depth(e) = k[e] + 1
      BY <1>1 DEF Depth
<1>3. Depth(e)' \in {k[e], k[e] + 1}
      BY <1>1 DEF Depth
<1>4. \A x \in Strategies \ {e} : Depth(x)' = Depth(x) /\ pc'[x] = pc[x]
                                 /\ k'[x] = k[x]
      BY <1>1 DEF Depth
<1>5. PathAsserted'
  <2>. SUFFICES ASSUME NEW x \in Strategies, pc'[x] # "start"
                PROVE  FramesHeld(asserted'[x], x, Depth(x)')
       BY DEF PathAsserted
  <2>1. CASE x = e
    <3>1. FramesHeld(asserted[e], e, Depth(e))
          BY <1>1 DEF PathAsserted
    <3>. QED
         BY <1>1, <1>2, <1>3, <2>1, <3>1, FramesHeldMono
  <2>2. CASE x # e
        BY <1>1, <1>4, <2>2 DEF PathAsserted
  <2>. QED
       BY <2>1, <2>2
<1>6. WitnessInv'
      BY <1>1 DEF WitnessInv, WitnessPath
<1>7. DepthInv'
  <2>1. CASE k' = k
        BY <1>1, <2>1 DEF DepthInv
  <2>2. CASE k' # k
    <3>1. k[e] + 1 < Cardinality(States)
          BY <1>1, <1>2, <2>2, SatDepth
    <3>. QED
         BY <1>1, <2>2, <3>1, CardinalityPositive DEF DepthInv
  <2>. QED
       BY <2>1, <2>2
<1>. QED
     BY <1>5, <1>6, <1>7 DEF QInv

LEMMA BackwardUnrollQInv ==
    ASSUME PInv, NEW e \in Strategies, BackwardUnroll(e)
    PROVE  QInv'
<1>. DEFINE n == k[e] + 1
            t == UINT_MAX - n
            New == FrameConstraints(t, {"trans", "invar", "glob"})
                   \cup {Uniqueness(UINT_MAX - j, t) : j \in 0 .. n - 1}
            A == asserted[e] \cup New
<1>. USE DEF PInv, IInv, TypeOK
<1>0. k[e] \in Nat /\ asserted[e] \subseteq A
      OBVIOUS
<1>1. /\ e = "backward"
      /\ pc[e] = "unroll"
      /\ k' = [k EXCEPT ![e] = n]
      /\ asserted' = [asserted EXCEPT ![e] = A]
      /\ pc' = [pc EXCEPT ![e] = pc'[e]]
      /\ pc'[e] \in {"cleanup", "proof"}
      /\ UNCHANGED <<cmd, witness>>
      BY DEF BackwardUnroll, Goto
<1>2. /\ Depth(e) = k[e]
      /\ Depth(e)' = n
      /\ \A x \in Strategies \ {e} :
            pc'[x] = pc[x] /\ asserted'[x] = asserted[x] /\ Depth(x)' = Depth(x)
      BY <1>1 DEF Depth
<1>3. FramesHeld(A, e, n)
  <2>0. FramesHeld(asserted[e], e, k[e])
        BY <1>1, <1>2 DEF PathAsserted
  <2>2. /\ HeldAt(A, e, "glob", n)
        /\ HeldAt(A, e, "trans", n)
        /\ \A i \in 0 .. n - 1 : Uniqueness(Frame(e, i), Frame(e, n)) \in A
        BY <1>0, <1>1 DEF HeldAt, Frame, FrameConstraints
  <2>. HIDE DEF A
  <2>1. FramesHeld(A, e, k[e])
        BY <1>0, <2>0, FramesHeldMono
  <2>3. \A j \in 0 .. n : HeldAt(A, e, "glob", j)
        BY <1>0, <2>1, <2>2 DEF FramesHeld
  <2>4. \A i, j \in 0 .. n : i < j => Uniqueness(Frame(e, i), Frame(e, j)) \in A
    <3>. SUFFICES ASSUME NEW i \in 0 .. n, NEW j \in 0 .. n, i < j
                  PROVE  Uniqueness(Frame(e, i), Frame(e, j)) \in A
         OBVIOUS
    <3>1. CASE j = n
          BY <1>0, <2>2, <3>1
    <3>2. CASE j # n
      <4>1. i \in 0 .. k[e] /\ j \in 0 .. k[e]
            BY <1>0, <3>2
      <4>2. \A i2, j2 \in 0 .. k[e] :
                i2 < j2 => Uniqueness(Frame(e, i2), Frame(e, j2)) \in A
            BY <2>1 DEF FramesHeld
      <4>. QED
           BY <4>1, <4>2
    <3>. QED
         BY <3>1, <3>2
  <2>5. \A j \in 1 .. n : HeldAt(A, e, "trans", j)
        BY <1>0, <1>1, <2>1, <2>2 DEF FramesHeld
  <2>6. HeldAt(A, e, "target", 0) /\ HeldAt(A, e, "bwd", 0)
        BY <1>1, <2>1 DEF FramesHeld
  <2>. QED
       BY <1>1, <2>3, <2>4, <2>5, <2>6 DEF FramesHeld
<1>4. PathAsserted'
  <2>. SUFFICES ASSUME NEW x \in Strategies, pc'[x] # "start"
                PROVE  FramesHeld(asserted'[x], x, Depth(x)')
       BY DEF PathAsserted
  <2>1. CASE x = e
        BY <1>1, <1>2, <1>3, <2>1
  <2>2. CASE x # e
        BY <1>2, <2>2 DEF PathAsserted
  <2>. QED
       BY <2>1, <2>2
<1>5. WitnessInv'
      BY <1>1 DEF WitnessInv, WitnessPath
<1>6. DepthInv'
      BY <1>0, <1>1, CardinalityPositive DEF DepthInv
<1>. QED
     BY <1>4, <1>5, <1>6 DEF QInv

LEMMA ForwardUnrollQInv ==
    ASSUME PInv, NEW e \in Strategies, ForwardUnroll(e)
    PROVE  QInv'
<1>. DEFINE n == k[e] + 1
            New == {At("trans", k[e], MAINGROUP)}
                   \cup FrameConstraints(n, {"invar", "fwd", "glob"})
                   \cup {Uniqueness(j, n) : j \in 0 .. k[e]}
            A == asserted[e] \cup New
<1>. USE DEF PInv, IInv, TypeOK
<1>0. k[e] \in Nat /\ asserted[e] \subseteq A
      OBVIOUS
<1>1. /\ e = "forward"
      /\ pc[e] = "unroll"
      /\ asserted' = [asserted EXCEPT ![e] = A]
      /\ pc' = [pc EXCEPT ![e] = "proof"]
      /\ UNCHANGED <<cmd, k, witness>>
      BY DEF ForwardUnroll, Goto
<1>2. /\ Depth(e) = k[e]
      /\ Depth(e)' = n
      /\ \A x \in Strategies \ {e} :
            pc'[x] = pc[x] /\ asserted'[x] = asserted[x] /\ Depth(x)' = Depth(x)
      BY <1>1 DEF Depth
<1>3. FramesHeld(A, e, n)
  <2>0. FramesHeld(asserted[e], e, k[e])
        BY <1>1, <1>2 DEF PathAsserted
  <2>2. /\ HeldAt(A, e, "glob", n)
        /\ HeldAt(A, e, "fwd", n)
        /\ HeldAt(A, e, "trans", k[e])
        /\ \A i \in 0 .. k[e] : Uniqueness(Frame(e, i), Frame(e, n)) \in A
        BY <1>0, <1>1 DEF HeldAt, Frame, FrameConstraints
  <2>. HIDE DEF A
  <2>1. FramesHeld(A, e, k[e])
        BY <1>0, <2>0, FramesHeldMono
  <2>3. /\ \A j \in 0 .. n : HeldAt(A, e, "glob", j)
        /\ \A j \in 0 .. n : HeldAt(A, e, "fwd", j)
        BY <1>0, <1>1, <2>1, <2>2 DEF FramesHeld
  <2>4. \A i, j \in 0 .. n : i < j => Uniqueness(Frame(e, i), Frame(e, j)) \in A
    <3>. SUFFICES ASSUME NEW i \in 0 .. n, NEW j \in 0 .. n, i < j
                  PROVE  Uniqueness(Frame(e, i), Frame(e, j)) \in A
         OBVIOUS
    <3>1. CASE j = n
          BY <1>0, <2>2, <3>1
    <3>2. CASE j # n
      <4>1. i \in 0 .. k[e] /\ j \in 0 .. k[e]
            BY <1>0, <3>2
      <4>2. \A i2, j2 \in 0 .. k[e] :
                i2 < j2 => Uniqueness(Frame(e, i2), Frame(e, j2)) \in A
            BY <2>1 DEF FramesHeld
      <4>. QED
           BY <4>1, <4>2
    <3>. QED
         BY <3>1, <3>2
  <2>5. \A j \in 0 .. n - 1 : HeldAt(A, e, "trans", j)
        BY <1>0, <1>1, <2>1, <2>2 DEF FramesHeld
  <2>6. HeldAt(A, e, "init", 0)
        BY <1>1, <2>1 DEF FramesHeld
  <2>. QED
       BY <1>1, <2>3, <2>4, <2>5, <2>6 DEF FramesHeld
<1>4. PathAsserted'
  <2>. SUFFICES ASSUME NEW x \in Strategies, pc'[x] # "start"
                PROVE  FramesHeld(asserted'[x], x, Depth(x)')
       BY DEF PathAsserted
  <2>1. CASE x = e
        BY <1>1, <1>2, <1>3, <2>1
  <2>2. CASE x # e
        BY <1>2, <2>2 DEF PathAsserted
  <2>. QED
       BY <2>1, <2>2
<1>5. WitnessInv'
      BY <1>1 DEF WitnessInv, WitnessPath
<1>6. DepthInv'
      BY <1>1 DEF DepthInv
<1>. QED
     BY <1>4, <1>5, <1>6 DEF QInv

-----------------------------------------------------------------------------
(***************************************************************************)
(* The witness a strategy reads off a model of its witness check is a     *)
(* path of the model.                                                     *)
(***************************************************************************)

(* The group new_group opens is enabled, so its formula is in force.      *)
LEMMA NewGroupEnabled ==
    ASSUME NEW H \in Seq(BOOLEAN)
    PROVE  /\ Len(NewGroup(H)) \in Nat
           /\ Len(NewGroup(H)) # MAINGROUP
           /\ NewGroup(H)[Len(NewGroup(H))] = TRUE
BY DEF NewGroup, MAINGROUP

(* Forward: INIT at frame 0, the target at frame n in the new group.      *)
LEMMA ForwardWitnessPath ==
    ASSUME NEW A, NEW n \in Nat, NEW H \in Seq(BOOLEAN),
           cmd \in Inputs, "forward" \in Strategies,
           FramesHeld(A, "forward", n),
           \A j \in 0 .. n : At("invar", j, MAINGROUP) \in A,
           NEW asg \in Models(Active(A \cup {At("target", n, Len(NewGroup(H)))},
                                     NewGroup(H)))
    PROVE  WitnessPath(ForwardTrace(asg, n))
<1>. DEFINE G == NewGroup(H)
            F == A \cup {At("target", n, Len(G))}
            w == ForwardTrace(asg, n)
<1>1. Len(G) \in Nat /\ G[Len(G)] = TRUE
      BY NewGroupEnabled
<1>2. /\ \A j \in 0 .. n : HeldAt(A, "forward", "glob", j)
      /\ \A j \in 0 .. n : HeldAt(A, "forward", "fwd", j)
      /\ HeldAt(A, "forward", "init", 0)
      /\ \A j \in 0 .. n - 1 : HeldAt(A, "forward", "trans", j)
      BY DEF FramesHeld
<1>3. /\ w \in Seq(States)
      /\ Len(w) = n + 1
      /\ \A i \in 1 .. n + 1 : w[i] = asg[i - 1]
  <2>1. \A j \in 0 .. n : At("invar", j, MAINGROUP) \in F
        OBVIOUS
  <2>2. w \in Seq(States)
        BY <2>1, ForwardTraceType
  <2>. QED
       BY <2>2 DEF ForwardTrace
<1>4. asg[0] \in InitStates
      BY <1>2, ModelUnary DEF HeldAt, Frame, Denotes
<1>5. asg[n] \in cmd.target \cap cmd.bwd
  <2>1. asg[n] \in cmd.target
        BY <1>1, ModelUnary DEF Denotes
  <2>2. asg[n] \in States
        BY ModelsFrame
  <2>3. cmd.bwd = States
        BY InputsAssumption
  <2>. QED
       BY <2>1, <2>2, <2>3
<1>6. \A j \in 0 .. n : asg[j] \in Invar \cap cmd.glob \cap cmd.fwd
  <2>. SUFFICES ASSUME NEW j \in 0 .. n PROVE asg[j] \in Invar \cap cmd.glob \cap cmd.fwd
       OBVIOUS
  <2>1. At("glob", j, MAINGROUP) \in F /\ At("fwd", j, MAINGROUP) \in F
        BY <1>2 DEF HeldAt, Frame
  <2>2. At("invar", j, MAINGROUP) \in F
        OBVIOUS
  <2>. QED
       BY <2>1, <2>2, ModelUnary DEF Denotes
<1>7. \A j \in 0 .. n - 1 : <<asg[j], asg[j + 1]>> \in Trans
  <2>. SUFFICES ASSUME NEW j \in 0 .. n - 1 PROVE <<asg[j], asg[j + 1]>> \in Trans
       OBVIOUS
  <2>1. At("trans", j, MAINGROUP) \in F
        BY <1>2 DEF HeldAt, Frame
  <2>. QED
       BY <2>1, ModelTrans
<1>8. \A i \in 1 .. n : <<w[i], w[i + 1]>> \in Trans
  <2>. SUFFICES ASSUME NEW i \in 1 .. n PROVE <<w[i], w[i + 1]>> \in Trans
       OBVIOUS
  <2>1. w[i] = asg[i - 1] /\ w[i + 1] = asg[(i - 1) + 1] /\ i - 1 \in 0 .. n - 1
        BY <1>3
  <2>. HIDE DEF w
  <2>. QED
       BY <1>7, <2>1
<1>. QED
     BY <1>3, <1>4, <1>5, <1>6, <1>8 DEF WitnessPath

(* Backward: the target at UINT_MAX, INIT at UINT_MAX - n in the new      *)
(* group; the witness is read off in reverse, INIT frame first.           *)
LEMMA BackwardWitnessPath ==
    ASSUME NEW A, NEW n \in Nat, NEW H \in Seq(BOOLEAN),
           cmd \in Inputs, "backward" \in Strategies,
           FramesHeld(A, "backward", n),
           \A j \in 0 .. n : At("invar", UINT_MAX - j, MAINGROUP) \in A,
           NEW asg \in Models(Active(A \cup {At("init", UINT_MAX - n, Len(NewGroup(H)))},
                                     NewGroup(H)))
    PROVE  WitnessPath(BackwardTrace(asg, n))
<1>. DEFINE G == NewGroup(H)
            F == A \cup {At("init", UINT_MAX - n, Len(G))}
            w == BackwardTrace(asg, n)
<1>1. Len(G) \in Nat /\ G[Len(G)] = TRUE
      BY NewGroupEnabled
<1>2. /\ \A j \in 0 .. n : HeldAt(A, "backward", "glob", j)
      /\ HeldAt(A, "backward", "target", 0)
      /\ HeldAt(A, "backward", "bwd", 0)
      /\ \A j \in 1 .. n : HeldAt(A, "backward", "trans", j)
      BY DEF FramesHeld
<1>3. /\ w \in Seq(States)
      /\ Len(w) = n + 1
      /\ \A i \in 1 .. n + 1 : w[i] = asg[UINT_MAX - (n + 1 - i)]
  <2>1. \A j \in 0 .. n : At("invar", UINT_MAX - j, MAINGROUP) \in F
        OBVIOUS
  <2>2. w \in Seq(States)
        BY <2>1, BackwardTraceType
  <2>. QED
       BY <2>2 DEF BackwardTrace
<1>4. asg[UINT_MAX - n] \in InitStates
      BY <1>1, ModelUnary DEF Denotes
<1>5. asg[UINT_MAX] \in cmd.target \cap cmd.bwd
  <2>1. At("target", UINT_MAX, MAINGROUP) \in F /\ At("bwd", UINT_MAX, MAINGROUP) \in F
        BY <1>2 DEF HeldAt, Frame
  <2>. QED
       BY <2>1, ModelUnary DEF Denotes
<1>6. \A j \in 0 .. n : asg[UINT_MAX - j] \in Invar \cap cmd.glob \cap cmd.fwd
  <2>. SUFFICES ASSUME NEW j \in 0 .. n
                PROVE  asg[UINT_MAX - j] \in Invar \cap cmd.glob \cap cmd.fwd
       OBVIOUS
  <2>1. At("glob", UINT_MAX - j, MAINGROUP) \in F
        BY <1>2 DEF HeldAt, Frame
  <2>2. At("invar", UINT_MAX - j, MAINGROUP) \in F
        OBVIOUS
  <2>3. asg[UINT_MAX - j] \in States
        BY <2>2, ModelsFrame
  <2>4. cmd.fwd = States
        BY InputsAssumption
  <2>. QED
       BY <2>1, <2>2, <2>3, <2>4, ModelUnary DEF Denotes
<1>7. \A j \in 1 .. n : <<asg[UINT_MAX - j], asg[(UINT_MAX - j) + 1]>> \in Trans
  <2>. SUFFICES ASSUME NEW j \in 1 .. n
                PROVE  <<asg[UINT_MAX - j], asg[(UINT_MAX - j) + 1]>> \in Trans
       OBVIOUS
  <2>1. At("trans", UINT_MAX - j, MAINGROUP) \in F
        BY <1>2 DEF HeldAt, Frame
  <2>. QED
       BY <2>1, ModelTrans
<1>8. \A i \in 1 .. n : <<w[i], w[i + 1]>> \in Trans
  <2>. SUFFICES ASSUME NEW i \in 1 .. n PROVE <<w[i], w[i + 1]>> \in Trans
       OBVIOUS
  <2>1. /\ w[i] = asg[UINT_MAX - (n + 1 - i)]
        /\ w[i + 1] = asg[(UINT_MAX - (n + 1 - i)) + 1]
        /\ n + 1 - i \in 1 .. n
        BY <1>3, UIntMaxAssumption
  <2>. HIDE DEF w
  <2>. QED
       BY <1>7, <2>1
<1>9. /\ w[1] = asg[UINT_MAX - n]
      /\ w[Len(w)] = asg[UINT_MAX]
      /\ \A i \in 1 .. Len(w) : w[i] = asg[UINT_MAX - (n + 1 - i)] /\ n + 1 - i \in 0 .. n
      BY <1>3, UIntMaxAssumption
<1>10. \A i \in 1 .. Len(w) : w[i] \in Invar \cap cmd.glob \cap cmd.fwd
  <2>. SUFFICES ASSUME NEW i \in 1 .. Len(w)
                PROVE  w[i] \in Invar \cap cmd.glob \cap cmd.fwd
       OBVIOUS
  <2>1. w[i] = asg[UINT_MAX - (n + 1 - i)] /\ n + 1 - i \in 0 .. n
        BY <1>9
  <2>. HIDE DEF w
  <2>. QED
       BY <1>6, <2>1
<1>11. WitnessPath(w)
  <2>. HIDE DEF w
  <2>1. Len(w) > 0 /\ 1 .. Len(w) - 1 = 1 .. n
        BY <1>3
  <2>2. w[1] \in InitStates /\ w[Len(w)] \in cmd.target \cap cmd.bwd
        BY <1>4, <1>5, <1>9
  <2>. QED
       BY <1>8, <1>10, <2>1, <2>2 DEF WitnessPath
<1>. QED
     BY <1>11

LEMMA ForwardWitnessQInv ==
    ASSUME PInv, NEW e \in Strategies, ForwardWitnessCheck(e)
    PROVE  QInv'
<1>. DEFINE G == NewGroup(groups[e])
            F == asserted[e] \cup {At("target", k[e], Len(G))}
<1>1. /\ e = "forward"
      /\ pc[e] = "witness"
      /\ asserted' = [asserted EXCEPT ![e] = F]
      /\ pc' = [pc EXCEPT ![e] = pc'[e]]
      /\ pc'[e] \in {"cleanup", "unroll"}
      /\ \/ witness' = witness
         \/ \E asg \in Models(Active(F, G)) : witness' = ForwardTrace(asg, k[e])
      /\ UNCHANGED <<cmd, k>>
  <2>. pc \in [Strategies -> PCs]
       BY DEF PInv, IInv, TypeOK
  <2>. QED
       BY DEF ForwardWitnessCheck, Goto, RecordWitness
<1>2. /\ k[e] \in Nat /\ groups[e] \in Seq(BOOLEAN) /\ cmd \in Inputs
      /\ asserted[e] \subseteq F
      /\ Depth(e) = k[e] /\ Depth(e)' = k[e]
      /\ \A x \in Strategies \ {e} :
            pc'[x] = pc[x] /\ asserted'[x] = asserted[x] /\ Depth(x)' = Depth(x)
      BY <1>1 DEF PInv, IInv, TypeOK, Depth
<1>3. FramesHeld(asserted[e], e, k[e])
      BY <1>1, <1>2 DEF PInv, PathAsserted
<1>4. PathAsserted'
  <2>. SUFFICES ASSUME NEW x \in Strategies, pc'[x] # "start"
                PROVE  FramesHeld(asserted'[x], x, Depth(x)')
       BY DEF PathAsserted
  <2>1. CASE x = e
        BY <1>1, <1>2, <1>3, <2>1, FramesHeldMono
  <2>2. CASE x # e
        BY <1>2, <2>2 DEF PInv, PathAsserted
  <2>. QED
       BY <2>1, <2>2
<1>5. WitnessInv'
  <2>1. CASE witness' = witness
        BY <1>1, <2>1 DEF PInv, WitnessInv, WitnessPath
  <2>2. CASE \E asg \in Models(Active(F, G)) : witness' = ForwardTrace(asg, k[e])
    <3>1. PICK asg \in Models(Active(F, G)) : witness' = ForwardTrace(asg, k[e])
          BY <2>2
    <3>2. \A j \in 0 .. k[e] : At("invar", j, MAINGROUP) \in asserted[e]
          BY <1>1 DEF PInv, IInv, FramesAsserted, Depth, Frame
    <3>3. WitnessPath(ForwardTrace(asg, k[e]))
          BY <1>1, <1>2, <1>3, <3>2, ForwardWitnessPath
    <3>. QED
         BY <1>1, <3>1, <3>3 DEF WitnessInv, WitnessPath
  <2>. QED
       BY <1>1, <2>1, <2>2
<1>6. DepthInv'
      BY <1>1, <1>2 DEF PInv, DepthInv
<1>. QED
     BY <1>4, <1>5, <1>6 DEF QInv

LEMMA BackwardWitnessQInv ==
    ASSUME PInv, NEW e \in Strategies, BackwardWitnessCheck(e)
    PROVE  QInv'
<1>. DEFINE G == NewGroup(groups[e])
            F == asserted[e] \cup {At("init", UINT_MAX - k[e], Len(G))}
<1>1. /\ e = "backward"
      /\ pc[e] = "witness"
      /\ asserted' = [asserted EXCEPT ![e] = F]
      /\ pc' = [pc EXCEPT ![e] = pc'[e]]
      /\ pc'[e] \in {"cleanup", "unroll"}
      /\ \/ witness' = witness
         \/ \E asg \in Models(Active(F, G)) : witness' = BackwardTrace(asg, k[e])
      /\ UNCHANGED <<cmd, k>>
  <2>. pc \in [Strategies -> PCs]
       BY DEF PInv, IInv, TypeOK
  <2>. QED
       BY DEF BackwardWitnessCheck, Goto, RecordWitness
<1>2. /\ k[e] \in Nat /\ groups[e] \in Seq(BOOLEAN) /\ cmd \in Inputs
      /\ asserted[e] \subseteq F
      /\ Depth(e) = k[e] /\ Depth(e)' = k[e]
      /\ \A x \in Strategies \ {e} :
            pc'[x] = pc[x] /\ asserted'[x] = asserted[x] /\ Depth(x)' = Depth(x)
      BY <1>1 DEF PInv, IInv, TypeOK, Depth
<1>3. FramesHeld(asserted[e], e, k[e])
      BY <1>1, <1>2 DEF PInv, PathAsserted
<1>4. PathAsserted'
  <2>. SUFFICES ASSUME NEW x \in Strategies, pc'[x] # "start"
                PROVE  FramesHeld(asserted'[x], x, Depth(x)')
       BY DEF PathAsserted
  <2>1. CASE x = e
        BY <1>1, <1>2, <1>3, <2>1, FramesHeldMono
  <2>2. CASE x # e
        BY <1>2, <2>2 DEF PInv, PathAsserted
  <2>. QED
       BY <2>1, <2>2
<1>5. WitnessInv'
  <2>1. CASE witness' = witness
        BY <1>1, <2>1 DEF PInv, WitnessInv, WitnessPath
  <2>2. CASE \E asg \in Models(Active(F, G)) : witness' = BackwardTrace(asg, k[e])
    <3>1. PICK asg \in Models(Active(F, G)) : witness' = BackwardTrace(asg, k[e])
          BY <2>2
    <3>2. \A j \in 0 .. k[e] : At("invar", UINT_MAX - j, MAINGROUP) \in asserted[e]
          BY <1>1 DEF PInv, IInv, FramesAsserted, Depth, Frame
    <3>3. WitnessPath(BackwardTrace(asg, k[e]))
          BY <1>1, <1>2, <1>3, <3>2, BackwardWitnessPath
    <3>. QED
         BY <1>1, <3>1, <3>3 DEF WitnessInv, WitnessPath
  <2>. QED
       BY <1>1, <2>1, <2>2
<1>6. DepthInv'
      BY <1>1, <1>2 DEF PInv, DepthInv
<1>. QED
     BY <1>4, <1>5, <1>6 DEF QInv

(* Every step of the race preserves PInv.                                 *)
LEMMA NextPInv == PInv /\ [Next]_vars => PInv'
<1>. SUFFICES ASSUME PInv, [Next]_vars PROVE PInv'
     OBVIOUS
<1>1. IInv'
      BY NextIInv DEF PInv
<1>2. QInv'
  <2>1. CASE UNCHANGED vars
    <3>1. \A x \in Strategies : Depth(x)' = Depth(x)
          BY <2>1 DEF vars, Depth
    <3>. QED
         BY <2>1, <3>1 DEF vars, PInv, QInv, PathAsserted, WitnessInv,
                           WitnessPath, DepthInv
  <2>2. ASSUME NEW e \in Strategies, Thread(e) PROVE QInv'
        BY <2>2, StartQInv, CleanupQInv, GoalProofQInv, ForwardProofQInv,
           BackwardUnrollQInv, ForwardUnrollQInv, BackwardWitnessQInv,
           ForwardWitnessQInv DEF Thread
  <2>. QED
       BY <2>1, <2>2 DEF Next
<1>. QED
     BY <1>1, <1>2 DEF PInv, QInv

LEMMA PInvInvariant == Spec => []PInv
BY InitPInv, NextPInv, PTL DEF Spec

-----------------------------------------------------------------------------
(***************************************************************************)
(* The theorems.                                                           *)
(***************************************************************************)

(* Spec P5 for every command: a witness set on the Reachability object,   *)
(* whether the forward strategy read it off its model or the backward     *)
(* strategy read it off reversed, starts in INIT, ends in the target and  *)
(* in the backward constraints, steps by TRANS and stays within INVAR and *)
(* the global and forward constraints, whatever the interleaving of the   *)
(* two threads and their interrupts.                                      *)
THEOREM WitnessPathInvariant == Spec => []WitnessInv
<1>1. PInv => WitnessInv
      BY DEF PInv
<1>. QED
     BY <1>1, PInvInvariant, PTL

(* WitnessValid, for the commands that give no backward constraint (the   *)
(* command of run reach_race): then every state of the witness satisfies  *)
(* every constraint.  With a backward constraint the backward strategy    *)
(* asserts it at the goal frame only, and WitnessValid fails (run         *)
(* reach_backward_constraint); WitnessPathInvariant is what holds then.   *)
THEOREM WitnessValidTheorem ==
    ASSUME \A in \in Inputs : in.bwd = States
    PROVE  Spec => []WitnessValid
<1>1. PInv => WitnessValid
  <2>. SUFFICES ASSUME PInv, witness # NoWitness PROVE WitnessValid
       BY DEF WitnessValid
  <2>1. WitnessPath(witness) /\ cmd \in Inputs
        BY DEF PInv, WitnessInv, IInv, TypeOK
  <2>2. cmd.bwd = States /\ Invar \subseteq States
        BY <2>1, FSMAssumption
  <2>. QED
       BY <2>1, <2>2 DEF WitnessPath, WitnessValid, Good
<1>. QED
     BY <1>1, PInvInvariant, PTL

(* The uniqueness constraints bound the unrolling (DepthBound): a thread  *)
(* deepens only after a SAT answer over frames it has asserted pairwise   *)
(* distinct, so no thread unrolls past the number of states of the model, *)
(* whatever the model and the command.                                    *)
THEOREM DepthBoundTheorem == Spec => []DepthBound
<1>1. PInv => DepthBound
      BY DEF PInv, DepthInv, DepthBound
<1>. QED
     BY <1>1, PInvInvariant, PTL

=============================================================================
