------------------------------- MODULE Reach -------------------------------
(***************************************************************************)
(* The BMC reachability core (Reachability, `reach` command): up to two    *)
(* strategy threads, forward and backward, each owning one SAT engine,     *)
(* race to decide whether the target is reachable.  They share the         *)
(* reachability status (set once under a mutex by sync_set_status), the    *)
(* witness manager, and EngineMgr::interrupt(), which cancels the solvers  *)
(* of every engine alive at the time of the call.                          *)
(*                                                                         *)
(* The finite-state model under analysis is given by the constants         *)
(* States, InitStates, Trans and Invar (what the compiled INIT, TRANS and  *)
(* INVAR of the `main` module denote).  A SAT engine is modelled by the    *)
(* set of formulas asserted into it, each at a time frame and in a group;  *)
(* solve() answers SAT iff some assignment of states to the time frames    *)
(* satisfies every formula whose group is enabled.                         *)
(***************************************************************************)
EXTENDS Integers, Sequences, FiniteSets

CONSTANTS
    States,       \* the states of the model under analysis
    InitStates,   \* the states satisfying INIT
    Trans,        \* the pairs of states satisfying TRANS
    Invar,        \* the states satisfying INVAR
    Strategies,   \* the strategy threads launched by Reachability::process
    Inputs,       \* the possible arguments of the `reach` command
    UINT_MAX      \* the time origin of the backward unrolling

ASSUME StatesAssumption == IsFiniteSet(States) /\ States # {}
ASSUME FSMAssumption ==
    /\ InitStates \subseteq States
    /\ Trans \subseteq States \X States
    /\ Invar \subseteq States
ASSUME StrategiesAssumption == Strategies \subseteq {"forward", "backward"}
ASSUME UIntMaxAssumption == UINT_MAX \in Nat

(* A `reach` command: the target and the forward, backward and global     *)
(* constraints, each denoting the set of states that satisfy it.  The     *)
(* backward strategy asserts that no forward constraint is given; how the *)
(* forward strategy treats backward constraints is left open by the       *)
(* design, so the instances that launch it give none.                     *)
ASSUME InputsAssumption ==
    \A in \in Inputs :
        /\ in \in [target : SUBSET States, fwd : SUBSET States,
                   bwd : SUBSET States, glob : SUBSET States]
        /\ "backward" \in Strategies => in.fwd = States
        /\ "forward" \in Strategies => in.bwd = States

VARIABLES
    cmd,          \* the arguments of the running `reach` command
    pc,           \* pc[e]: where strategy thread e is
    k,            \* k[e]: the unrolling depth of thread e
    asserted,     \* asserted[e]: the formulas asserted into e's engine
    groups,       \* groups[e][g]: is group g of e's engine enabled?
    registered,   \* the engines alive in the EngineMgr
    interrupted,  \* interrupted[e]: has e's solver been interrupted?
    status,       \* the shared reachability status
    witnesses,    \* the witnesses recorded in the WitnessMgr
    witness       \* the witness set on the Reachability object

vars == <<cmd, pc, k, asserted, groups, registered, interrupted, status,
          witnesses, witness>>

-----------------------------------------------------------------------------
(* Reachability status values (reachability_status_t).                     *)
UNKNOWN == "UNKNOWN"
REACHABLE == "REACHABLE"
UNREACHABLE == "UNREACHABLE"

(* Solver answers (status_t).                                              *)
SAT == "SAT"
UNSAT == "UNSAT"
STATUS_UNKNOWN == "STATUS_UNKNOWN"

(* The group of the clauses asserted without a group.                      *)
MAINGROUP == 0

NoWitness == <<>>

PCs == {"start", "goal", "witness", "unroll", "proof", "cleanup", "done"}

(* A formula asserted into an engine: a unary constraint (kind) on the    *)
(* state at time t, TRANS between times t and t + 1, or the uniqueness    *)
(* of the states at times t and u.                                        *)
Kinds == {"init", "invar", "target", "fwd", "bwd", "glob", "trans", "uniq"}
Formula == [kind : Kinds, t : Int, u : Int, g : Nat]

At(kind, t, g) == [kind |-> kind, t |-> t, u |-> t, g |-> g]
(* Mutant: the uniqueness assertion is dropped (a formula always true).   *)
UniquenessDropped(t, u) == [kind |-> "glob", t |-> t, u |-> t, g |-> MAINGROUP]
Uniqueness(t, u) == [kind |-> "uniq", t |-> t, u |-> u, g |-> MAINGROUP]

(* assert_fsm_invar plus the constraints the strategy asserts at each     *)
(* frame it unrolls.                                                      *)
FrameConstraints(t, kinds) == {At(kd, t, MAINGROUP) : kd \in kinds}

(* The set of states each unary kind constrains the state to.              *)
Denotes(kind) ==
    CASE kind = "init"   -> InitStates
      [] kind = "invar"  -> Invar
      [] kind = "target" -> cmd.target
      [] kind = "fwd"    -> cmd.fwd
      [] kind = "bwd"    -> cmd.bwd
      [] kind = "glob"   -> cmd.glob

Holds(f, asg) ==
    CASE f.kind = "trans" -> <<asg[f.t], asg[f.t + 1]>> \in Trans
      [] f.kind = "uniq"  -> asg[f.t] # asg[f.u]
      [] OTHER            -> asg[f.t] \in Denotes(f.kind)

Times(F) == UNION {{f.t, f.u} \cup (IF f.kind = "trans" THEN {f.t + 1} ELSE {})
                   : f \in F}

(* The formulas of an engine that the solver takes into account: those of *)
(* the main group and of the groups not inverted.                         *)
Active(F, G) == {f \in F : f.g = MAINGROUP \/ G[f.g]}

(* The assignments of states to time frames satisfying the formulas F.    *)
Models(F) == {asg \in [Times(F) -> States] : \A f \in F : Holds(f, asg)}

Solve(F, G) == IF Models(Active(F, G)) = {} THEN UNSAT ELSE SAT

(* An interrupted solver returns STATUS_UNKNOWN, unless it has already    *)
(* reached its answer.                                                    *)
Outcomes(e, F, G) ==
    IF interrupted[e] THEN {STATUS_UNKNOWN, Solve(F, G)} ELSE {Solve(F, G)}

(* Engine::new_group and Engine::invert_last_group.                        *)
NewGroup(G) == Append(G, TRUE)
(* Mutant: the witness group is left enabled.                           *)
InvertLastGroupSkipped(G) == G
InvertLastGroup(G) == [G EXCEPT ![Len(G)] = FALSE]

-----------------------------------------------------------------------------
(* Reachability::sync_set_status: under the mutex, set the status only if *)
(* it is still UNKNOWN; the caller has won iff it was.                     *)
SyncSetStatus(s) == status' = IF status = UNKNOWN THEN s ELSE status

(* The witness read off a solver model asg of depth n: frame i is the     *)
(* state at the i-th time frame.  The backward witness is built reversed, so     *)
(* that its first frame is the one where INIT was asserted.               *)
ForwardTrace(asg, n) == [i \in 1 .. n + 1 |-> asg[i - 1]]
(* Mutant: the backward witness is read in time order, not reversed.     *)
BackwardTraceUnreversed(asg, n) == [i \in 1 .. n + 1 |-> asg[UINT_MAX - (i - 1)]]
BackwardTrace(asg, n) == [i \in 1 .. n + 1 |-> asg[UINT_MAX - (n + 1 - i)]]

(* Mutant: the witness is recorded before, not under, the race.          *)
RecordWitnessUnsynced(w) == witnesses' = Append(witnesses, w) /\ witness' = w

(* The winner of the race records its witness in the WitnessMgr and sets  *)
(* it as the witness of the Reachability object; a loser does neither.    *)
RecordWitness(w) ==
    IF status = UNKNOWN
    THEN /\ witnesses' = Append(witnesses, w)
         /\ witness' = w
    ELSE UNCHANGED <<witnesses, witness>>

(* EngineMgr::interrupt() at the cleanup label: every engine alive is     *)
(* interrupted; then the thread's engine goes out of scope.               *)
Cleanup(e) ==
    /\ pc[e] = "cleanup"
    /\ interrupted' = [x \in Strategies |->
                          IF x \in registered THEN TRUE ELSE interrupted[x]]
    /\ registered' = registered \ {e}
    /\ pc' = [pc EXCEPT ![e] = "done"]
    /\ UNCHANGED <<cmd, k, asserted, groups, status, witnesses, witness>>

(* Construction of a thread's engine: it registers with the EngineMgr and *)
(* starts uninterrupted.                                                  *)
NewEngine(e, F, next) ==
    /\ pc[e] = "start"
    /\ registered' = registered \cup {e}
    /\ interrupted' = [interrupted EXCEPT ![e] = FALSE]
    /\ asserted' = [asserted EXCEPT ![e] = F]
    /\ groups' = [groups EXCEPT ![e] = <<>>]
    /\ k' = [k EXCEPT ![e] = 0]
    /\ pc' = [pc EXCEPT ![e] = next]
    /\ UNCHANGED <<cmd, status, witnesses, witness>>

Goto(e, label) == pc' = [pc EXCEPT ![e] = label]

-----------------------------------------------------------------------------
(***************************************************************************)
(* The backward strategy (Reachability::backward_strategy).  Frame j is    *)
(* time UINT_MAX - j; the target is asserted at frame 0.                   *)
(***************************************************************************)

(* Goal state constraints: target, INVAR, backward and global constraints *)
(* at UINT_MAX.                                                           *)
BackwardStart(e) ==
    /\ e = "backward"
    /\ NewEngine(e, FrameConstraints(UINT_MAX, {"target", "invar", "bwd", "glob"}),
                 "goal")

(* The goal consistency check: no goal state means trivially unreachable. *)
BackwardGoalCheck(e) ==
    /\ e = "backward"
    /\ pc[e] = "goal"
    /\ \E r \in Outcomes(e, asserted[e], groups[e]) :
          \/ /\ r = STATUS_UNKNOWN
             /\ Goto(e, "cleanup")
             /\ UNCHANGED status
          \/ /\ r = UNSAT
             /\ SyncSetStatus(UNREACHABLE)
             /\ Goto(e, "cleanup")
          \/ /\ r = SAT
             /\ Goto(e, "witness")
             /\ UNCHANGED status
    /\ UNCHANGED <<cmd, k, asserted, groups, registered, interrupted,
                   witnesses, witness>>

(* Looking for a witness: INIT at UINT_MAX - k in a new group.  On SAT    *)
(* the winner extracts the reversed witness; a loser leaves the loop      *)
(* because the status is no longer UNKNOWN.                               *)
BackwardWitnessCheck(e) ==
    LET G == NewGroup(groups[e])
        F == asserted[e] \cup {At("init", UINT_MAX - k[e], Len(G))}
    IN /\ e = "backward"
       /\ pc[e] = "witness"
       /\ asserted' = [asserted EXCEPT ![e] = F]
       /\ groups' = [groups EXCEPT ![e] = G]
       /\ \E r \in Outcomes(e, F, G) :
             \/ /\ r = STATUS_UNKNOWN
                /\ Goto(e, "cleanup")
                /\ UNCHANGED <<status, witnesses, witness>>
             \/ /\ r = SAT
                /\ \E asg \in Models(Active(F, G)) :
                      RecordWitness(BackwardTrace(asg, k[e]))
                /\ SyncSetStatus(REACHABLE)
                /\ Goto(e, "cleanup")
             \/ /\ r = UNSAT
                /\ Goto(e, "unroll")
                /\ UNCHANGED <<status, witnesses, witness>>
       /\ UNCHANGED <<cmd, k, registered, interrupted>>

(* Reject the witness group and unroll one more step backward: TRANS      *)
(* from UINT_MAX - k to UINT_MAX - k + 1, INVAR and global constraints at *)
(* UINT_MAX - k, and the uniqueness of the new frame with every earlier   *)
(* one; then leave if the status has been decided meanwhile.              *)
BackwardUnroll(e) ==
    LET n == k[e] + 1
        t == UINT_MAX - n
    IN /\ e = "backward"
       /\ pc[e] = "unroll"
       /\ groups' = [groups EXCEPT ![e] = InvertLastGroup(@)]
       /\ k' = [k EXCEPT ![e] = n]
       /\ asserted' = [asserted EXCEPT ![e] =
                          @ \cup FrameConstraints(t, {"trans", "invar", "glob"})
                            \cup {Uniqueness(UINT_MAX - j, t) : j \in 0 .. n - 1}]
       /\ Goto(e, IF status # UNKNOWN THEN "cleanup" ELSE "proof")
       /\ UNCHANGED <<cmd, registered, interrupted, status, witnesses, witness>>

(* Looking for an unreachability proof: UNSAT without the INIT group means *)
(* no path of k + 1 distinct states ends in the goal.                     *)
BackwardProofCheck(e) ==
    /\ e = "backward"
    /\ pc[e] = "proof"
    /\ \E r \in Outcomes(e, asserted[e], groups[e]) :
          \/ /\ r = STATUS_UNKNOWN
             /\ Goto(e, "cleanup")
             /\ UNCHANGED status
          \/ /\ r = SAT
             /\ Goto(e, IF status = UNKNOWN THEN "witness" ELSE "cleanup")
             /\ UNCHANGED status
          \/ /\ r = UNSAT
             /\ SyncSetStatus(UNREACHABLE)
             /\ Goto(e, "cleanup")
    /\ UNCHANGED <<cmd, k, asserted, groups, registered, interrupted,
                   witnesses, witness>>

-----------------------------------------------------------------------------
(***************************************************************************)
(* The forward strategy.  Frame j is time j; INIT is asserted at 0.        *)
(***************************************************************************)

ForwardStart(e) ==
    /\ e = "forward"
    /\ NewEngine(e, FrameConstraints(0, {"init", "invar", "fwd", "glob"}),
                 "witness")

(* The target at k in a new group; SAT is a witness, the race decides     *)
(* whether it is recorded, and the thread exits either way.               *)
ForwardWitnessCheck(e) ==
    LET G == NewGroup(groups[e])
        F == asserted[e] \cup {At("target", k[e], Len(G))}
    IN /\ e = "forward"
       /\ pc[e] = "witness"
       /\ asserted' = [asserted EXCEPT ![e] = F]
       /\ groups' = [groups EXCEPT ![e] = G]
       /\ \E r \in Outcomes(e, F, G) :
             \/ /\ r = STATUS_UNKNOWN
                /\ Goto(e, "cleanup")
                /\ UNCHANGED <<status, witnesses, witness>>
             \/ /\ r = SAT
                /\ \E asg \in Models(Active(F, G)) :
                      RecordWitness(ForwardTrace(asg, k[e]))
                /\ SyncSetStatus(REACHABLE)
                /\ Goto(e, "cleanup")
             \/ /\ r = UNSAT
                /\ Goto(e, "unroll")
                /\ UNCHANGED <<status, witnesses, witness>>
       /\ UNCHANGED <<cmd, k, registered, interrupted>>

(* Reject the target group; TRANS from k to k + 1, INVAR and constraints  *)
(* at k + 1, uniqueness of frame k + 1 with frames 0 .. k.                *)
ForwardUnroll(e) ==
    /\ e = "forward"
    /\ pc[e] = "unroll"
    /\ groups' = [groups EXCEPT ![e] = InvertLastGroup(@)]
    /\ asserted' = [asserted EXCEPT ![e] =
                       @ \cup {At("trans", k[e], MAINGROUP)}
                         \cup FrameConstraints(k[e] + 1, {"invar", "fwd", "glob"})
                         \cup {Uniqueness(j, k[e] + 1) : j \in 0 .. k[e]}]
    /\ Goto(e, "proof")
    /\ UNCHANGED <<cmd, k, registered, interrupted, status, witnesses, witness>>

(* Solve without the goal: UNSAT proves the target unreachable; SAT goes  *)
(* one step deeper unless the status has been decided.                    *)
ForwardProofCheck(e) ==
    /\ e = "forward"
    /\ pc[e] = "proof"
    /\ \E r \in Outcomes(e, asserted[e], groups[e]) :
          \/ /\ r = STATUS_UNKNOWN
             /\ Goto(e, "cleanup")
             /\ UNCHANGED <<k, status>>
          \/ /\ r = SAT
             /\ k' = [k EXCEPT ![e] = @ + 1]
             /\ Goto(e, IF status = UNKNOWN THEN "witness" ELSE "cleanup")
             /\ UNCHANGED status
          \/ /\ r = UNSAT
             /\ SyncSetStatus(UNREACHABLE)
             /\ Goto(e, "cleanup")
             /\ UNCHANGED k
    /\ UNCHANGED <<cmd, asserted, groups, registered, interrupted,
                   witnesses, witness>>

-----------------------------------------------------------------------------
Init ==
    /\ cmd \in Inputs
    /\ pc = [e \in Strategies |-> "start"]
    /\ k = [e \in Strategies |-> 0]
    /\ asserted = [e \in Strategies |-> {}]
    /\ groups = [e \in Strategies |-> <<>>]
    /\ registered = {}
    /\ interrupted = [e \in Strategies |-> FALSE]
    /\ status = UNKNOWN
    /\ witnesses = <<>>
    /\ witness = NoWitness

Thread(e) ==
    \/ BackwardStart(e)
    \/ BackwardGoalCheck(e)
    \/ BackwardWitnessCheck(e)
    \/ BackwardUnroll(e)
    \/ BackwardProofCheck(e)
    \/ ForwardStart(e)
    \/ ForwardWitnessCheck(e)
    \/ ForwardUnroll(e)
    \/ ForwardProofCheck(e)
    \/ Cleanup(e)

Next == \E e \in Strategies : Thread(e)

(* Strategy threads are OS threads: each one that can run eventually runs. *)
Fairness == \A e \in Strategies : WF_vars(Thread(e))

Spec == Init /\ [][Next]_vars /\ Fairness

-----------------------------------------------------------------------------
(***************************************************************************)
(* The truth about the model: the target is reachable iff a path from an  *)
(* INIT state to a target state stays within the states satisfying INVAR  *)
(* and every constraint of the command (spec: a constraint holds at every *)
(* frame it is applied to).                                                *)
(***************************************************************************)
Good == Invar \cap cmd.glob \cap cmd.fwd \cap cmd.bwd

ReachableIn[n \in Nat] ==
    IF n = 0 THEN InitStates \cap Good
    ELSE ReachableIn[n - 1]
         \cup {t \in Good : \E s \in ReachableIn[n - 1] : <<s, t>> \in Trans}

TargetReachable == ReachableIn[Cardinality(States)] \cap cmd.target # {}

Verdict == IF TargetReachable THEN REACHABLE ELSE UNREACHABLE

TypeOK ==
    /\ cmd \in Inputs
    /\ pc \in [Strategies -> PCs]
    /\ k \in [Strategies -> Nat]
    /\ asserted \in [Strategies -> SUBSET Formula]
    /\ groups \in [Strategies -> Seq(BOOLEAN)]
    /\ registered \subseteq Strategies
    /\ interrupted \in [Strategies -> BOOLEAN]
    /\ status \in {UNKNOWN, REACHABLE, UNREACHABLE}
    /\ witnesses \in Seq(Seq(States))
    /\ witness \in Seq(States)

(* Soundness and completeness of the race (spec P6, P7): whatever order   *)
(* the two strategy threads run in and whichever solver is interrupted,   *)
(* the status leaves UNKNOWN exactly once, to the true verdict.           *)
RV == INSTANCE ReachVerdict WITH status <- status, verdict <- Verdict
VerdictSpec == RV!Spec

(* The race implements ReachRace: the status is decided once (P7), a     *)
(* REACHABLE status comes with a witness satisfying P5 set in the same    *)
(* step, under the mutex of sync_set_status, an UNREACHABLE one with none, *)
(* and no thread, winner or loser, changes either afterwards.             *)
RR == INSTANCE ReachRace
RaceSpec == RR!Spec

(* A witness set on the Reachability object (spec P5) is a path of the    *)
(* model: it starts in INIT, ends in the target, every step is a TRANS    *)
(* step and every state satisfies INVAR and the constraints; in           *)
(* particular the backward strategy's reversed extraction puts the INIT   *)
(* frame first.                                                           *)
WitnessValid ==
    witness # NoWitness =>
        /\ witness[1] \in InitStates
        /\ witness[Len(witness)] \in cmd.target
        /\ \A i \in 1 .. Len(witness) : witness[i] \in Good
        /\ \A i \in 1 .. Len(witness) - 1 : <<witness[i], witness[i + 1]>> \in Trans

(* Only the thread whose sync_set_status wins records a witness: the      *)
(* WitnessMgr holds at most one witness of the command, it is the one set *)
(* on the Reachability object, and it exists only with status REACHABLE.  *)
SingleWitness ==
    \/ witnesses = <<>> /\ witness = NoWitness
    \/ status = REACHABLE /\ witnesses = <<witness>>

(* The state-uniqueness constraints bound the unrolling: no thread goes   *)
(* deeper than the number of states, so an unreachability proof is always *)
(* found.                                                                 *)
DepthBound == \A e \in Strategies : k[e] <= Cardinality(States)

=============================================================================
