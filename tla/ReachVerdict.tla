---------------------------- MODULE ReachVerdict ----------------------------
(***************************************************************************)
(* What the `reach` command promises: its status starts UNKNOWN, moves     *)
(* once to the verdict (REACHABLE or UNREACHABLE) and never changes again, *)
(* and it does move.  The verdict is fixed from the start; the detailed    *)
(* specification maps it to the truth about the model.                     *)
(***************************************************************************)
VARIABLES status, verdict

Init ==
    /\ status = "UNKNOWN"
    /\ verdict \in {"REACHABLE", "UNREACHABLE"}

Decide ==
    /\ status = "UNKNOWN"
    /\ status' = verdict
    /\ UNCHANGED verdict

Spec == Init /\ [][Decide]_<<status, verdict>> /\ WF_<<status, verdict>>(Decide)

=============================================================================
