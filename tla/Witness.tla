------------------------------ MODULE Witness ------------------------------
(***************************************************************************)
(* The witness store (src/src/witness/witness.cc).  A Witness keeps its    *)
(* TimeFrames by value in f_frames; a TimeFrame maps FQExprs to values.    *)
(* Witness::new_frame allocates a TimeFrame with new, pushes a copy of it  *)
(* on f_frames and returns a reference to the allocated one.  The witness *)
(* extraction of the BMC core (spec 4.7, not under src/) calls new_frame  *)
(* for frame 0, 1, ... and writes every variable's value into the frame   *)
(* it was given.                                                           *)
(*                                                                         *)
(* `heap` holds the TimeFrame objects made with new, `frames` the copies   *)
(* in f_frames, `given[i]` the heap object new_frame returned for frame i. *)
(***************************************************************************)
EXTENDS Integers, Sequences

CONSTANTS
    Keys,       \* the FQExprs (variable at a time frame) written
    Values,     \* the values they take
    MaxFrames,  \* the frames an extraction makes
    NoValue     \* the absence of a value in a TimeFrame's f_map

Frame == [Keys -> Values \cup {NoValue}]
EmptyFrame == [k \in Keys |-> NoValue]

VARIABLES
    heap,       \* the TimeFrames allocated by new_frame
    frames,     \* Witness::f_frames
    given       \* given[i]: the heap frame new_frame returned for frame i

vars == <<heap, frames, given>>

-----------------------------------------------------------------------------
(* TimeFrame::has_value and TimeFrame::value.                              *)
HasValue(f, k) == f[k] # NoValue
Value(f, k) == f[k]

(* TimeFrame::set_value: std::map::insert, which leaves a key that        *)
(* already has a value alone.                                              *)
SetValue(f, k, v) == IF HasValue(f, k) THEN f ELSE [f EXCEPT ![k] = v]

-----------------------------------------------------------------------------
Init ==
    /\ heap = <<>>
    /\ frames = <<>>
    /\ given = <<>>

(* Witness::new_frame: new TimeFrame, push a copy of it on f_frames,     *)
(* return the allocated one.                                               *)
NewFrame ==
    /\ Len(frames) < MaxFrames
    /\ heap' = Append(heap, EmptyFrame)
    /\ frames' = Append(frames, EmptyFrame)
    /\ given' = Append(given, Len(heap) + 1)

(* The extraction writes the value of a key into the frame new_frame gave *)
(* it for frame i.                                                         *)
WriteValue ==
    \E i \in DOMAIN given, k \in Keys, v \in Values :
        /\ heap' = [heap EXCEPT ![given[i]] = SetValue(@, k, v)]
        /\ UNCHANGED <<frames, given>>

Next == NewFrame \/ WriteValue

Spec == Init /\ [][Next]_vars

-----------------------------------------------------------------------------
TypeOK ==
    /\ heap \in Seq(Frame)
    /\ frames \in Seq(Frame)
    /\ given \in Seq(Nat \ {0})
    /\ Len(given) = Len(frames)
    /\ \A i \in DOMAIN given : given[i] \in DOMAIN heap

(* Spec 4.7 and 4.8: every value the extraction writes into the frame     *)
(* that new_frame gave it for step i can be read back from frame i of the *)
(* witness (Witness::new_frame, TimeFrame::value).                        *)
WitnessRecords ==
    \A i \in DOMAIN given, k \in Keys :
        HasValue(heap[given[i]], k) =>
            /\ HasValue(frames[i], k)
            /\ Value(frames[i], k) = Value(heap[given[i]], k)
=============================================================================
