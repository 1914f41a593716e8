--------------------------- MODULE WitnessProofs ---------------------------
(***************************************************************************)
(* Proofs about the witness store of module Witness, for every set of     *)
(* keys and values and every number of frames.                             *)
(***************************************************************************)
EXTENDS Witness, TLAPS

(* TimeFrame::set_value keeps a frame a frame: it maps every key to a     *)
(* value or to no value.                                                   *)
LEMMA SetValueFrame ==
    ASSUME NEW f \in Frame, NEW k \in Keys, NEW v \in Values
    PROVE  SetValue(f, k, v) \in Frame
BY DEF SetValue, HasValue, Frame

(* Type correctness: the frames are frames, and every frame new_frame     *)
(* handed out for step i (given[i]) is one it allocated.                   *)
THEOREM TypeCorrect == Spec => []TypeOK
<1>1. Init => TypeOK
      BY DEF Init, TypeOK
<1>2. TypeOK /\ [Next]_vars => TypeOK'
  <2>. SUFFICES ASSUME TypeOK, [Next]_vars PROVE TypeOK'
       OBVIOUS
  <2>0. EmptyFrame \in Frame
        BY DEF EmptyFrame, Frame
  <2>1. CASE NewFrame
        BY <2>0, <2>1 DEF NewFrame, TypeOK
  <2>2. CASE WriteValue
    <3>. PICK i \in DOMAIN given, k \in Keys, v \in Values :
              /\ heap' = [heap EXCEPT ![given[i]] = SetValue(@, k, v)]
              /\ UNCHANGED <<frames, given>>
         BY <2>2 DEF WriteValue
    <3>1. heap[given[i]] \in Frame
          BY DEF TypeOK
    <3>2. SetValue(heap[given[i]], k, v) \in Frame
          BY <3>1, SetValueFrame
    <3>. QED
         BY <3>2 DEF TypeOK
  <2>3. CASE UNCHANGED vars
        BY <2>3 DEF vars, TypeOK
  <2>. QED
       BY <2>1, <2>2, <2>3 DEF Next
<1>. QED
     BY <1>1, <1>2, PTL DEF Spec

(* The copies in f_frames are never written: Witness::new_frame pushes an *)
(* empty TimeFrame and the extraction writes only into the heap frames it *)
(* was given.                                                              *)
FramesUnwritten == \A i \in DOMAIN frames : frames[i] = EmptyFrame

(* The witness-recording defect of Witness::new_frame (witness.cc:73-81), *)
(* for every set of keys and values and every number of frames: whatever *)
(* values the extraction sets through the frames new_frame returned, no   *)
(* frame of the witness ever holds a value, so every TimeFrame::value on  *)
(* the witness fails.                                                      *)
THEOREM WitnessNeverRecords == Spec => []FramesUnwritten
<1>1. Init => FramesUnwritten
      BY DEF Init, FramesUnwritten
<1>2. FramesUnwritten /\ [Next]_vars => FramesUnwritten'
  <2>. SUFFICES ASSUME FramesUnwritten, [Next]_vars PROVE FramesUnwritten'
       OBVIOUS
  <2>1. CASE NewFrame
        BY <2>1 DEF NewFrame, FramesUnwritten
  <2>2. CASE WriteValue
        BY <2>2 DEF WriteValue, FramesUnwritten
  <2>3. CASE UNCHANGED vars
        BY <2>3 DEF vars, FramesUnwritten
  <2>. QED
       BY <2>1, <2>2, <2>3 DEF Next
<1>. QED
     BY <1>1, <1>2, PTL DEF Spec
=============================================================================
