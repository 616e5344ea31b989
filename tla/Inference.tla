----------------------------- MODULE Inference -----------------------------
(***************************************************************************)
(* rknn_yolo_thread with predict of src/rknn_model.cc: where the result    *)
(* comes from that DetectionShare copies.  predict makes three calls of    *)
(* the NPU library and tests the result of none, so a call that fails      *)
(* leaves what an earlier turn left: the picture in the NPU, the last      *)
(* inference, or the global array `outputs'.  Its buffers are never given  *)
(* back, so what it points to stays readable.  The library is external;    *)
(* pictures are numbered as they come.                                     *)
(***************************************************************************)
EXTENDS DetectionShare

CONSTANT MaxFaults      \* bound: library calls that fail

ASSUME InferenceAssumption == MaxFaults \in Nat

VARIABLES
    boxes,          \* boxes the network finds in each picture
    input,          \* picture set as the input of the NPU, 0 before the first
    ran,            \* picture of the last inference
    outputs,        \* picture whose inference `outputs' points to, 0: NULL
    lastGood,       \* last turn whose three calls succeeded (a history)
    written,        \* of each generation: its picture, and lastGood then
    faults          \* calls that failed

npu == <<boxes, input, ran, outputs, lastGood, written, faults>>
allVars == <<vars, npu>>

Calls == {"inputs_set", "run", "outputs_get"}

InferenceInit ==
    /\ Init
    /\ boxes = [p \in 1 .. MaxFrames |-> 0]
    /\ input = 0 /\ ran = 0 /\ outputs = 0 /\ lastGood = 0 /\ faults = 0
    /\ written = [g \in Generations |-> [picture |-> 0, good |-> 0]]

-----------------------------------------------------------------------------
picture == frames + 1

BugRunOn(new, old) == IF old = 0 THEN new ELSE old
(* The picture an inference works on: the input is set before it runs.     *)
RunOn(new, old) == new

(* predict, with the calls that fail.  On outputs that are still NULL the  *)
(* post-processing reads address 0 and the process is over, so there is no *)
(* next state.                                                             *)
predict(failed) ==
    /\ faults' = faults + Cardinality(failed) /\ faults' <= MaxFaults
    /\ input' = IF "inputs_set" \in failed THEN input ELSE picture
    /\ ran' = IF "run" \in failed THEN ran ELSE RunOn(input', input)
    /\ outputs' = IF "outputs_get" \in failed THEN outputs ELSE ran'
    /\ outputs' # 0

(* What the network finds in a picture is settled when the NPU gets it.    *)
Scene(failed) ==
    \E n \in 0 .. MaxDet :
        /\ "inputs_set" \in failed => n = 0
        /\ boxes' = [boxes EXCEPT ![picture] = n]

(* A turn of the loop, up to the first word of its write.                  *)
Turn ==
    \E failed \in SUBSET Calls :
        /\ frames < MaxFrames
        /\ predict(failed) /\ Scene(failed)
        /\ IF boxes'[outputs'] > 0 THEN Found(boxes'[outputs']) ELSE Expire \/ Miss
        /\ lastGood' = IF failed = {} THEN picture ELSE lastGood
        /\ written' = IF gen' = gen THEN written
                      ELSE [written EXCEPT ![gen'] = [picture |-> outputs', good |-> lastGood']]

Copy == (\E w \in Words : WriteWord(w)) /\ UNCHANGED npu

Draw == (BeginPicture \/ Picture) /\ UNCHANGED npu

InferenceNext == Turn \/ Copy \/ Draw

InferenceSpec == InferenceInit /\ [][InferenceNext]_allVars

(* Neither thread has to get a buffer ever again, but the drawing thread   *)
(* blocks nowhere between a buffer and the end of its picture.             *)
FairInferenceSpec == InferenceSpec /\ WF_vars(Picture)

-----------------------------------------------------------------------------
(* However calls fail and writes and reads mix, the boxes drawn come from  *)
(* no older picture than the last turn without a failure before the write  *)
(* that was complete when the drawing began: one good turn is enough to    *)
(* leave every stale result behind.                                        *)
DrawnRecent == \A g \in seen : written[g].picture >= written[base].good

=============================================================================
