---------------------------- MODULE DetectionHold ----------------------------
(***************************************************************************)
(* What the README (0217) promises of the boxes on the picture: the last   *)
(* non-empty detection stays in force, and clean_old_box_frames frames in  *)
(* a row without any box clear it.  An abstract specification: one step    *)
(* per analysed frame, no threads and no memory words.                     *)
(***************************************************************************)
EXTENDS Integers

CONSTANTS MaxDet,       \* boxes one frame can have
          CleanAfter    \* gParams.clean_old_box_frames

VARIABLES shown,        \* number of boxes of the detection in force
          misses        \* frames without a box since, or since the last clear

Init == shown = 0 /\ misses = 0

Found == \E n \in 1 .. MaxDet : shown' = n /\ misses' = 0

Keep == misses + 1 < CleanAfter /\ misses' = misses + 1 /\ UNCHANGED shown

Expire == misses + 1 >= CleanAfter /\ shown' = 0 /\ misses' = 0

Next == Found \/ Keep \/ Expire

Spec == Init /\ [][Next]_<<shown, misses>>

=============================================================================
