----------------------------- MODULE MCYoloPost -----------------------------
(* A chain of boxes, each overlapping the next too much but not the one    *)
(* after it, over the upper and the right edge, the last one outside.      *)
EXTENDS YoloPost

Box(x, y, w, h) == [x |-> x, y |-> y, w |-> w, h |-> h]

MCBoxes == {Box(14, -4, 9, 9), Box(17, -4, 9, 9), Box(20, -4, 9, 9)}

=============================================================================
