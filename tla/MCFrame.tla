------------------------------- MODULE MCFrame -------------------------------
(***************************************************************************)
(* One camera picture from end to end, for TLC: the model finds a box in   *)
(* the small picture, the box is drawn in the large one (BoxMap), and the  *)
(* encoder's packet of the large one goes to RTSP and to the recorder      *)
(* (NalSample).  The two share no variable.                                *)
(*                                                                         *)
(* The pictures have the proportions of 640, 640, 360, 1920 and 1080, made *)
(* small enough for every box of the model's picture, with an odd          *)
(* difference of heights.                                                  *)
(***************************************************************************)
EXTENDS BoxMap, MCNalSample

MCModelSize == 7
MCScale == 3
MCInputHeight == 4
MCVideoWidth == MCModelSize * MCScale
MCVideoHeight == MCInputHeight * MCScale

InitFrame == Init /\ InitPacket

(* Only a picture whose boxes are drawn is encoded.                        *)
NextFrame ==
    \/ Next /\ UNCHANGED packetVars
    \/ phase = "draw" /\ NextPacket /\ UNCHANGED vars

SpecFrame == InitFrame /\ [][NextFrame]_<<vars, packetVars>>

=============================================================================
