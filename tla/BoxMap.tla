------------------------------- MODULE BoxMap -------------------------------
(***************************************************************************)
(* From the camera to the model's picture and back: fill_image_data        *)
(* (src/img_utils.cc) puts the small RGA picture in the middle of a grey   *)
(* square, the network finds a box in the square (see YoloPost), and       *)
(* observer_thread (src/monitor.cc) turns it into a rectangle of the large *)
(* RGA picture.  A picture is a function from its rows: only rows move.    *)
(***************************************************************************)
EXTENDS Integers

CONSTANTS
    ModelSize,      \* MODEL_INPUT_SIZE
    InputWidth,     \* RKNN_INPUT_IMG_WIDTH
    InputHeight,    \* RKNN_INPUT_IMG_HEIGHT
    VideoWidth,     \* RTSP_INPUT_VI_WIDTH
    VideoHeight     \* RTSP_INPUT_VI_HEIGHT

(* Both RGA channels give the whole camera picture, at two sizes.          *)
ASSUME BoxMapAssumption ==
    /\ ModelSize \in Nat \ {0} /\ InputHeight \in Nat /\ InputWidth \in Nat
    /\ VideoWidth \in Nat /\ VideoHeight \in Nat
    /\ InputHeight <= ModelSize
    /\ VideoWidth = ModelSize * (VideoWidth \div ModelSize)
    /\ VideoHeight = InputHeight * (VideoWidth \div ModelSize)

Grey == 0                       \* 0x7F in every byte; rows are numbered from 1
Scale == VideoWidth \div ModelSize
FillPadding == (ModelSize - InputHeight) \div 2     \* verticalPadding of fill_image_data
BugPadding == ModelSize - InputHeight
Padding == (ModelSize - InputHeight) \div 2

Coordinate == 0 .. ModelSize
Boxes == [left : Coordinate, top : Coordinate, right : Coordinate, bottom : Coordinate]

VARIABLES
    phase,      \* "fill", "detect", "map", "draw"
    picture,    \* the model's picture: the camera row in each of its rows
    box,        \* results[j].box
    rect        \* boxInfoList[j]

vars == <<phase, picture, box, rect>>

NoBox == [left |-> 0, top |-> 0, right |-> 0, bottom |-> 0]

Init ==
    /\ phase = "fill"
    /\ picture = [r \in 0 .. ModelSize - 1 |-> Grey]
    /\ box = NoBox /\ rect = NoBox

-----------------------------------------------------------------------------
(* One memcpy of all rows; nothing is copied when the widths differ.       *)
Filled ==
    [r \in 0 .. ModelSize - 1 |->
        IF r \in FillPadding .. FillPadding + InputHeight - 1
        THEN r - FillPadding + 1 ELSE Grey]

Fill ==
    /\ phase = "fill" /\ phase' = "detect"
    /\ picture' = IF InputWidth # ModelSize THEN picture ELSE Filled
    /\ UNCHANGED <<box, rect>>

(* Any rectangle of the square, as ResultsInPicture of YoloPost says.      *)
Detect ==
    /\ phase = "detect" /\ phase' = "map"
    /\ \E found \in Boxes :
          /\ found.left <= found.right /\ found.top <= found.bottom
          /\ box' = found
    /\ UNCHANGED <<picture, rect>>

Cut(start, length, limit) == IF start + length > limit THEN limit - start ELSE length

Start(n) == IF n < 0 THEN 0 ELSE n

BugLow(y, h) == y + h
Low(y, h) == y + Cut(y, h, VideoHeight)

(* The body of the first loop over the results.                            *)
Mapped(b) ==
    LET x == b.left * Scale
        y == Start(b.top - Padding) * Scale
        w == (b.right - b.left) * Scale
        h == (b.bottom - b.top) * Scale
    IN [left |-> x, top |-> y,
        right |-> x + Cut(x, w, VideoWidth), bottom |-> Low(y, h)]

Map ==
    /\ phase = "map" /\ phase' = "draw"
    /\ rect' = Mapped(box)
    /\ UNCHANGED <<picture, box>>

Next == Fill \/ Detect \/ Map

Spec == Init /\ [][Next]_vars

-----------------------------------------------------------------------------
(* The drawn rectangle covers the object: every camera row a box contains, *)
(* magnified, lies in it, the columns exactly; grey rows above the picture *)
(* may lengthen it downwards, but hide nothing.                            *)
CoversObject ==
    phase = "draw" /\ InputWidth = ModelSize =>
        /\ rect.left = box.left * Scale /\ rect.right = box.right * Scale
        /\ \A r \in box.top .. box.bottom - 1 :
              picture[r] # Grey => /\ rect.top <= (picture[r] - 1) * Scale
                                   /\ picture[r] * Scale <= rect.bottom

(* A box that ends within the camera picture or begins within it is drawn  *)
(* as a rectangle of the video picture.  (One wholly below is not.)        *)
DrawnInPicture ==
    phase = "draw" /\ box.top <= Padding + InputHeight =>
        /\ 0 <= rect.left /\ rect.left <= rect.right /\ rect.right <= VideoWidth
        /\ 0 <= rect.top /\ rect.top <= rect.bottom /\ rect.bottom <= VideoHeight

=============================================================================
