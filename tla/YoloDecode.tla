----------------------------- MODULE YoloDecode -----------------------------
(***************************************************************************)
(* The first half of post_process_640_v5 (src/yolo.cc): process_u8 scans   *)
(* the quantized outputs of the network, one output (branch) per stride,   *)
(* and collects the candidates that YoloPost sorts.                        *)
(*                                                                         *)
(* An output is the flat array of the bytes of its cells, PropSize bytes   *)
(* for each anchor, row and column: x, y, width, height, the confidence    *)
(* and one byte per class, each a plane of the grid.  A byte q of     *)
(* branch n stands for (q - ZeroPoint[n]) * ScaleNum[n] / ScaleDen.  The   *)
(* model's type is YOLOV5, the only one init_model sets.                   *)
(***************************************************************************)
EXTENDS Integers, Sequences, Functions

CONSTANTS
    Height, Width,      \* of the model's picture
    Strides,            \* m->strides
    AnchorPerBranch,    \* m->anchor_per_branch
    Anchors,            \* per branch, the [w, h] of its anchors
    Classes,            \* OBJ_CLASS_NUM
    ZeroPoint,          \* m->out_attr[i].zp
    ScaleNum, ScaleDen, \* m->out_attr[i].scale, over a common denominator
    Threshold,          \* conf_threshold, percent
    Quiet, Loud,        \* contents of a cell: without, and maybe with an object
    LoudCells           \* the sets of cells that may be Loud in a picture

PropSize == 5 + Classes                     \* PROP_BOX_SIZE
GridH(b) == Height \div Strides[b]
GridW(b) == Width \div Strides[b]
Branch == 1 .. Len(Strides)

Cell == UNION {[b : {n}, a : 0 .. AnchorPerBranch - 1,
                i : 0 .. GridH(n) - 1, j : 0 .. GridW(n) - 1] : n \in Branch}

(* The outputs are sigmoid values, between zero and one but for rounding.  *)
ASSUME DecodeAssumption ==
    /\ Height \in Nat /\ Width \in Nat
    /\ Strides \in Seq(Nat \ {0})
    /\ \A b \in Branch : Strides[b] <= Height /\ Strides[b] <= Width
    /\ AnchorPerBranch \in Nat \ {0} /\ Classes \in Nat \ {0}
    /\ \A b \in Branch, n \in 1 .. AnchorPerBranch :
          Anchors[b][n].w \in Nat /\ Anchors[b][n].h \in Nat
    /\ ScaleDen \in Nat \ {0}
    /\ \A n \in Branch :
          /\ ZeroPoint[n] \in 0 .. 255 /\ ScaleNum[n] \in Nat \ {0}
          /\ (255 - ZeroPoint[n]) * ScaleNum[n] <= ScaleDen
          /\ 10 * ZeroPoint[n] * ScaleNum[n] < ScaleDen
    /\ Threshold \in 1 .. 100
    /\ Loud \cup {Quiet} \subseteq [0 .. PropSize - 1 -> 0 .. 255]
    /\ LoudCells \subseteq SUBSET Cell

VARIABLES
    content,    \* the bytes of each cell
    b, a, i, j, \* the cell the loops are at; b is past the end when done
    phase, k,   \* "class" in the loop over the classes k
    maxClassId, maxClassProbs,
    boxes,      \* filterBoxes, the numbers times 2 * ScaleDen^2
    boxScores,  \* boxesScore, times ScaleDen^2
    classId

cursor == <<b, a, i, j>>
best == <<maxClassId, maxClassProbs>>
candidates == <<boxes, boxScores, classId>>
vars == <<content, cursor, phase, k, best, candidates>>

Init ==
    /\ \E loud \in LoudCells : \E bytes \in [loud -> Loud] :
          content = [c \in Cell |-> IF c \in loud THEN bytes[c] ELSE Quiet]
    /\ b = 1 /\ a = 0 /\ i = 0 /\ j = 0
    /\ phase = "cell" /\ k = 0 /\ maxClassId = 0 /\ maxClassProbs = 0
    /\ boxes = << >> /\ boxScores = << >> /\ classId = << >>

-----------------------------------------------------------------------------
(* The byte at an offset of branch b's output.                             *)
Input(offset) ==
    LET len == GridH(b) * GridW(b)
        plane == offset \div len
        at == offset % len
    IN content[[b |-> b, a |-> plane \div PropSize,
                i |-> at \div GridW(b), j |-> at % GridW(b)]][plane % PropSize]

BugOffset(p) == (PropSize * a + p) * (GridH(b) * GridW(b)) + (i * GridH(b) + j)
Offset(p) == (PropSize * a + p) * (GridH(b) * GridW(b)) + (i * GridW(b) + j)

At(p) == Input(Offset(p))

(* deqnt_affine_to_f32, times ScaleDen.                                    *)
Dequantize(q, n) == (q - ZeroPoint[n]) * ScaleNum[n]

BugThresholdByte(n) ==
    (Threshold * ScaleDen) \div (100 * ScaleNum[n]) + 2 * ZeroPoint[n]

(* qnt_f32_to_affine of the threshold: clipped, and truncated.             *)
ThresholdByte(n) ==
    LET q == (Threshold * ScaleDen) \div (100 * ScaleNum[n]) + ZeroPoint[n]
    IN IF q >= 255 THEN 255 ELSE q

(* The loops' counters after a cell.                                       *)
Advance ==
    LET lastJ == j + 1 = GridW(b)
        lastI == lastJ /\ i + 1 = GridH(b)
        lastA == lastI /\ a + 1 = AnchorPerBranch
    IN /\ j' = IF lastJ THEN 0 ELSE j + 1
       /\ i' = IF lastI THEN 0 ELSE IF lastJ THEN i + 1 ELSE i
       /\ a' = IF lastA THEN 0 ELSE IF lastI THEN a + 1 ELSE a
       /\ b' = IF lastA THEN b + 1 ELSE b

(* A cell whose confidence byte is too low is passed over.                 *)
SkipCell ==
    /\ phase = "cell" /\ b \in Branch
    /\ At(4) < ThresholdByte(b)
    /\ Advance
    /\ UNCHANGED <<content, phase, k, best, candidates>>

EnterCell ==
    /\ phase = "cell" /\ b \in Branch
    /\ At(4) >= ThresholdByte(b)
    /\ maxClassId' = 0 /\ maxClassProbs' = At(5)
    /\ k' = 1 /\ phase' = "class"
    /\ UNCHANGED <<content, cursor, candidates>>

(* One turn of the class loop: the first class is kept until one is better.*)
CompareClass ==
    /\ phase = "class" /\ k < Classes
    /\ IF At(5 + k) > maxClassProbs
       THEN maxClassId' = k /\ maxClassProbs' = At(5 + k)
       ELSE UNCHANGED best
    /\ k' = k + 1
    /\ UNCHANGED <<content, cursor, phase, candidates>>

Score == Dequantize(At(4), b) * Dequantize(maxClassProbs, b)

BugColumnOf == i
ColumnOf == j

(* x, y, width and height: the centre within its cell, the size in anchors *)
(* and then the corner.                                                    *)
Centre(q, at) ==
    (ScaleDen * Strides[b]) * (4 * Dequantize(q, b) - ScaleDen + 2 * ScaleDen * at)

Extent(q, anchor) == 8 * anchor * (Dequantize(q, b) * Dequantize(q, b))

DecodedBox ==
    LET w == Extent(At(2), Anchors[b][a + 1].w)
        h == Extent(At(3), Anchors[b][a + 1].h)
    IN <<Centre(At(0), ColumnOf) - w \div 2, Centre(At(1), i) - h \div 2, w, h>>

(* After the class loop, the test of the score and the next cell.          *)
LeaveCell ==
    /\ phase = "class" /\ k = Classes
    /\ IF 100 * Score > Threshold * (ScaleDen * ScaleDen)
       THEN /\ boxes' = boxes \o DecodedBox
            /\ boxScores' = Append(boxScores, Score)
            /\ classId' = Append(classId, maxClassId)
       ELSE UNCHANGED candidates
    /\ Advance
    /\ phase' = "cell"
    /\ UNCHANGED <<content, k, best>>

Next == SkipCell \/ EnterCell \/ CompareClass \/ LeaveCell

Spec == Init /\ [][Next]_vars

-----------------------------------------------------------------------------
(* The cells that should give a candidate: their confidence times their    *)
(* best class is above the threshold.                                      *)
Class == 0 .. Classes - 1

Wanted(c) ==
    \E n \in Class :
        /\ \A m \in Class : content[c][5 + m] <= content[c][5 + n]
        /\ 100 * (Dequantize(content[c][4], c.b) * Dequantize(content[c][5 + n], c.b))
              > Threshold * (ScaleDen * ScaleDen)

(* The order of the scan.                                                  *)
Before(c, d) ==
    \/ c.b < d.b
    \/ c.b = d.b /\ c.a < d.a
    \/ c.b = d.b /\ c.a = d.a /\ c.i < d.i
    \/ c.b = d.b /\ c.a = d.a /\ c.i = d.i /\ c.j < d.j

(* What cells the candidates may come from, each one found in its turn.    *)
(* When no wanted cell is missing there is one such function.              *)
Sources ==
    {s \in [1 .. Len(classId) -> {c \in Cell : Wanted(c)}] :
        \A m, n \in 1 .. Len(classId) : m < n => Before(s[m], s[n])}

Done == b \notin Branch

(* The test on bytes before the floats are computed drops no object that   *)
(* the test on floats would accept, whatever the quantization.             *)
PrefilterSound ==
    Done => \E s \in Sources : \A c \in Cell : Wanted(c) => c \in Range(s)

(* The three vectors stay parallel over all branches: the score and class  *)
(* at one index are those of one cell, with the quantization of its output *)
(* and of equal classes the first, and the boxes are as many.  (What the   *)
(* box at that index holds is BoxNearCell's.)                              *)
CandidatesParallel ==
    Done =>
        /\ Len(boxes) = 4 * Len(classId) /\ Len(boxScores) = Len(classId)
        /\ \E s \in Sources :
              \A n \in 1 .. Len(classId) :
                  LET bytes == content[s[n]]
                      class == classId[n]
                      from == s[n].b
                  IN /\ class \in Class
                     /\ boxScores[n] =
                           Dequantize(bytes[4], from) * Dequantize(bytes[5 + class], from)
                     /\ \A m \in Class :
                           IF m < class THEN bytes[5 + m] < bytes[5 + class]
                                        ELSE bytes[5 + m] <= bytes[5 + class]

(* A box's centre is less than one cell outside the cell that found it,    *)
(* and the box is at most four times its anchor.                           *)
Near(centre, at, stride) ==
    LET unit == (ScaleDen * stride) * ScaleDen
    IN (2 * at - 2) * unit <= centre /\ centre <= (2 * at + 3) * unit

BoxNearCell ==
    Done =>
        \E s \in Sources :
            \A n \in 1 .. Len(classId) :
                LET c == s[n]
                    x == boxes[4 * n - 3]
                    y == boxes[4 * n - 2]
                    w == boxes[4 * n - 1]
                    h == boxes[4 * n]
                    anchor == Anchors[c.b][c.a + 1]
                IN /\ Near(x + w \div 2, c.j, Strides[c.b])
                   /\ Near(y + h \div 2, c.i, Strides[c.b])
                   /\ 0 <= w /\ w <= 8 * anchor.w * (ScaleDen * ScaleDen)
                   /\ 0 <= h /\ h <= 8 * anchor.h * (ScaleDen * ScaleDen)

=============================================================================
