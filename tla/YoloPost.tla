------------------------------ MODULE YoloPost ------------------------------
(***************************************************************************)
(* The second half of post_process_640_v5 (src/yolo.cc): the candidates    *)
(* process_u8 found (see YoloDecode) are sorted by score, overlapping ones *)
(* of a class are suppressed and the rest goes to the result group.        *)
(*                                                                         *)
(* A candidate has a box [x, y, w, h] in model pixels, here whole numbers  *)
(* that may lie outside the picture, a class and a score in percent.       *)
(* Sequences begin at 1, so the -1 of order is written 0.                  *)
(***************************************************************************)
EXTENDS Integers, Sequences, FiniteSets, Functions

CONSTANTS
    MaxCandidates,  \* bound: candidates of a picture
    Boxes,          \* boxes process_u8 may give
    Classes,        \* their classes
    Scores,         \* their scores, above Confidence
    Confidence,     \* conf_threshold, percent
    NmsThreshold,   \* NMS_THRESHOLD, percent
    MaxResults,     \* OBJ_NUMB_MAX_SIZE
    Size            \* MODEL_INPUT_SIZE

ASSUME PostAssumption ==
    /\ MaxCandidates \in Nat /\ MaxResults \in Nat \ {0} /\ Size \in Nat
    /\ NmsThreshold \in 0 .. 100 /\ Confidence \in Int
    /\ \A s \in Scores : s \in Int /\ s > Confidence
    /\ Boxes \subseteq [x : Int, y : Int, w : Nat, h : Nat]

VARIABLES
    boxes, classId,     \* filterBoxes, classId: in the order of detection
    found,              \* boxesScore as process_u8 left it
    score,              \* boxesScore, sorted in place
    order,              \* indexArray
    todo,               \* the ranges still to sort, the one in work first
    low, high,          \* of quick_sort_indice_inverse, and the element
    key, keyIndex,      \* it has taken out
    phase, i,           \* where the function is
    results             \* group->results, detect_count long

detected == <<boxes, classId, found>>
sorter == <<todo, low, high, key, keyIndex>>
vars == <<detected, score, order, sorter, phase, i, results>>

Count == Len(boxes)

(* No candidate: post_process returns -1 with the group zeroed.            *)
Init ==
    /\ \E n \in 0 .. MaxCandidates :
          /\ boxes \in [1 .. n -> Boxes]
          /\ classId \in [1 .. n -> Classes]
          /\ found \in [1 .. n -> Scores]
    /\ score = found
    /\ order = [k \in 1 .. Count |-> k]
    /\ todo = <<[left |-> 1, right |-> Count]>>
    /\ low = 1 /\ high = 1 /\ key = 0 /\ keyIndex = 0
    /\ phase = IF Count = 0 THEN "done" ELSE "sort"
    /\ i = 1 /\ results = << >>

-----------------------------------------------------------------------------
(* quick_sort_indice_inverse.  A range of two or more takes its first      *)
(* element out, which leaves a hole at low.                                *)
Top == Head(todo)

TakeKey ==
    /\ phase = "sort"
    /\ Top.left < Top.right
    /\ low' = Top.left /\ high' = Top.right
    /\ key' = score[Top.left] /\ keyIndex' = order[Top.left]
    /\ phase' = "down"
    /\ UNCHANGED <<detected, score, order, todo, i, results>>

BugMove(to, from) ==
    score' = score /\ order' = [order EXCEPT ![to] = order[from]]
Move(to, from) ==
    /\ score' = [score EXCEPT ![to] = score[from]]
    /\ order' = [order EXCEPT ![to] = order[from]]

(* From the right end down to the first that exceeds the key: it goes into *)
(* the hole at low and leaves one at high.                                 *)
ScanDown ==
    /\ phase = "down"
    /\ \E h \in low .. high :
          /\ \A k \in h + 1 .. high : score[k] <= key
          /\ h = low \/ score[h] > key
          /\ Move(low, h)
          /\ high' = h
    /\ phase' = "up"
    /\ UNCHANGED <<detected, todo, low, key, keyIndex, i, results>>

(* From the left end up to the first below the key, into the hole at high. *)
ScanUp ==
    /\ phase = "up"
    /\ \E l \in low .. high :
          /\ \A k \in low .. l - 1 : score[k] >= key
          /\ l = high \/ score[l] < key
          /\ Move(high, l)
          /\ low' = l
          /\ phase' = IF l < high THEN "down" ELSE "place"
    /\ UNCHANGED <<detected, todo, high, key, keyIndex, i, results>>

(* The key goes into the hole, and the two sides are sorted.               *)
Place ==
    /\ phase = "place"
    /\ score' = [score EXCEPT ![low] = key]
    /\ order' = [order EXCEPT ![low] = keyIndex]
    /\ todo' = <<[left |-> Top.left, right |-> low - 1],
                 [left |-> low + 1, right |-> Top.right]>> \o Tail(todo)
    /\ phase' = "sort"
    /\ UNCHANGED <<detected, low, high, key, keyIndex, i, results>>

(* A range of less than two is sorted; after the last one nms begins.      *)
Return ==
    /\ phase = "sort"
    /\ Top.left >= Top.right
    /\ todo' = Tail(todo)
    /\ phase' = IF Len(todo) = 1 THEN "nms" ELSE "sort"
    /\ UNCHANGED <<detected, score, order, low, high, key, keyIndex, i, results>>

Sort == TakeKey \/ ScanDown \/ ScanUp \/ Place \/ Return

-----------------------------------------------------------------------------
Larger(a, b) == IF a > b THEN a ELSE b
Smaller(a, b) == IF a < b THEN a ELSE b

(* CalculateOverlap(p, q) > threshold: both sides times 100 and the union. *)
Shared(a, m, b, n) == Larger(0, Smaller(a + m, b + n) - Larger(a, b) + 1)

OverlapExceeds(p, q) ==
    LET both == Shared(p.x, p.w, q.x, q.w) * Shared(p.y, p.h, q.y, q.h)
        areas == (p.w + 1) * (p.h + 1) + (q.w + 1) * (q.h + 1)
    IN 100 * both > NmsThreshold * (areas - both)

BugSuppresses(n, m) == OverlapExceeds(boxes[n], boxes[m])
Suppresses(n, m) == classId[n] = classId[m] /\ OverlapExceeds(boxes[n], boxes[m])

(* One turn of the outer loop of nms.                                      *)
Suppress ==
    /\ phase = "nms"
    /\ order' = IF order[i] = 0 THEN order ELSE
                [j \in 1 .. Count |->
                    IF j > i /\ order[j] # 0 /\ Suppresses(order[i], order[j])
                    THEN 0 ELSE order[j]]
    /\ i' = IF i = Count THEN 1 ELSE i + 1
    /\ phase' = IF i = Count THEN "emit" ELSE "nms"
    /\ UNCHANGED <<detected, score, sorter, results>>

-----------------------------------------------------------------------------
BugClamp(v) == Smaller(v, Size)
Clamp(v) == Larger(0, Smaller(v, Size))

Room == Len(results) < MaxResults

BugPropAt(k) == score[order[k]]
PropAt(k) == score[k]

Result(k) ==
    LET n == order[k]
        b == boxes[n]
    IN
    [left |-> Clamp(b.x), top |-> Clamp(b.y),
     right |-> Clamp(b.x + b.w), bottom |-> Clamp(b.y + b.h),
     prop |-> PropAt(k), class |-> classId[n]]

(* One turn of the loop that fills the group.                              *)
Emit ==
    /\ phase = "emit"
    /\ results' = IF order[i] = 0 \/ score[i] < Confidence \/ ~Room THEN results
                  ELSE Append(results, Result(i))
    /\ i' = i + 1
    /\ phase' = IF i = Count THEN "done" ELSE "emit"
    /\ UNCHANGED <<detected, score, order, sorter>>

Next == Sort \/ Suppress \/ Emit

Spec == Init /\ [][Next]_vars

-----------------------------------------------------------------------------
TypeOK ==
    /\ Len(classId) = Count /\ Len(score) = Count /\ Len(order) = Count
    /\ Range(order) \subseteq 0 .. Count
    /\ \A r \in Range(todo) : r.left \in 1 .. Count + 1 /\ r.right \in 0 .. Count
    /\ phase \in {"sort", "down", "up", "place", "nms", "emit", "done"} /\ i \in 1 .. Count + 1
    /\ Len(results) <= MaxResults

(* The in-place sort, ties included, orders the scores downwards, loses no *)
(* candidate and leaves each score beside its own candidate's index.       *)
SortedWithIndices ==
    phase = "nms" /\ i = 1 =>
        /\ \A k \in 1 .. Count - 1 : score[k] >= score[k + 1]
        /\ Range(order) = 1 .. Count
        /\ \A k \in 1 .. Count : score[k] = found[order[k]]

Kept == {k \in 1 .. Count : order[k] # 0}

(* When the group is filled, no two candidates of a class that are left    *)
(* overlap too much, and any one that is gone overlaps too much with one   *)
(* of its class that is left and scores at least as high: a candidate that *)
(* was suppressed itself suppresses no other.                              *)
SuppressionExact ==
    phase \in {"emit", "done"} =>
        LET left == {order[k] : k \in Kept} IN
        /\ \A n, m \in left : n # m => ~(classId[n] = classId[m]
                                          /\ OverlapExceeds(boxes[n], boxes[m]))
        /\ \A m \in 1 .. Count \ left :
              \E n \in left : /\ classId[n] = classId[m] /\ found[n] >= found[m]
                              /\ OverlapExceeds(boxes[n], boxes[m])

(* The group holds the best candidates left, at most as many as it has     *)
(* places, the highest score first, each with its own class and score.     *)
BestResults ==
    phase = "done" =>
        LET left == {order[k] : k \in Kept}
            n == Len(results)
        IN /\ n = Smaller(Cardinality(left), MaxResults)
           /\ \A k \in 1 .. n - 1 : results[k].prop >= results[k + 1].prop
           /\ \E chosen \in [1 .. n -> left] :
                 /\ Cardinality(Range(chosen)) = n
                 /\ \A k \in 1 .. n : /\ results[k].prop = found[chosen[k]]
                                      /\ results[k].class = classId[chosen[k]]
                 /\ \A m \in left \ Range(chosen), k \in 1 .. n :
                       found[m] <= found[chosen[k]]

(* Whatever box the network gives, also one beyond an edge, its corners    *)
(* are corners of a rectangle inside the model's picture.                  *)
ResultsInPicture ==
    \A k \in 1 .. Len(results) :
        LET r == results[k] IN
        /\ 0 <= r.left /\ r.left <= r.right /\ r.right <= Size
        /\ 0 <= r.top /\ r.top <= r.bottom /\ r.bottom <= Size

=============================================================================
