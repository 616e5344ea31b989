--------------------------- MODULE DetectionShare ---------------------------
(***************************************************************************)
(* The detection result shared by the inference thread (rknn_yolo_thread   *)
(* of src/rknn_process.cc) and the drawing thread (observer_thread of      *)
(* src/monitor.cc): the global detect_result_group, written with memcpy    *)
(* and memset and read field by field, with no lock on either side.        *)
(*                                                                         *)
(* The global is a set of words.  A write (a copy of a new result, or the  *)
(* clearing of the old one) is a generation; it replaces the words one by  *)
(* one, in any order.  A word is represented by the generation that wrote  *)
(* it last, and result[g] is the detect_count that generation g wrote: a   *)
(* copied result is zero past its count, because the thread clears its     *)
(* local group first.  The corner pair (left, top) of a box is one word,   *)
(* and so is (right, bottom).                                              *)
(***************************************************************************)
EXTENDS Integers, FiniteSets

CONSTANTS
    MaxDet,         \* OBJ_NUMB_MAX_SIZE, results a group holds
    CleanAfter,     \* gParams.clean_old_box_frames
    MaxFrames       \* bound: frames the inference thread analyses

ASSUME ShareAssumption ==
    MaxDet \in Nat \ {0} /\ CleanAfter \in Int /\ MaxFrames \in Nat

VARIABLES
    pending,        \* words the write in progress still has to replace
    gen,            \* generation of the latest write
    shared,         \* detect_result_group: the generation of each word
    result,         \* detect_count of each generation
    noBoxCounter,   \* noBoxCounter of the inference thread
    empties,        \* frames without a box since the last one with (a history)
    frames,         \* frames analysed so far
    obs,            \* where the drawing thread is
    j,              \* loop index of the boxes being computed
    listed,         \* boxInfoListNumber
    labelled,       \* index of the next label to draw
    base,           \* latest complete generation when the picture was begun
    seen            \* generations of the words this picture was drawn from

inference == <<pending, gen, shared, result, noBoxCounter, empties, frames>>
drawing == <<obs, j, listed, labelled, base, seen>>
vars == <<inference, drawing>>

-----------------------------------------------------------------------------
Slots == 1 .. MaxDet
Count == <<"count", 0>>
TopLeft(i) == <<"tl", i>>
BottomRight(i) == <<"br", i>>
Name(i) == <<"name", i>>
Words == {Count} \cup ({"tl", "br", "name"} \X Slots)

Generations == 0 .. MaxFrames

detect_count == result[shared[Count]]

Init ==
    /\ pending = {} /\ gen = 0
    /\ shared = [w \in Words |-> 0]
    /\ result = [g \in Generations |-> 0]
    /\ noBoxCounter = 0 /\ empties = 0 /\ frames = 0
    /\ obs = "wait" /\ j = 0 /\ listed = 0 /\ labelled = 1 /\ base = 0 /\ seen = {}

-----------------------------------------------------------------------------
(* The inference thread.                                                   *)

Analyse == pending = {} /\ frames < MaxFrames /\ frames' = frames + 1

BugWritten == Words \ ({"name"} \X Slots)
Written == Words

StartWrite(n) ==
    /\ gen' = gen + 1
    /\ result' = [result EXCEPT ![gen + 1] = n]
    /\ pending' = Written

(* predict found n boxes: memcpy over the shared group.                    *)
Found(n) ==
    /\ Analyse
    /\ StartWrite(n)
    /\ empties' = 0
    /\ UNCHANGED <<shared, noBoxCounter, drawing>>

BugExpired(misses) == misses > CleanAfter
Expired(misses) == misses >= CleanAfter

(* No box for long enough: memset of the shared group.                     *)
Expire ==
    /\ Analyse /\ Expired(noBoxCounter + 1)
    /\ StartWrite(0)
    /\ noBoxCounter' = noBoxCounter + 1
    /\ empties' = empties + 1
    /\ UNCHANGED <<shared, drawing>>

(* No box: the old ones stay for now.                                      *)
Miss ==
    /\ Analyse /\ ~Expired(noBoxCounter + 1)
    /\ noBoxCounter' = noBoxCounter + 1
    /\ empties' = empties + 1
    /\ UNCHANGED <<pending, gen, shared, result, drawing>>

BugRestarted(misses) == misses
Restarted(misses) == 0

(* One word of the memcpy or memset; noBoxCounter restarts after the last. *)
WriteWord(w) ==
    /\ w \in pending
    /\ pending' = pending \ {w}
    /\ shared' = [shared EXCEPT ![w] = gen]
    /\ noBoxCounter' = IF pending = {w} THEN Restarted(noBoxCounter) ELSE noBoxCounter
    /\ UNCHANGED <<gen, result, empties, frames, drawing>>

Inference ==
    \/ \E n \in Slots : Found(n)
    \/ Expire \/ Miss
    \/ \E w \in Words : WriteWord(w)

-----------------------------------------------------------------------------
(* The drawing thread.                                                     *)

Complete == IF pending = {} THEN gen ELSE gen - 1

Read(words) == seen' = seen \cup {shared[w] : w \in words}

(* A new picture, and the test detect_count > 0.                           *)
BeginPicture ==
    /\ obs = "wait"
    /\ base' = Complete
    /\ seen' = {shared[Count]}
    /\ obs' = IF detect_count > 0 THEN "test" ELSE "label"
    /\ UNCHANGED <<inference, j, listed, labelled>>

BugMore(i, n) == i <= n
More(i, n) == i < n

(* The loop condition j < detect_result_group.detect_count, read afresh.   *)
TestCount ==
    /\ obs = "test"
    /\ Read({Count})
    /\ IF More(j, detect_count)
       THEN obs' = "corner" /\ UNCHANGED j
       ELSE obs' = "label" /\ j' = 0
    /\ UNCHANGED <<inference, listed, labelled, base>>

ReadCorner ==
    /\ obs = "corner"
    /\ Read({TopLeft(j + 1)})
    /\ obs' = "size"
    /\ UNCHANGED <<inference, j, listed, labelled, base>>

(* Width and height read the first corner a second time; the finished box  *)
(* goes to boxInfoList[j].                                                 *)
ReadSize ==
    /\ obs = "size"
    /\ Read({BottomRight(j + 1), TopLeft(j + 1)})
    /\ j' = j + 1
    /\ listed' = listed + 1
    /\ obs' = "test"
    /\ UNCHANGED <<inference, labelled, base>>

BugNextLabel(i) == i
NextLabel(i) == i + 1

(* The box is drawn from boxInfoList, its label from the shared name.      *)
DrawLabel ==
    /\ obs = "label" /\ labelled <= listed
    /\ Read({Name(labelled)})
    /\ labelled' = NextLabel(labelled)
    /\ UNCHANGED <<inference, obs, j, listed, base>>

BugListReset(n) == n
ListReset(n) == 0

EndPicture ==
    /\ obs = "label" /\ labelled > listed
    /\ obs' = "wait"
    /\ listed' = ListReset(listed)
    /\ labelled' = 1 /\ seen' = {}
    /\ UNCHANGED <<inference, j, base>>

Picture == TestCount \/ ReadCorner \/ ReadSize \/ DrawLabel \/ EndPicture

Next == Inference \/ BeginPicture \/ Picture

Spec == Init /\ [][Next]_vars

-----------------------------------------------------------------------------
(* Types, with the bounds the guards give.                                 *)
TypeOK ==
    /\ pending \subseteq Words /\ gen \in Generations
    /\ shared \in [Words -> Generations] /\ result \in [Generations -> 0 .. MaxDet]
    /\ noBoxCounter \in Nat /\ empties \in Nat /\ frames \in 0 .. MaxFrames
    /\ obs \in {"wait", "test", "corner", "size", "label"}
    /\ j \in Nat /\ listed \in Nat /\ labelled \in Nat /\ base \in Generations
    /\ seen \subseteq Generations

(* The loop bound is read again and again while the other thread rewrites  *)
(* it, and boxInfoListNumber counts on its own; still boxInfoList and the  *)
(* result array are never indexed past OBJ_NUMB_MAX_SIZE.                  *)
InBounds ==
    /\ obs \in {"corner", "size"} => j < MaxDet
    /\ obs = "label" /\ labelled <= listed => labelled \in Slots

(* A picture may mix generations, but never goes back: every word it is    *)
(* drawn from is at least as new as the last complete result at its start. *)
NeverOlder == \A g \in seen : base <= g /\ g <= gen

(* A picture no write overlaps shows exactly one detection: all its boxes, *)
(* all its labels, and nothing of any other.                               *)
ExactWhenQuiet ==
    obs = "label" /\ labelled > listed /\ gen = base =>
        seen = {base} /\ listed = result[base]

(* README 0217: after clean_old_box_frames frames in a row without a box   *)
(* the old boxes are gone, and they stay gone until the next detection.    *)
OldBoxesCleared ==
    pending = {} /\ empties > 0 /\ empties >= CleanAfter =>
        \A w \in Words : result[shared[w]] = 0

(* Every picture is finished, though its loop bound is a moving target.    *)
PictureEnds == (obs = "test") ~> (obs = "wait")

(* The shared group is the abstract held detection: a write takes effect   *)
(* with its last word.                                                     *)
Hold == INSTANCE DetectionHold WITH
            shown <- IF pending = {} THEN detect_count ELSE result[gen - 1],
            misses <- IF pending = {} \/ result[gen] > 0
                      THEN noBoxCounter ELSE noBoxCounter - 1

ImplementsHold == Hold!Spec

=============================================================================
