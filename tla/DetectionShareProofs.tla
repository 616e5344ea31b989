------------------------ MODULE DetectionShareProofs ------------------------
(***************************************************************************)
(* What the unlocked sharing of detect_result_group still guarantees, for  *)
(* any number of boxes, any clean_old_box_frames and any length of run.    *)
(*                                                                         *)
(* The invariant ties the words to the write in progress (Memory), the     *)
(* picture to the generation at its start (Picturing), the loop index to   *)
(* boxInfoListNumber (Indices), and the counter that expires old boxes to  *)
(* the frames without a box (Counting).                                    *)
(* The last part is about Inference, which is one way to fill the group,   *)
(* so that all of this holds for it, and about failing library calls.      *)
(***************************************************************************)
EXTENDS Inference, TLAPS

Memory ==
    /\ \A w \in Words : shared[w] = (IF w \in pending THEN gen - 1 ELSE gen)
    /\ pending # {} => gen > 0
    /\ gen <= frames

Picturing ==
    /\ base <= Complete
    /\ \A g \in seen : base <= g /\ g <= gen
    /\ obs # "wait" => seen # {}
    /\ gen = base /\ obs \in {"test", "corner", "size"} => j <= result[base]
    /\ gen = base /\ obs \in {"corner", "size"} => j < result[base]
    /\ gen = base /\ obs = "label" => listed = result[base]

Indices ==
    /\ j <= MaxDet /\ listed <= MaxDet /\ labelled >= 1 /\ labelled <= listed + 1
    /\ obs \in {"corner", "size"} => j < MaxDet
    /\ obs \in {"test", "corner", "size"} => listed = j /\ labelled = 1
    /\ obs = "wait" => listed = 0 /\ labelled = 1 /\ j = 0
    /\ obs = "label" => j = 0

Counting ==
    /\ pending = {} => noBoxCounter = 0 \/ noBoxCounter < CleanAfter
    /\ pending = {} => result[gen] = 0 \/ empties = noBoxCounter
    /\ pending # {} => result[gen] = 0 \/ empties = 0
    /\ pending # {} /\ result[gen] = 0 => noBoxCounter >= CleanAfter /\ noBoxCounter > 0

IInv == TypeOK /\ Memory /\ Picturing /\ Indices /\ Counting

-----------------------------------------------------------------------------
(* The words the drawing thread names are words of the group.              *)
LEMMA WordsOfGroup ==
    /\ Count \in Words
    /\ \A i \in Slots : TopLeft(i) \in Words /\ BottomRight(i) \in Words /\ Name(i) \in Words
BY DEF Words, Count, TopLeft, BottomRight, Name

(* Any word read now is of the write in progress or of the one before it,  *)
(* which was complete: both are at least as new as the picture's base.     *)
LEMMA ReadStaysFresh ==
    ASSUME TypeOK, Memory, Picturing, NEW words \in SUBSET Words, Read(words)
    PROVE  /\ seen' \subseteq Generations
           /\ \A g \in seen' : base <= g /\ g <= gen
           /\ seen # {} => seen' # {}
<1>1. \A w \in words : shared[w] \in Generations /\ base <= shared[w] /\ shared[w] <= gen
    BY ShareAssumption DEF TypeOK, Memory, Picturing, Complete, Generations
<1>2. \A g \in seen' : g \in seen \/ \E w \in words : g = shared[w]
    BY DEF Read
<1> QED
    BY <1>1, <1>2 DEF Read, TypeOK, Picturing

-----------------------------------------------------------------------------
(* Each action preserves the invariant.                                    *)

LEMMA FoundStep ==
    ASSUME IInv, NEW n \in Slots, Found(n)
    PROVE  IInv'
<1> USE ShareAssumption DEF IInv
<1>1. TypeOK'
    BY DEF TypeOK, Memory, Found, Analyse, StartWrite, Written, drawing, Slots, Generations
<1>2. Memory'
    BY DEF TypeOK, Memory, Found, Analyse, StartWrite, Written, drawing, Generations
<1>3. Picturing'
    BY DEF TypeOK, Memory, Picturing, Found, Analyse, StartWrite, Written, drawing, Complete,
           Generations
<1>4. Indices'
    BY DEF Indices, Found, Analyse, StartWrite, Written, drawing
<1>5. Counting'
    BY DEF TypeOK, Counting, Memory, Found, Analyse, StartWrite, Written, drawing, Slots,
           Generations, Words
<1> QED
    BY <1>1, <1>2, <1>3, <1>4, <1>5

LEMMA ExpireStep ==
    ASSUME IInv, Expire
    PROVE  IInv'
<1> USE ShareAssumption DEF IInv
<1>1. TypeOK'
    BY DEF TypeOK, Memory, Expire, Analyse, StartWrite, Written, drawing, Slots, Generations
<1>2. Memory'
    BY DEF TypeOK, Memory, Expire, Analyse, StartWrite, Written, drawing, Generations
<1>3. Picturing'
    BY DEF TypeOK, Memory, Picturing, Expire, Analyse, StartWrite, Written, drawing, Complete,
           Generations
<1>4. Indices'
    BY DEF Indices, Expire, Analyse, StartWrite, Written, drawing
<1>5. Counting'
    BY DEF TypeOK, Counting, Memory, Expire, Expired, Analyse, StartWrite, Written, drawing,
           Slots, Generations, Words
<1> QED
    BY <1>1, <1>2, <1>3, <1>4, <1>5

LEMMA MissStep ==
    ASSUME IInv, Miss
    PROVE  IInv'
<1> USE ShareAssumption DEF IInv
<1>1. TypeOK'
    BY DEF TypeOK, Miss, Analyse, drawing
<1>2. Memory'
    BY DEF TypeOK, Memory, Miss, Analyse, drawing, Generations
<1>3. Picturing'
    BY DEF Picturing, Miss, drawing, Complete
<1>4. Indices'
    BY DEF Indices, Miss, drawing
<1>5. Counting'
    BY DEF TypeOK, Counting, Miss, Analyse, Expired, drawing
<1> QED
    BY <1>1, <1>2, <1>3, <1>4, <1>5

LEMMA WriteWordStep ==
    ASSUME IInv, NEW w \in Words, WriteWord(w)
    PROVE  IInv'
<1> USE ShareAssumption DEF IInv
<1>1. TypeOK'
    BY DEF TypeOK, WriteWord, Restarted, drawing
<1>2. Memory'
    BY DEF TypeOK, Memory, WriteWord, drawing
<1>3. Picturing'
    BY DEF TypeOK, Memory, Picturing, WriteWord, drawing, Complete, Generations
<1>4. Indices'
    BY DEF Indices, WriteWord, drawing
<1>5. Counting'
    BY DEF TypeOK, Counting, WriteWord, Restarted, drawing
<1> QED
    BY <1>1, <1>2, <1>3, <1>4, <1>5

LEMMA BeginPictureStep ==
    ASSUME IInv, BeginPicture
    PROVE  IInv'
<1> USE ShareAssumption DEF IInv
<1>1. TypeOK'
    BY WordsOfGroup DEF TypeOK, Memory, BeginPicture, inference, Complete, Generations
<1>2. Memory'
    BY DEF Memory, BeginPicture, inference
<1>3. Picturing'
    BY WordsOfGroup DEF TypeOK, Memory, Picturing, Indices, BeginPicture, inference, Complete,
                        detect_count, Generations
<1>4. Indices'
    BY DEF TypeOK, Indices, BeginPicture, inference
<1>5. Counting'
    BY DEF Counting, BeginPicture, inference
<1> QED
    BY <1>1, <1>2, <1>3, <1>4, <1>5

LEMMA TestCountStep ==
    ASSUME IInv, TestCount
    PROVE  IInv'
<1> USE ShareAssumption DEF IInv
<1>a. {Count} \in SUBSET Words
    BY WordsOfGroup
<1>c. /\ detect_count \in 0 .. MaxDet
      /\ gen = base => detect_count = result[base]
  <2>1. shared[Count] \in Generations
      BY WordsOfGroup DEF TypeOK
  <2>2. gen = base => shared[Count] = gen
      BY WordsOfGroup DEF TypeOK, Memory, Picturing, Complete, Generations
  <2> QED
      BY <2>1, <2>2 DEF TypeOK, detect_count
<1>d. \/ obs' = "corner" /\ j < detect_count /\ UNCHANGED j
      \/ obs' = "label" /\ j >= detect_count /\ j' = 0
    BY <1>c DEF TypeOK, TestCount, More
<1>b. /\ seen' \subseteq Generations
      /\ \A g \in seen' : base <= g /\ g <= gen
      /\ seen # {} => seen' # {}
    BY <1>a, ReadStaysFresh DEF TestCount
<1>1. TypeOK'
    BY <1>b, <1>d DEF TypeOK, TestCount, inference
<1>2. Memory'
    BY DEF Memory, TestCount, inference
<1>3. Picturing'
    BY <1>b, <1>c, <1>d DEF TypeOK, Memory, Picturing, Indices, Complete,
       TestCount, inference
<1>4. Indices'
    BY <1>c, <1>d DEF TypeOK, Indices, TestCount, inference
<1>5. Counting'
    BY DEF Counting, TestCount, inference
<1> QED
    BY <1>1, <1>2, <1>3, <1>4, <1>5

LEMMA ReadCornerStep ==
    ASSUME IInv, ReadCorner
    PROVE  IInv'
<1> USE ShareAssumption DEF IInv
<1>a. {TopLeft(j + 1)} \in SUBSET Words
    BY WordsOfGroup DEF TypeOK, Indices, ReadCorner, Slots
<1>b. /\ seen' \subseteq Generations
      /\ \A g \in seen' : base <= g /\ g <= gen
      /\ seen # {} => seen' # {}
    BY <1>a, ReadStaysFresh DEF ReadCorner
<1>1. TypeOK'
    BY <1>b DEF TypeOK, ReadCorner, inference
<1>2. Memory'
    BY DEF Memory, ReadCorner, inference
<1>3. Picturing'
    BY <1>b DEF TypeOK, Memory, Picturing, Indices, Complete, ReadCorner, inference
<1>4. Indices'
    BY DEF TypeOK, Indices, ReadCorner, inference
<1>5. Counting'
    BY DEF Counting, ReadCorner, inference
<1> QED
    BY <1>1, <1>2, <1>3, <1>4, <1>5

LEMMA ReadSizeStep ==
    ASSUME IInv, ReadSize
    PROVE  IInv'
<1> USE ShareAssumption DEF IInv
<1>a. {BottomRight(j + 1), TopLeft(j + 1)} \in SUBSET Words
    BY WordsOfGroup DEF TypeOK, Indices, ReadSize, Slots
<1>b. /\ seen' \subseteq Generations
      /\ \A g \in seen' : base <= g /\ g <= gen
      /\ seen # {} => seen' # {}
    BY <1>a, ReadStaysFresh DEF ReadSize
<1>1. TypeOK'
    BY <1>b DEF TypeOK, ReadSize, inference
<1>2. Memory'
    BY DEF Memory, ReadSize, inference
<1>3. Picturing'
    BY <1>b DEF TypeOK, Memory, Picturing, Indices, Complete, ReadSize, inference
<1>4. Indices'
    BY DEF TypeOK, Indices, ReadSize, inference
<1>5. Counting'
    BY DEF Counting, ReadSize, inference
<1> QED
    BY <1>1, <1>2, <1>3, <1>4, <1>5

LEMMA DrawLabelStep ==
    ASSUME IInv, DrawLabel
    PROVE  IInv'
<1> USE ShareAssumption DEF IInv
<1>a. {Name(labelled)} \in SUBSET Words
    BY WordsOfGroup DEF TypeOK, Indices, DrawLabel, Slots
<1>b. /\ seen' \subseteq Generations
      /\ \A g \in seen' : base <= g /\ g <= gen
      /\ seen # {} => seen' # {}
    BY <1>a, ReadStaysFresh DEF DrawLabel
<1>1. TypeOK'
    BY <1>b DEF TypeOK, DrawLabel, NextLabel, inference
<1>2. Memory'
    BY DEF Memory, DrawLabel, inference
<1>3. Picturing'
    BY <1>b DEF TypeOK, Memory, Picturing, Indices, Complete, DrawLabel, NextLabel, inference
<1>4. Indices'
    BY DEF TypeOK, Indices, DrawLabel, NextLabel, inference
<1>5. Counting'
    BY DEF Counting, DrawLabel, inference
<1> QED
    BY <1>1, <1>2, <1>3, <1>4, <1>5

LEMMA EndPictureStep ==
    ASSUME IInv, EndPicture
    PROVE  IInv'
<1> USE ShareAssumption DEF IInv
<1>1. TypeOK'
    BY DEF TypeOK, EndPicture, ListReset, inference
<1>2. Memory'
    BY DEF Memory, EndPicture, inference
<1>3. Picturing'
    BY DEF Picturing, Complete, EndPicture, inference
<1>4. Indices'
    BY DEF TypeOK, Indices, EndPicture, ListReset, inference
<1>5. Counting'
    BY DEF Counting, EndPicture, inference
<1> QED
    BY <1>1, <1>2, <1>3, <1>4, <1>5

-----------------------------------------------------------------------------
LEMMA InitInvariant ==
    ASSUME Init
    PROVE  IInv
BY ShareAssumption DEF Init, IInv, TypeOK, Memory, Picturing, Indices, Counting,
   Complete, Generations, Words

LEMMA StepInvariant ==
    ASSUME IInv, [Next]_vars
    PROVE  IInv'
<1>1. CASE Inference
    BY <1>1, FoundStep, ExpireStep, MissStep, WriteWordStep DEF Inference
<1>2. CASE BeginPicture
    BY <1>2, BeginPictureStep
<1>3. CASE Picture
    BY <1>3, TestCountStep, ReadCornerStep, ReadSizeStep, DrawLabelStep,
       EndPictureStep DEF Picture
<1>4. CASE UNCHANGED vars
    BY <1>4 DEF vars, inference, drawing, IInv, TypeOK, Memory, Picturing,
       Indices, Counting, Complete
<1> QED
    BY <1>1, <1>2, <1>3, <1>4 DEF Next

LEMMA Invariant == Spec => []IInv
BY InitInvariant, StepInvariant, PTL DEF Spec

-----------------------------------------------------------------------------
(* The types of both threads' state.                                       *)
THEOREM TypeCorrect == Spec => []TypeOK
<1>1. IInv => TypeOK
    BY DEF IInv
<1> QED
    BY <1>1, Invariant, PTL

(* The moving loop bound never takes the drawing thread past the arrays.   *)
THEOREM ArraysSafe == Spec => []InBounds
<1>1. IInv => InBounds
    BY ShareAssumption DEF IInv, TypeOK, Indices, InBounds, Slots
<1> QED
    BY <1>1, Invariant, PTL

(* No picture shows anything older than the last complete result.          *)
THEOREM NeverGoesBack == Spec => []NeverOlder
<1>1. IInv => NeverOlder
    BY DEF IInv, Picturing, NeverOlder
<1> QED
    BY <1>1, Invariant, PTL

(* Without an overlapping write a picture shows one detection, whole.      *)
THEOREM QuietPictureExact == Spec => []ExactWhenQuiet
<1>1. IInv => ExactWhenQuiet
  <2> SUFFICES ASSUME IInv, obs = "label", gen = base
               PROVE  seen = {base} /\ listed = result[base]
      BY DEF ExactWhenQuiet
  <2>1. listed = result[base] /\ seen # {}
      BY DEF IInv, Picturing
  <2>2. \A g \in seen : g = base
      BY DEF IInv, TypeOK, Picturing, Generations
  <2> QED
      BY <2>1, <2>2
<1> QED
    BY <1>1, Invariant, PTL

(* README 0217 holds for every clean_old_box_frames.                       *)
THEOREM OldBoxesExpire == Spec => []OldBoxesCleared
<1>1. IInv => OldBoxesCleared
  <2> SUFFICES ASSUME IInv, pending = {}, empties > 0, empties >= CleanAfter,
                      NEW w \in Words
               PROVE  result[shared[w]] = 0
      BY DEF OldBoxesCleared
  <2>1. shared[w] = gen
      BY DEF IInv, Memory
  <2>2. result[gen] = 0
      BY ShareAssumption DEF IInv, TypeOK, Counting
  <2> QED
      BY <2>1, <2>2
<1> QED
    BY <1>1, Invariant, PTL

-----------------------------------------------------------------------------
(* The shared group implements the abstract held detection.                *)
LEMMA HoldInit ==
    ASSUME Init
    PROVE  Hold!Init
BY WordsOfGroup, ShareAssumption DEF Init, Hold!Init, detect_count, Generations

(* With no write in progress the group is the latest result.               *)
LEMMA CountIsLatest ==
    ASSUME IInv, pending = {}
    PROVE  detect_count = result[gen]
BY WordsOfGroup DEF IInv, Memory, detect_count

HeldCount == IF pending = {} THEN detect_count ELSE result[gen - 1]
HeldMisses == IF pending = {} \/ result[gen] > 0 THEN noBoxCounter ELSE noBoxCounter - 1

LEMMA HoldStep ==
    ASSUME IInv, [Next]_vars
    PROVE  [Hold!Next]_<<HeldCount, HeldMisses>>
<1> USE ShareAssumption
<1>0. IInv'
    BY StepInvariant
<1>1. ASSUME NEW n \in Slots, Found(n)
      PROVE  UNCHANGED <<HeldCount, HeldMisses>>
  <2>1. pending = {} /\ pending' # {} /\ gen' - 1 = gen /\ result'[gen] = result[gen]
        /\ result'[gen'] = n /\ noBoxCounter' = noBoxCounter
      BY <1>1, <1>0 DEF Found, Analyse, StartWrite, Written, Words, IInv, TypeOK, Memory,
                        Generations
  <2>2. detect_count = result[gen]
      BY <2>1, CountIsLatest
  <2> QED
      BY <2>1, <2>2 DEF HeldCount, HeldMisses, Slots
<1>2. ASSUME Expire
      PROVE  UNCHANGED <<HeldCount, HeldMisses>>
  <2>1. pending = {} /\ pending' # {} /\ gen' - 1 = gen /\ result'[gen] = result[gen]
        /\ result'[gen'] = 0 /\ noBoxCounter' - 1 = noBoxCounter
      BY <1>2, <1>0 DEF Expire, Analyse, StartWrite, Written, Words, IInv, TypeOK, Memory,
                        Generations
  <2>2. detect_count = result[gen]
      BY <2>1, CountIsLatest
  <2> QED
      BY <2>1, <2>2 DEF HeldCount, HeldMisses
<1>3. ASSUME Miss
      PROVE  Hold!Keep
  <2>1. pending = {} /\ pending' = {} /\ noBoxCounter' = noBoxCounter + 1
        /\ noBoxCounter + 1 < CleanAfter /\ UNCHANGED <<shared, result>>
      BY <1>3 DEF Miss, Analyse, Expired, IInv, TypeOK
  <2> QED
      BY <2>1 DEF Hold!Keep, detect_count
<1>4. ASSUME NEW w \in Words, WriteWord(w)
      PROVE  Hold!Next \/ UNCHANGED <<HeldCount, HeldMisses>>
  <2>1. CASE pending # {w}
    <3>1. pending # {} /\ pending' # {} /\ UNCHANGED <<gen, result, noBoxCounter>>
        BY <1>4, <2>1 DEF WriteWord
    <3> QED
        BY <3>1 DEF HeldCount, HeldMisses
  <2>2. CASE pending = {w}
    <3>1. pending # {} /\ pending' = {} /\ noBoxCounter' = 0 /\ UNCHANGED <<gen, result>>
        BY <1>4, <2>2 DEF WriteWord, Restarted
    <3>2. detect_count' = result[gen]
        BY <3>1, <1>0, WordsOfGroup DEF IInv, Memory, detect_count
    <3>3. result[gen] \in 0 .. MaxDet
        BY DEF IInv, TypeOK
    <3>4. CASE result[gen] > 0
        BY <3>1, <3>2, <3>3, <3>4 DEF Hold!Next, Hold!Found
    <3>5. CASE result[gen] = 0
      <4>1. noBoxCounter - 1 + 1 >= CleanAfter
          BY <3>1, <3>5 DEF IInv, TypeOK, Counting
      <4> QED
          BY <3>1, <3>2, <3>5, <4>1 DEF Hold!Next, Hold!Expire
    <3> QED
        BY <3>3, <3>4, <3>5
  <2> QED
      BY <2>1, <2>2
<1>5. ASSUME UNCHANGED inference
      PROVE  UNCHANGED <<HeldCount, HeldMisses>>
    BY <1>5 DEF inference, HeldCount, HeldMisses, detect_count
<1>6. CASE Inference
    BY <1>6, <1>1, <1>2, <1>3, <1>4 DEF Inference, Hold!Next, HeldCount, HeldMisses
<1>7. CASE BeginPicture \/ Picture \/ UNCHANGED vars
    BY <1>7, <1>5 DEF BeginPicture, Picture, TestCount, ReadCorner, ReadSize,
       DrawLabel, EndPicture, vars
<1> QED
    BY <1>6, <1>7 DEF Next

(* Every behaviour of the two unlocked threads is one of DetectionHold.    *)
THEOREM SharedGroupHolds == Spec => ImplementsHold
<1>1. IInv /\ [Next]_vars => [Hold!Next]_<<HeldCount, HeldMisses>>
    BY HoldStep
<1> QED
    BY <1>1, HoldInit, Invariant, PTL DEF Spec, ImplementsHold, Hold!Spec, HeldCount, HeldMisses

-----------------------------------------------------------------------------
(* Pictures are numbered up to the latest one.                             *)
NpuType ==
    /\ frames \in 0 .. MaxFrames
    /\ boxes \in [1 .. MaxFrames -> 0 .. MaxDet]
    /\ input \in 0 .. frames /\ ran \in 0 .. frames /\ outputs \in 0 .. frames

LEMMA NpuTypeStep == NpuType /\ [InferenceNext]_allVars => NpuType'
<1> SUFFICES ASSUME NpuType, [InferenceNext]_allVars PROVE NpuType'
    OBVIOUS
<1>1. CASE Turn
  <2>1. PICK failed \in SUBSET Calls :
           /\ frames < MaxFrames
           /\ predict(failed)
           /\ Scene(failed)
           /\ IF boxes'[outputs'] > 0 THEN Found(boxes'[outputs']) ELSE Expire \/ Miss
      BY <1>1 DEF Turn
  <2>2. frames' = frames + 1
      BY <2>1 DEF Found, Expire, Miss, Analyse
  <2>3. boxes' \in [1 .. MaxFrames -> 0 .. MaxDet]
    <3>1. PICK n \in 0 .. MaxDet : boxes' = [boxes EXCEPT ![picture] = n]
        BY <2>1, ShareAssumption DEF Scene
    <3> QED
        BY <3>1 DEF NpuType
  <2>4. input' \in 0 .. frames' /\ ran' \in 0 .. frames' /\ outputs' \in 0 .. frames'
      BY <2>1, <2>2, ShareAssumption DEF predict, RunOn, picture, NpuType
  <2> QED
      BY <2>1, <2>2, <2>3, <2>4, ShareAssumption DEF NpuType
<1>2. CASE Copy \/ Draw \/ UNCHANGED allVars
  <2>1. UNCHANGED npu /\ frames' = frames
      BY <1>2 DEF Copy, Draw, allVars, vars, npu, inference, WriteWord, BeginPicture, Picture,
                  TestCount, ReadCorner, ReadSize, DrawLabel, EndPicture
  <2> QED
      BY <2>1 DEF npu, NpuType
<1> QED
    BY <1>1, <1>2 DEF InferenceNext

(* Inference fills the group as DetectionShare allows: every theorem above *)
(* is one about the program with its failing NPU calls, too.               *)
THEOREM InferenceShares == InferenceSpec => Spec
<1>1. InferenceInit => Init /\ NpuType
    BY ShareAssumption DEF InferenceInit, Init, NpuType
<1>2. NpuType /\ NpuType' /\ [InferenceNext]_allVars => [Next]_vars
  <2> SUFFICES ASSUME NpuType, NpuType', [InferenceNext]_allVars PROVE [Next]_vars
      OBVIOUS
  <2>1. CASE Turn
    <3>1. PICK failed \in SUBSET Calls :
             /\ predict(failed)
             /\ IF boxes'[outputs'] > 0 THEN Found(boxes'[outputs']) ELSE Expire \/ Miss
        BY <2>1 DEF Turn
    <3>2. boxes'[outputs'] \in 0 .. MaxDet
        BY <3>1, ShareAssumption DEF NpuType, predict
    <3>3. boxes'[outputs'] > 0 => boxes'[outputs'] \in Slots
        BY <3>2, ShareAssumption DEF Slots
    <3> QED
        BY <3>1, <3>3 DEF Next, Inference
  <2>2. CASE Copy
      BY <2>2 DEF Copy, Next, Inference
  <2>3. CASE Draw
      BY <2>3 DEF Draw, Next
  <2>4. CASE UNCHANGED allVars
      BY <2>4 DEF allVars
  <2> QED
      BY <2>1, <2>2, <2>3, <2>4 DEF InferenceNext
<1> QED
    BY <1>1, <1>2, NpuTypeStep, PTL DEF InferenceSpec, Spec

(* What the NPU and `outputs' hold is no older than the last good turn,    *)
(* and neither is anything written since.                                  *)
NpuInv ==
    /\ input \in Nat /\ ran \in Nat /\ outputs \in Nat /\ lastGood \in Nat
    /\ lastGood <= frames /\ lastGood <= input /\ lastGood <= ran /\ lastGood <= outputs
    /\ written \in [Generations -> [picture : Nat, good : Nat]]
    /\ \A g \in Generations : g <= gen => written[g].good <= lastGood
    /\ \A g, h \in Generations : h <= g /\ g <= gen => written[h].good <= written[g].picture

(* The calls of a turn keep that, whichever of them fail.                  *)
LEMMA TurnKeepsNpu ==
    ASSUME IInv, NpuInv, Turn
    PROVE  NpuInv'
<1>1. PICK failed \in SUBSET Calls :
         /\ frames < MaxFrames
         /\ predict(failed)
         /\ IF boxes'[outputs'] > 0 THEN Found(boxes'[outputs']) ELSE Expire \/ Miss
         /\ lastGood' = IF failed = {} THEN picture ELSE lastGood
         /\ written' = IF gen' = gen THEN written
                       ELSE [written EXCEPT ![gen'] = [picture |-> outputs', good |-> lastGood']]
    BY DEF Turn
<1>2. frames \in Nat /\ gen \in Generations /\ gen <= frames /\ MaxFrames \in Nat
    BY ShareAssumption DEF IInv, TypeOK, Memory, Generations
<1>3. frames' = frames + 1 /\ (gen' = gen \/ gen' = gen + 1)
    BY <1>1 DEF Found, Expire, Miss, Analyse, StartWrite
<1>4. /\ input' \in Nat /\ ran' \in Nat /\ outputs' \in Nat /\ lastGood' \in Nat
      /\ lastGood' <= frames' /\ lastGood' <= input' /\ lastGood' <= ran' /\ lastGood' <= outputs'
      /\ lastGood <= lastGood'
    BY <1>1, <1>2, <1>3 DEF predict, RunOn, picture, NpuInv
<1>5. CASE gen' = gen
    BY <1>1, <1>2, <1>3, <1>4, <1>5 DEF NpuInv
<1>6. CASE gen' = gen + 1
  <2>1. gen + 1 \in Generations
      BY <1>1, <1>2 DEF Generations
  <2>2. written' = [written EXCEPT ![gen + 1] = [picture |-> outputs', good |-> lastGood']]
      BY <1>1, <1>2, <1>6 DEF Generations
  <2>3. written' \in [Generations -> [picture : Nat, good : Nat]]
      BY <1>4, <2>2 DEF NpuInv
  <2>4. /\ written'[gen + 1].picture = outputs' /\ written'[gen + 1].good = lastGood'
        /\ \A g \in Generations : g <= gen => written'[g] = written[g]
      BY <2>1, <2>2, <1>2 DEF NpuInv, Generations
  <2>5. \A g \in Generations : g <= gen + 1 => written'[g].good <= lastGood'
    <3> TAKE g \in Generations
    <3> HAVE g <= gen + 1
    <3>1. CASE g <= gen
      <4>1. written'[g] = written[g] /\ written[g].good <= lastGood /\ written[g].good \in Nat
          BY <2>4, <3>1 DEF NpuInv
      <4> QED
          BY <1>4, <4>1 DEF NpuInv
    <3>2. CASE g = gen + 1
        BY <1>4, <2>4, <3>2
    <3> QED
        BY <1>2, <3>1, <3>2 DEF Generations
  <2>6. \A g, h \in Generations :
           h <= g /\ g <= gen + 1 => written'[h].good <= written'[g].picture
    <3> TAKE g, h \in Generations
    <3> HAVE h <= g /\ g <= gen + 1
    <3>1. CASE g <= gen
      <4>1. h <= gen
          BY <1>2, <3>1 DEF Generations
      <4> QED
          BY <2>4, <3>1, <4>1 DEF NpuInv
    <3>2. CASE g = gen + 1
      <4>1. written'[h].good <= lastGood' /\ written'[h].good \in Nat
          BY <2>3, <2>5, <3>2
      <4>2. written'[g].picture = outputs'
          BY <2>4, <3>2
      <4> QED
          BY <1>4, <4>1, <4>2
    <3> QED
        BY <1>2, <3>1, <3>2 DEF Generations
  <2> QED
      BY <1>4, <1>6, <2>3, <2>5, <2>6 DEF NpuInv
<1> QED
    BY <1>3, <1>5, <1>6

(* What is drawn is no older than the last turn without a failure before   *)
(* the write that was complete when the drawing began.                     *)
THEOREM StaleResultsEnd == InferenceSpec => []DrawnRecent
<1>1. InferenceInit => NpuInv
    BY ShareAssumption DEF InferenceInit, Init, NpuInv, Generations
<1>2. IInv /\ NpuInv /\ [InferenceNext]_allVars => NpuInv'
  <2> SUFFICES ASSUME IInv, NpuInv, [InferenceNext]_allVars PROVE NpuInv'
      OBVIOUS
  <2>1. CASE Copy \/ Draw \/ UNCHANGED allVars
    <3>1. UNCHANGED npu /\ gen' = gen /\ frames' = frames
        BY <2>1 DEF Copy, Draw, allVars, vars, npu, inference, WriteWord, BeginPicture, Picture,
                    TestCount, ReadCorner, ReadSize, DrawLabel, EndPicture
    <3> QED
        BY <3>1 DEF npu, NpuInv
  <2> QED
      BY <2>1, TurnKeepsNpu DEF InferenceNext
<1>3. IInv /\ NpuInv => DrawnRecent
  <2> SUFFICES ASSUME IInv, NpuInv, NEW g \in seen
               PROVE  written[g].picture >= written[base].good
      BY DEF DrawnRecent
  <2>1. g \in Generations /\ base \in Generations /\ base <= g /\ g <= gen
      BY DEF IInv, TypeOK, Picturing
  <2>2. written[base].good <= written[g].picture
      BY <2>1 DEF NpuInv
  <2>3. written[base].good \in Nat /\ written[g].picture \in Nat
      BY <2>1 DEF NpuInv
  <2> QED
      BY <2>2, <2>3
<1> QED
    BY <1>1, <1>2, <1>3, InferenceShares, Invariant, PTL DEF InferenceSpec

=============================================================================
