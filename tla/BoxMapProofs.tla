---------------------------- MODULE BoxMapProofs ----------------------------
(***************************************************************************)
(* The mapping of a box to the video picture is right for every size of    *)
(* the pictures.  The invariant only records what each phase has computed; *)
(* the work is in the two lemmas about Mapped.                             *)
(***************************************************************************)
EXTENDS BoxMap, TLAPS

(* Multiplication by the scale keeps an order.                             *)
LEMMA Monotone ==
    ASSUME NEW m \in Int, NEW n \in Int, NEW s \in Nat, m <= n
    PROVE  m * s <= n * s
  OBVIOUS

(* It distributes over a sum and a difference.                             *)
LEMMA Distributes ==
    ASSUME NEW m \in Int, NEW n \in Int, NEW s \in Nat
    PROVE  /\ (m + n) * s = m * s + n * s
           /\ (m - n) * s = m * s - n * s
  OBVIOUS

(* The two paddings are one number, and what the assumption says of it.    *)
LEMMA Sizes ==
    /\ Scale \in Nat /\ Padding \in Nat /\ FillPadding = Padding
    /\ Padding + InputHeight <= ModelSize
    /\ VideoWidth = ModelSize * Scale /\ VideoHeight = InputHeight * Scale
  BY BoxMapAssumption DEF Scale, Padding, FillPadding

(* Columns are magnified exactly: the right edge is never cut.             *)
LEMMA ColumnsExact ==
    ASSUME NEW p \in Boxes, p.left <= p.right
    PROVE  /\ Mapped(p).left = p.left * Scale /\ Mapped(p).right = p.right * Scale
           /\ 0 <= Mapped(p).left /\ Mapped(p).left <= Mapped(p).right
           /\ Mapped(p).right <= VideoWidth
<1>1. p.left \in Nat /\ p.right \in Nat /\ p.right <= ModelSize /\ ModelSize \in Nat
  BY BoxMapAssumption DEF Boxes, Coordinate
<1>2. /\ 0 * Scale <= p.left * Scale /\ p.left * Scale <= p.right * Scale
      /\ p.right * Scale <= VideoWidth
  BY <1>1, Sizes, Monotone
<1>3. p.left * Scale + (p.right - p.left) * Scale = p.right * Scale
  BY <1>1, Sizes, Distributes
<1>4. VideoWidth \in Int /\ p.left * Scale \in Int /\ (p.right - p.left) * Scale \in Int
  BY <1>1, Sizes, BoxMapAssumption
<1>5. Cut(p.left * Scale, (p.right - p.left) * Scale, VideoWidth)
        = (p.right - p.left) * Scale
  BY <1>2, <1>3, <1>4 DEF Cut
<1>6. QED
  BY <1>1, <1>2, <1>3, <1>5, Sizes DEF Mapped

(* The upper edge is the box's, or the picture's when the box is above it. *)
LEMMA UpperEdge ==
    ASSUME NEW p \in Boxes
    PROVE  \E t \in Nat :
              /\ t >= p.top - Padding /\ (t = 0 \/ t = p.top - Padding)
              /\ Mapped(p).top = t * Scale
              /\ Mapped(p).bottom = t * Scale
                    + Cut(t * Scale, (p.bottom - p.top) * Scale, VideoHeight)
<1>1. p.top \in Int /\ p.bottom \in Int /\ Padding \in Nat
  BY Sizes DEF Boxes, Coordinate
<1>2. Start(p.top - Padding) \in Nat
  BY <1>1 DEF Start
<1>3. WITNESS Start(p.top - Padding) \in Nat
<1>4. QED
  BY <1>1 DEF Start, Mapped, Low

(* Each camera row of the box, magnified, is between the two edges.        *)
LEMMA RowsCovered ==
    ASSUME NEW p \in Boxes, p.top <= p.bottom,
           NEW r \in p.top .. p.bottom - 1, r - Padding \in 0 .. InputHeight - 1
    PROVE  /\ Mapped(p).top <= (r - Padding) * Scale
           /\ (r - Padding + 1) * Scale <= Mapped(p).bottom
<1>1. p.top \in Int /\ p.bottom \in Int /\ r \in Int /\ InputHeight \in Nat
      /\ Scale \in Nat /\ Padding \in Nat /\ VideoHeight = InputHeight * Scale
  BY Sizes, BoxMapAssumption DEF Boxes, Coordinate
<1>2. PICK t \in Nat :
              /\ t >= p.top - Padding /\ (t = 0 \/ t = p.top - Padding)
              /\ Mapped(p).top = t * Scale
              /\ Mapped(p).bottom = t * Scale
                    + Cut(t * Scale, (p.bottom - p.top) * Scale, VideoHeight)
  BY UpperEdge
<1>3. t * Scale <= (r - Padding) * Scale
  BY <1>1, <1>2, Monotone
<1>4. t * Scale + (p.bottom - p.top) * Scale = (t + (p.bottom - p.top)) * Scale
  BY <1>1, Distributes
<1>5. (r - Padding + 1) * Scale <= (t + (p.bottom - p.top)) * Scale
  BY <1>1, <1>2, Monotone
<1>6. (r - Padding + 1) * Scale <= VideoHeight
  BY <1>1, Monotone
<1>7. t * Scale \in Int /\ (p.bottom - p.top) * Scale \in Int /\ VideoHeight \in Int
  BY <1>1
<1>8. (r - Padding + 1) * Scale <= Mapped(p).bottom
  BY <1>2, <1>4, <1>5, <1>6, <1>7 DEF Cut
<1>9. QED
  BY <1>2, <1>3, <1>8

(* A box that begins no lower than the picture's end stays in the picture. *)
LEMMA RowsInPicture ==
    ASSUME NEW p \in Boxes, p.top <= p.bottom, p.top <= Padding + InputHeight
    PROVE  /\ 0 <= Mapped(p).top /\ Mapped(p).top <= Mapped(p).bottom
           /\ Mapped(p).bottom <= VideoHeight
<1>1. p.top \in Int /\ p.bottom \in Int /\ InputHeight \in Nat
      /\ Scale \in Nat /\ Padding \in Nat /\ VideoHeight = InputHeight * Scale
  BY Sizes, BoxMapAssumption DEF Boxes, Coordinate
<1>2. PICK t \in Nat :
              /\ t >= p.top - Padding /\ (t = 0 \/ t = p.top - Padding)
              /\ Mapped(p).top = t * Scale
              /\ Mapped(p).bottom = t * Scale
                    + Cut(t * Scale, (p.bottom - p.top) * Scale, VideoHeight)
  BY UpperEdge
<1>3. 0 * Scale <= t * Scale /\ t * Scale <= VideoHeight
  BY <1>1, <1>2, Monotone
<1>4. 0 * Scale <= (p.bottom - p.top) * Scale
  BY <1>1, Monotone
<1>5. t * Scale \in Int /\ (p.bottom - p.top) * Scale \in Int /\ VideoHeight \in Int
      /\ 0 * Scale = 0
  BY <1>1
<1>6. QED
  BY <1>2, <1>3, <1>4, <1>5 DEF Cut

-----------------------------------------------------------------------------
(* What each phase has left behind.                                        *)
Computed ==
    /\ phase # "fill" /\ InputWidth = ModelSize => picture = Filled
    /\ phase \in {"map", "draw"} =>
          box \in Boxes /\ box.left <= box.right /\ box.top <= box.bottom
    /\ phase = "draw" => rect = Mapped(box)

(* The phases come in the order of the program.                            *)
LEMMA AlwaysComputed == Spec => []Computed
<1>1. Init => Computed
  BY DEF Init, Computed
<1>2. Computed /\ [Next]_vars => Computed'
  <2> SUFFICES ASSUME Computed, [Next]_vars PROVE Computed'
    OBVIOUS
  <2>1. CASE Fill
    BY <2>1 DEF Fill, Computed, Filled
  <2>2. CASE Detect
    BY <2>2 DEF Detect, Computed, Filled
  <2>3. CASE Map
    BY <2>3 DEF Map, Computed, Mapped, Filled
  <2>4. CASE UNCHANGED vars
    BY <2>4 DEF vars, Computed, Mapped, Filled
  <2>5. QED
    BY <2>1, <2>2, <2>3, <2>4 DEF Next
<1>3. QED
  BY <1>1, <1>2, PTL DEF Spec

(* The rectangle drawn for a detection covers all of it that the camera    *)
(* saw, for all sizes of the three pictures.                               *)
THEOREM DrawnCovers == Spec => []CoversObject
<1>1. Computed => CoversObject
  <2> SUFFICES ASSUME Computed, phase = "draw", InputWidth = ModelSize
               PROVE  /\ rect.left = box.left * Scale /\ rect.right = box.right * Scale
                      /\ \A r \in box.top .. box.bottom - 1 :
                            picture[r] # Grey => /\ rect.top <= (picture[r] - 1) * Scale
                                                 /\ picture[r] * Scale <= rect.bottom
    BY DEF CoversObject
  <2>1. /\ picture = Filled /\ rect = Mapped(box) /\ box \in Boxes
        /\ box.left <= box.right /\ box.top <= box.bottom
    BY DEF Computed
  <2>2. rect.left = box.left * Scale /\ rect.right = box.right * Scale
    BY <2>1, ColumnsExact
  <2>3. ASSUME NEW r \in box.top .. box.bottom - 1, picture[r] # Grey
        PROVE  rect.top <= (picture[r] - 1) * Scale /\ picture[r] * Scale <= rect.bottom
    <3>1. r \in 0 .. ModelSize - 1 /\ r \in Int
      BY <2>1, BoxMapAssumption DEF Boxes, Coordinate
    <3>2. picture[r] = r - Padding + 1 /\ r - Padding \in 0 .. InputHeight - 1
      BY <2>1, <2>3, <3>1, Sizes, BoxMapAssumption DEF Filled, Grey
    <3>3. picture[r] - 1 = r - Padding
      BY <3>1, <3>2, Sizes
    <3>4. QED
      BY <2>1, <3>2, <3>3, RowsCovered
  <2>4. QED
    BY <2>2, <2>3
<1>2. QED
  BY <1>1, AlwaysComputed, PTL

(* It is a rectangle of the video picture, unless the box begins below the *)
(* camera's part of the model's picture.                                   *)
THEOREM DrawnInside == Spec => []DrawnInPicture
<1>1. Computed => DrawnInPicture
  BY ColumnsExact, RowsInPicture DEF Computed, DrawnInPicture
<1>2. QED
  BY <1>1, AlwaysComputed, PTL

=============================================================================
