-------------------------- MODULE YoloDecodeProofs --------------------------
(***************************************************************************)
(* process_u8 finds what it should in outputs of any size, for any number  *)
(* of branches, anchors and classes and any quantization of numbers in     *)
(* [0, 1]: the candidates are, in the order of the scan, exactly the cells *)
(* the test on floats would accept.                                        *)
(***************************************************************************)
EXTENDS YoloDecode, SequenceTheorems, TLAPS

Bytes == [0 .. PropSize - 1 -> 0 .. 255]

(* The cell the loops are at.                                              *)
Cur == [b |-> b, a |-> a, i |-> i, j |-> j]

Types ==
    /\ content \in [Cell -> Bytes]
    /\ b \in 1 .. Len(Strides) + 1 /\ a \in Nat /\ i \in Nat /\ j \in Nat
    /\ b \in Branch => Cur \in Cell
    /\ phase \in {"cell", "class"} /\ (phase = "class" => b \in Branch)
    /\ boxes \in Seq(Int) /\ boxScores \in Seq(Int) /\ classId \in Seq(Class)
    /\ Len(boxScores) = Len(classId) /\ Len(boxes) = 4 * Len(classId)

(* Of the classes before k maxClassId is the first of the best.            *)
FirstBest(bytes, class, last) ==
    \A m \in 0 .. last :
        IF m < class THEN bytes[5 + m] < bytes[5 + class]
                     ELSE bytes[5 + m] <= bytes[5 + class]

ClassLoop ==
    phase = "class" =>
        /\ k \in 1 .. Classes /\ maxClassId \in 0 .. k - 1
        /\ maxClassProbs = content[Cur][5 + maxClassId]
        /\ FirstBest(content[Cur], maxClassId, k - 1)

(* Candidate n is what cell c gives.                                       *)
Candidate(n, c) ==
    /\ classId[n] \in Class
    /\ boxScores[n] = Dequantize(content[c][4], c.b) * Dequantize(content[c][5 + classId[n]], c.b)
    /\ FirstBest(content[c], classId[n], Classes - 1)

Boxed(x, y, w, h, c) ==
    /\ Near(x + w \div 2, c.j, Strides[c.b])
    /\ Near(y + h \div 2, c.i, Strides[c.b])
    /\ 0 <= w /\ w <= 8 * Anchors[c.b][c.a + 1].w * (ScaleDen * ScaleDen)
    /\ 0 <= h /\ h <= 8 * Anchors[c.b][c.a + 1].h * (ScaleDen * ScaleDen)

BoxOf(n, c) ==
    Boxed(boxes[4 * n - 3], boxes[4 * n - 2], boxes[4 * n - 1], boxes[4 * n], c)

(* Candidate n comes from s[n], and no wanted cell passed is missing.      *)
Maps(s) ==
    /\ s \in [1 .. Len(classId) -> Cell]
    /\ \A m, n \in 1 .. Len(classId) : m < n => Before(s[m], s[n])
    /\ \A n \in 1 .. Len(classId) : Wanted(s[n]) /\ Before(s[n], Cur)
    /\ \A n \in 1 .. Len(classId) : Candidate(n, s[n]) /\ BoxOf(n, s[n])
    /\ \A c \in Cell : Wanted(c) /\ Before(c, Cur)
                          => \E n \in 1 .. Len(classId) : s[n] = c

IInv == Types /\ ClassLoop /\ \E s : Maps(s)

-----------------------------------------------------------------------------
(* A flat offset is taken apart again by division and remainder.           *)
LEMMA DivMod ==
    ASSUME NEW q \in Nat, NEW d \in Nat \ {0}, NEW r \in 0 .. d - 1
    PROVE  (q * d + r) \div d = q /\ (q * d + r) % d = r
OBVIOUS

LEMMA TimesMonotone ==
    ASSUME NEW x \in Int, NEW y \in Int, NEW d \in Nat, x <= y
    PROVE  x * d <= y * d /\ x * d \in Int /\ y * d \in Int
OBVIOUS

LEMMA GridPositive ==
    ASSUME NEW n \in Branch
    PROVE  GridH(n) \in Nat \ {0} /\ GridW(n) \in Nat \ {0} /\ Strides[n] \in Nat \ {0}
<1>1. Strides[n] \in Nat \ {0}
  BY DecodeAssumption, ElementOfSeq DEF Branch
<1>2. /\ Strides[n] <= Height /\ Strides[n] <= Width /\ Height \in Nat /\ Width \in Nat
  BY DecodeAssumption
<1>3. \A x \in Nat, d \in Nat \ {0} : d <= x => x \div d \in Nat \ {0}
  OBVIOUS
<1>4. QED
  BY <1>1, <1>2, <1>3 DEF GridH, GridW

LEMMA CellFields ==
    ASSUME NEW c \in Cell
    PROVE  /\ c.b \in Branch /\ c.a \in 0 .. AnchorPerBranch - 1
           /\ c.i \in 0 .. GridH(c.b) - 1 /\ c.j \in 0 .. GridW(c.b) - 1
           /\ c = [b |-> c.b, a |-> c.a, i |-> c.i, j |-> c.j]
<1>1. PICK n \in Branch : c \in [b : {n}, a : 0 .. AnchorPerBranch - 1,
                                 i : 0 .. GridH(n) - 1, j : 0 .. GridW(n) - 1]
  BY DEF Cell
<1>2. QED
  BY <1>1

LEMMA CellFromFields ==
    ASSUME NEW x \in Branch, NEW y \in 0 .. AnchorPerBranch - 1,
           NEW z \in 0 .. GridH(x) - 1, NEW t \in 0 .. GridW(x) - 1
    PROVE  [b |-> x, a |-> y, i |-> z, j |-> t] \in Cell
<1>1. [b |-> x, a |-> y, i |-> z, j |-> t] \in
        [b : {x}, a : 0 .. AnchorPerBranch - 1, i : 0 .. GridH(x) - 1, j : 0 .. GridW(x) - 1]
  OBVIOUS
<1>2. QED
  BY <1>1 DEF Cell

LEMMA CurFields ==
    ASSUME Types, b \in Branch
    PROVE  /\ a \in 0 .. AnchorPerBranch - 1
           /\ i \in 0 .. GridH(b) - 1 /\ j \in 0 .. GridW(b) - 1
           /\ Cur \in Cell
<1>1. Cur \in Cell
  BY DEF Types
<1>2. Cur.b = b /\ Cur.a = a /\ Cur.i = i /\ Cur.j = j
  BY DEF Cur
<1>3. QED
  BY <1>1, <1>2, CellFields

LEMMA CurBytes ==
    ASSUME Types, b \in Branch
    PROVE  content[Cur] \in [0 .. PropSize - 1 -> 0 .. 255]
<1>1. content \in [Cell -> Bytes] /\ Cur \in Cell
  BY DEF Types
<1>2. QED
  BY <1>1 DEF Bytes

(* The byte at Offset(p) is byte p of the cell the loops are at.           *)
LEMMA AtCell ==
    ASSUME Types, b \in Branch, NEW p \in 0 .. PropSize - 1
    PROVE  At(p) = content[Cur][p] /\ content[Cur][p] \in 0 .. 255
<1> DEFINE H == GridH(b)
           W == GridW(b)
           len == H * W
           r == i * W + j
           plane == PropSize * a + p
<1>1. H \in Nat \ {0} /\ W \in Nat \ {0} /\ PropSize \in Nat \ {0}
  BY GridPositive, DecodeAssumption DEF PropSize
<1>2. a \in Nat /\ i \in 0 .. H - 1 /\ j \in 0 .. W - 1
  BY CurFields DEF Types
<1> HIDE DEF H, W
<1>3. len \in Nat \ {0} /\ r \in 0 .. len - 1
  <2>1. len \in Nat \ {0} /\ i * W \in Nat
    BY <1>1, <1>2
  <2>2. i * W <= (H - 1) * W
    BY <1>1, <1>2, TimesMonotone
  <2>3. (H - 1) * W = len - W
    BY <1>1
  <2>4. QED
    BY <1>1, <1>2, <2>1, <2>2, <2>3
<1>4. r \div W = i /\ r % W = j
  BY <1>1, <1>2, DivMod
<1>5. plane \in Nat /\ plane \div PropSize = a /\ plane % PropSize = p
  <2>1. PropSize * a = a * PropSize /\ a * PropSize \in Nat
    BY <1>1, <1>2
  <2>2. QED
    BY <1>1, <1>2, <2>1, DivMod
<1>6. Offset(p) = plane * len + r
  BY DEF Offset, H, W
<1> HIDE DEF len, r, plane
<1>7. Offset(p) \div len = plane /\ Offset(p) % len = r
  <2>1. (plane * len + r) \div len = plane /\ (plane * len + r) % len = r
    BY <1>3, <1>5, DivMod
  <2>2. QED
    BY <1>6, <2>1
<1>8. Input(Offset(p)) = content[[b |-> b, a |-> a, i |-> i, j |-> j]][p]
  <2>1. Input(Offset(p)) = content[[b |-> b, a |-> (Offset(p) \div len) \div PropSize,
                                    i |-> (Offset(p) % len) \div W,
                                    j |-> (Offset(p) % len) % W]]
                                  [(Offset(p) \div len) % PropSize]
    BY Zenon DEF Input, len, H, W
  <2>2. QED
    BY <1>4, <1>5, <1>7, <2>1
<1>9. content[Cur][p] \in 0 .. 255
  BY CurBytes
<1>10. QED
  BY <1>8, <1>9 DEF At, Cur

(* A dequantized byte is at most one, and hardly below zero.               *)
LEMMA Quantized ==
    ASSUME NEW q \in 0 .. 255, NEW n \in Branch
    PROVE  /\ Dequantize(q, n) \in Int /\ Dequantize(q, n) <= ScaleDen
           /\ 0 <= 10 * Dequantize(q, n) + ScaleDen
<1> DEFINE zp == ZeroPoint[n]
           sn == ScaleNum[n]
<1>1. /\ zp \in 0 .. 255 /\ sn \in Nat \ {0} /\ ScaleDen \in Nat \ {0}
      /\ (255 - zp) * sn <= ScaleDen
      /\ 10 * zp * sn < ScaleDen
  BY DecodeAssumption, Zenon
<1>0. Dequantize(q, n) = (q - zp) * sn
  BY DEF Dequantize
<1> HIDE DEF zp, sn
<1>2. (q - zp) * sn <= (255 - zp) * sn
  BY <1>1, TimesMonotone
<1>3. (0 - zp) * sn <= (q - zp) * sn
  BY <1>1, TimesMonotone
<1>4. 10 * ((0 - zp) * sn) = 0 - 10 * zp * sn
  BY <1>1
<1>5. QED
  BY <1>0, <1>1, <1>2, <1>3, <1>4

(* The threshold on bytes is not above what the one on floats asks for.    *)
LEMMA Prefilter ==
    ASSUME content \in [Cell -> Bytes], NEW c \in Cell, Wanted(c)
    PROVE  content[c][4] >= ThresholdByte(c.b)
<1>1. PICK n \in Class : 100 * (Dequantize(content[c][4], c.b) * Dequantize(content[c][5 + n], c.b))
                            > Threshold * (ScaleDen * ScaleDen)
  BY DEF Wanted
<1> DEFINE q == content[c][4]
           zp == ZeroPoint[c.b]
           sn == ScaleNum[c.b]
           x == Dequantize(q, c.b)
           y == Dequantize(content[c][5 + n], c.b)
           d == ScaleDen
<1>2. q \in 0 .. 255 /\ content[c][5 + n] \in 0 .. 255
  <2>1. 4 \in 0 .. PropSize - 1 /\ 5 + n \in 0 .. PropSize - 1
    BY DecodeAssumption DEF PropSize, Class
  <2>2. content[c] \in [0 .. PropSize - 1 -> 0 .. 255]
    BY DEF Bytes
  <2>3. QED
    BY <2>1, <2>2
<1>c. c.b \in Branch
  BY CellFields
<1>3. /\ x \in Int /\ y \in Int /\ x <= d /\ y <= d /\ d \in Nat \ {0}
      /\ 0 <= 10 * x + d /\ 0 <= 10 * y + d
  BY <1>2, <1>c, Quantized, DecodeAssumption
<1>4. 100 * (x * y) > Threshold * (d * d) /\ Threshold \in 1 .. 100
  BY <1>1, DecodeAssumption
<1>5. zp \in 0 .. 255 /\ sn \in Nat \ {0} /\ x = (q - zp) * sn
  BY <1>c, DecodeAssumption DEF Dequantize
<1>6. ThresholdByte(c.b) = LET t == (Threshold * d) \div (100 * sn) + zp
                      IN IF t >= 255 THEN 255 ELSE t
  BY DEF ThresholdByte
<1> HIDE DEF q, x, y, d, zp, sn
<1>7. 0 < x /\ 0 < y
  <2>1. d * d \in Int /\ Threshold * (d * d) >= d * d /\ d * d > 0 /\ x * y \in Int
    BY <1>3, <1>4
  <2>2. ~(x <= 0 /\ y >= 0) /\ ~(x >= 0 /\ y <= 0)
    BY <1>3, <1>4, <2>1
  <2>3. ~(x < 0 /\ y < 0)
    <3>1. SUFFICES ASSUME x < 0, y < 0
                   PROVE  FALSE
      OBVIOUS
    <3>2. (-(10 * x)) * (-(10 * y)) = 100 * (x * y)
      BY <1>3
    <3>3. (-(10 * x)) * (-(10 * y)) <= d * (-(10 * y))
      BY <1>3, <3>1, TimesMonotone
    <3>4. (-(10 * y)) * d <= d * d
      BY <1>3, <3>1, TimesMonotone
    <3>5. QED
      BY <1>3, <1>4, <2>1, <3>2, <3>3, <3>4
  <2>4. QED
    BY <1>3, <2>2, <2>3
<1>8. 100 * x > Threshold * d
  <2>1. x * y <= x * d
    BY <1>3, <1>7
  <2>2. (100 * x) * d > (Threshold * d) * d
    BY <1>3, <1>4, <2>1
  <2>3. QED
    BY <1>3, <1>4, <2>2
<1> DEFINE u == Threshold * d
           v == 100 * sn
           t == u \div v
<1>9. (q - zp) * v > u
  BY <1>2, <1>5, <1>8
<1>10. u \in Int /\ v \in Nat \ {0}
  BY <1>3, <1>4, <1>5
<1>11. ThresholdByte(c.b) = IF t + zp >= 255 THEN 255 ELSE t + zp
  BY <1>6
<1> HIDE DEF u, v
<1>12. t \in Int /\ t * v <= u
  BY <1>10
<1>13. q - zp >= t
  BY <1>2, <1>5, <1>9, <1>10, <1>12
<1>14. QED
  BY <1>2, <1>5, <1>11, <1>12, <1>13 DEF q

-----------------------------------------------------------------------------
(* The loops go to the next cell of the scan and leave none out.           *)
LEMMA AdvanceScan ==
    ASSUME Types, b \in Branch, Advance
    PROVE  /\ b' \in 1 .. Len(Strides) + 1 /\ a' \in Nat /\ i' \in Nat /\ j' \in Nat
           /\ b' \in Branch => Cur' \in Cell
           /\ \A c \in Cell : Before(c, Cur') <=> Before(c, Cur) \/ c = Cur
<1>1. /\ a \in 0 .. AnchorPerBranch - 1
      /\ i \in 0 .. GridH(b) - 1 /\ j \in 0 .. GridW(b) - 1
  BY CurFields
<1>2. /\ b \in Nat /\ Len(Strides) \in Nat /\ AnchorPerBranch \in Nat \ {0}
      /\ GridH(b) \in Nat \ {0} /\ GridW(b) \in Nat \ {0}
  BY GridPositive, DecodeAssumption, LenProperties DEF Branch
<1> DEFINE lastJ == j + 1 = GridW(b)
           lastI == lastJ /\ i + 1 = GridH(b)
           lastA == lastI /\ a + 1 = AnchorPerBranch
<1>3. /\ j' = IF lastJ THEN 0 ELSE j + 1
      /\ i' = IF lastI THEN 0 ELSE IF lastJ THEN i + 1 ELSE i
      /\ a' = IF lastA THEN 0 ELSE IF lastI THEN a + 1 ELSE a
      /\ b' = IF lastA THEN b + 1 ELSE b
  BY DEF Advance
<1>4. /\ b' \in 1 .. Len(Strides) + 1 /\ a' \in 0 .. AnchorPerBranch - 1
      /\ i' \in Nat /\ j' \in Nat
  BY <1>1, <1>2, <1>3 DEF Branch
<1>5. ASSUME b' \in Branch
      PROVE  Cur' \in Cell
  <2>1. i' \in 0 .. GridH(b') - 1 /\ j' \in 0 .. GridW(b') - 1
    <3>1. CASE lastA
      <4>1. GridH(b') \in Nat \ {0} /\ GridW(b') \in Nat \ {0}
        BY <1>5, GridPositive
      <4>2. QED
        BY <1>3, <3>1, <4>1
    <3>2. CASE ~lastA
      <4>1. b' = b
        BY <1>3, <3>2
      <4>2. i' \in 0 .. GridH(b) - 1 /\ j' \in 0 .. GridW(b) - 1
        BY <1>1, <1>2, <1>3, <3>2
      <4>3. QED
        BY <4>1, <4>2
    <3>3. QED
      BY <3>1, <3>2
  <2>2. QED
    BY <1>4, <1>5, <2>1, CellFromFields DEF Cur
<1>6. ASSUME NEW c \in Cell
      PROVE  Before(c, Cur') <=> Before(c, Cur) \/ c = Cur
  <2>1. /\ c.b \in Nat /\ c.a \in 0 .. AnchorPerBranch - 1
        /\ c.i \in 0 .. GridH(c.b) - 1 /\ c.j \in 0 .. GridW(c.b) - 1
        /\ c = [b |-> c.b, a |-> c.a, i |-> c.i, j |-> c.j]
    BY CellFields DEF Branch
  <2>2. c = Cur <=> c.b = b /\ c.a = a /\ c.i = i /\ c.j = j
    BY <2>1 DEF Cur
  <2>3. /\ Before(c, Cur) <=>
             \/ c.b < b
             \/ c.b = b /\ c.a < a
             \/ c.b = b /\ c.a = a /\ c.i < i
             \/ c.b = b /\ c.a = a /\ c.i = i /\ c.j < j
        /\ Before(c, Cur') <=>
             \/ c.b < b'
             \/ c.b = b' /\ c.a < a'
             \/ c.b = b' /\ c.a = a' /\ c.i < i'
             \/ c.b = b' /\ c.a = a' /\ c.i = i' /\ c.j < j'
    BY DEF Before, Cur
  <2> DEFINE x == c.b
             y == c.a
             z == c.i
             t == c.j
  <2>4. /\ x \in Nat /\ y \in 0 .. AnchorPerBranch - 1 /\ z \in Nat /\ t \in Nat
        /\ x = b => z < GridH(b) /\ t < GridW(b)
    <3>1. GridH(c.b) \in Nat \ {0} /\ GridW(c.b) \in Nat \ {0}
      BY CellFields, GridPositive
    <3>2. QED
      BY <2>1, <3>1
  <2> HIDE DEF x, y, z, t
  <2>5. (\/ x < b'
         \/ x = b' /\ y < a'
         \/ x = b' /\ y = a' /\ z < i'
         \/ x = b' /\ y = a' /\ z = i' /\ t < j')
        <=> (\/ x < b
             \/ x = b /\ y < a
             \/ x = b /\ y = a /\ z < i
             \/ x = b /\ y = a /\ z = i /\ t < j)
            \/ (x = b /\ y = a /\ z = i /\ t = j)
    <3>1. CASE lastA
      BY <1>1, <1>2, <1>3, <2>4, <3>1
    <3>2. CASE lastI /\ ~lastA
      BY <1>1, <1>2, <1>3, <2>4, <3>2
    <3>3. CASE lastJ /\ ~lastI
      BY <1>1, <1>2, <1>3, <2>4, <3>3
    <3>4. CASE ~lastJ
      BY <1>1, <1>2, <1>3, <2>4, <3>4
    <3>5. QED
      BY <3>1, <3>2, <3>3, <3>4
  <2>6. QED
    BY <2>2, <2>3, <2>5 DEF x, y, z, t
<1>7. QED
  BY <1>4, <1>5, <1>6

(* The box decoded in a cell lies near it.                                 *)
LEMMA CentreNear ==
    ASSUME NEW q \in 0 .. 255, NEW at \in Nat, b \in Branch
    PROVE  Centre(q, at) \in Int /\ Near(Centre(q, at), at, Strides[b])
<1> DEFINE D == ScaleDen
           U == D * Strides[b]
           x == Dequantize(q, b)
           z == 4 * x - D + 2 * D * at
<1>1. /\ x \in Int /\ x <= D /\ 0 <= 10 * x + D /\ D \in Nat \ {0}
      /\ Strides[b] \in Nat \ {0}
  BY Quantized, GridPositive, DecodeAssumption
<1>2. Centre(q, at) = U * z
  BY DEF Centre
<1>3. Near(U * z, at, Strides[b])
        <=> (2 * at - 2) * (U * D) <= U * z /\ U * z <= (2 * at + 3) * (U * D)
  BY DEF Near
<1> HIDE DEF x, D
<1>4. z \in Int /\ (2 * at - 2) * D <= z /\ z <= (2 * at + 3) * D
  <2>1. 2 * D * at \in Int /\ (2 * at - 2) * D = 2 * D * at - 2 * D
        /\ (2 * at + 3) * D = 2 * D * at + 3 * D
    BY <1>1
  <2>2. QED
    BY <1>1, <2>1
<1>5. U \in Nat
  BY <1>1
<1> HIDE DEF z, U
<1>6. /\ ((2 * at - 2) * D) * U <= z * U /\ z * U <= ((2 * at + 3) * D) * U
  BY <1>1, <1>4, <1>5, TimesMonotone
<1>7. /\ ((2 * at - 2) * D) * U = (2 * at - 2) * (U * D)
      /\ ((2 * at + 3) * D) * U = (2 * at + 3) * (U * D)
      /\ z * U = U * z /\ U * z \in Int
  BY <1>1, <1>4, <1>5
<1>8. QED
  BY <1>2, <1>3, <1>6, <1>7

LEMMA ExtentBounded ==
    ASSUME NEW q \in 0 .. 255, NEW anchor \in Nat, b \in Branch
    PROVE  /\ Extent(q, anchor) \in Nat
           /\ Extent(q, anchor) <= 8 * anchor * (ScaleDen * ScaleDen)
<1> DEFINE D == ScaleDen
           x == Dequantize(q, b)
<1>1. x \in Int /\ x <= D /\ 0 <= 10 * x + D /\ D \in Nat \ {0}
  BY Quantized, DecodeAssumption
<1>2. Extent(q, anchor) = 8 * anchor * (x * x)
  BY DEF Extent
<1> HIDE DEF x
<1>3. x * x \in Nat /\ x * x <= D * D /\ D * D \in Nat
  BY <1>1
<1>4. QED
  BY <1>2, <1>3, TimesMonotone

LEMMA BoxDecoded ==
    ASSUME Types, b \in Branch
    PROVE  /\ DecodedBox \in Seq(Int) /\ Len(DecodedBox) = 4
           /\ Boxed(DecodedBox[1], DecodedBox[2], DecodedBox[3], DecodedBox[4], Cur)
<1> DEFINE w == Extent(At(2), Anchors[b][a + 1].w)
           h == Extent(At(3), Anchors[b][a + 1].h)
           x == Centre(At(0), j)
           y == Centre(At(1), i)
<1>1. DecodedBox = <<x - w \div 2, y - h \div 2, w, h>>
  BY DEF DecodedBox, ColumnOf
<1>2. \A p \in 0 .. 3 : At(p) \in 0 .. 255
  <2>1. SUFFICES ASSUME NEW p \in 0 .. 3
                 PROVE  At(p) \in 0 .. 255
    OBVIOUS
  <2>2. p \in 0 .. PropSize - 1
    BY DecodeAssumption DEF PropSize
  <2>3. QED
    BY <2>2, AtCell
<1>3. /\ i \in Nat /\ j \in Nat
      /\ Anchors[b][a + 1].w \in Nat /\ Anchors[b][a + 1].h \in Nat
  <2>1. a + 1 \in 1 .. AnchorPerBranch
    BY CurFields, DecodeAssumption
  <2>2. QED
    BY <2>1, DecodeAssumption DEF Types
<1>4. /\ x \in Int /\ Near(x, j, Strides[b]) /\ y \in Int /\ Near(y, i, Strides[b])
      /\ w \in Nat /\ w <= 8 * Anchors[b][a + 1].w * (ScaleDen * ScaleDen)
      /\ h \in Nat /\ h <= 8 * Anchors[b][a + 1].h * (ScaleDen * ScaleDen)
  <2>1. At(0) \in 0 .. 255 /\ At(1) \in 0 .. 255 /\ At(2) \in 0 .. 255 /\ At(3) \in 0 .. 255
    BY <1>2
  <2>2. x \in Int /\ Near(x, j, Strides[b]) /\ y \in Int /\ Near(y, i, Strides[b])
    BY <1>3, <2>1, CentreNear
  <2>3. /\ w \in Nat /\ w <= 8 * Anchors[b][a + 1].w * (ScaleDen * ScaleDen)
        /\ h \in Nat /\ h <= 8 * Anchors[b][a + 1].h * (ScaleDen * ScaleDen)
    BY <1>3, <2>1, ExtentBounded
  <2>4. QED
    BY <2>2, <2>3
<1> HIDE DEF w, h, x, y
<1>5. /\ x - w \div 2 \in Int /\ y - h \div 2 \in Int /\ w \in Int /\ h \in Int
      /\ (x - w \div 2) + w \div 2 = x /\ (y - h \div 2) + h \div 2 = y
  BY <1>4
<1>6. Cur.b = b /\ Cur.a = a /\ Cur.i = i /\ Cur.j = j
  BY DEF Cur
<1>7. Boxed(x - w \div 2, y - h \div 2, w, h, Cur)
  BY <1>4, <1>5, <1>6 DEF Boxed
<1>8. QED
  BY <1>1, <1>5, <1>7

-----------------------------------------------------------------------------
(* The test on floats takes the cell exactly when it is wanted.            *)
LEMMA ScoreDecides ==
    ASSUME Types, ClassLoop, phase = "class", k = Classes
    PROVE  /\ Score = Dequantize(content[Cur][4], Cur.b)
                        * Dequantize(content[Cur][5 + maxClassId], Cur.b)
           /\ maxClassId \in Class /\ FirstBest(content[Cur], maxClassId, Classes - 1)
           /\ 100 * Score > Threshold * (ScaleDen * ScaleDen) <=> Wanted(Cur)
<1>1. b \in Branch /\ Classes \in Nat \ {0}
  BY DecodeAssumption DEF Types
<1>2. 4 \in 0 .. PropSize - 1 /\ \A n \in Class : 5 + n \in 0 .. PropSize - 1
  BY <1>1 DEF PropSize, Class
<1>3. /\ maxClassId \in Class /\ FirstBest(content[Cur], maxClassId, Classes - 1)
      /\ maxClassProbs = content[Cur][5 + maxClassId]
  BY DEF ClassLoop, Class
<1>4. Score = Dequantize(content[Cur][4], Cur.b) * Dequantize(content[Cur][5 + maxClassId], Cur.b)
  <2>1. At(4) = content[Cur][4] /\ Cur.b = b
    BY <1>1, <1>2, AtCell DEF Cur
  <2>2. QED
    BY <1>3, <2>1 DEF Score
<1>5. \A m \in Class : content[Cur][5 + m] \in Int
  <2>1. SUFFICES ASSUME NEW m \in Class
                 PROVE  content[Cur][5 + m] \in Int
    OBVIOUS
  <2>2. content[Cur][5 + m] \in 0 .. 255
    BY <1>1, <1>2, AtCell
  <2>3. QED
    BY <2>2
<1>6. \A m \in Class : content[Cur][5 + m] <= content[Cur][5 + maxClassId]
  <2>1. SUFFICES ASSUME NEW m \in Class
                 PROVE  content[Cur][5 + m] <= content[Cur][5 + maxClassId]
    OBVIOUS
  <2>2. IF m < maxClassId THEN content[Cur][5 + m] < content[Cur][5 + maxClassId]
                          ELSE content[Cur][5 + m] <= content[Cur][5 + maxClassId]
    BY <1>3 DEF FirstBest, Class
  <2>3. content[Cur][5 + m] \in Int /\ content[Cur][5 + maxClassId] \in Int
    BY <1>3, <1>5
  <2>4. QED
    BY <2>2, <2>3
<1>7. ASSUME Wanted(Cur)
      PROVE  100 * Score > Threshold * (ScaleDen * ScaleDen)
  <2>1. PICK n \in Class :
            /\ \A m \in Class : content[Cur][5 + m] <= content[Cur][5 + n]
            /\ 100 * (Dequantize(content[Cur][4], Cur.b) * Dequantize(content[Cur][5 + n], Cur.b))
                  > Threshold * (ScaleDen * ScaleDen)
    BY <1>7 DEF Wanted
  <2>2. content[Cur][5 + n] = content[Cur][5 + maxClassId]
    <3>1. /\ content[Cur][5 + maxClassId] <= content[Cur][5 + n]
          /\ content[Cur][5 + n] <= content[Cur][5 + maxClassId]
      BY <1>3, <1>6, <2>1
    <3>2. content[Cur][5 + n] \in Int /\ content[Cur][5 + maxClassId] \in Int
      BY <1>3, <1>5
    <3>3. QED
      BY <3>1, <3>2
  <2>3. QED
    BY <1>4, <2>1, <2>2
<1>8. ASSUME 100 * Score > Threshold * (ScaleDen * ScaleDen)
      PROVE  Wanted(Cur)
  BY <1>3, <1>4, <1>6, <1>8 DEF Wanted
<1>9. QED
  BY <1>3, <1>4, <1>7, <1>8

(* What a candidate is and whether a cell is wanted depends on the outputs *)
(* and the vectors only.                                                   *)
LEMMA WantedKept ==
    ASSUME content' = content
    PROVE  \A c : Wanted(c)' <=> Wanted(c)
BY DEF Wanted, Dequantize

(* Leaving a cell that is not wanted.                                      *)
LEMMA PassedOver ==
    ASSUME Types, b \in Branch, Advance, UNCHANGED <<content, candidates>>,
           ~Wanted(Cur), NEW s, Maps(s)
    PROVE  Maps(s)'
<1>1. /\ content' = content /\ boxes' = boxes /\ boxScores' = boxScores
      /\ classId' = classId
  BY DEF candidates
<1>2. \A c \in Cell : Before(c, Cur') <=> Before(c, Cur) \/ c = Cur
  BY AdvanceScan
<1>3. \A c : Wanted(c)' <=> Wanted(c)
  BY <1>1, WantedKept
<1>4. /\ s \in [1 .. Len(classId') -> Cell]
      /\ \A m, n \in 1 .. Len(classId') : m < n => Before(s[m], s[n])
  BY <1>1 DEF Maps
<1>5. \A n \in 1 .. Len(classId') : Wanted(s[n])' /\ Before(s[n], Cur')
  <2>1. SUFFICES ASSUME NEW n \in 1 .. Len(classId)
                 PROVE  Wanted(s[n])' /\ Before(s[n], Cur')
    BY <1>1
  <2>2. s[n] \in Cell /\ Wanted(s[n]) /\ Before(s[n], Cur)
    BY DEF Maps
  <2>3. QED
    BY <1>2, <1>3, <2>2
<1>6. \A n \in 1 .. Len(classId') : Candidate(n, s[n])' /\ BoxOf(n, s[n])'
  BY <1>1 DEF Maps, Candidate, BoxOf
<1>7. ASSUME NEW c \in Cell, Wanted(c), Before(c, Cur')
      PROVE  \E n \in 1 .. Len(classId) : s[n] = c
  <2>1. Before(c, Cur)
    BY <1>2, <1>7
  <2>2. QED
    BY <1>7, <2>1 DEF Maps
<1>8. QED
  BY <1>1, <1>3, <1>4, <1>5, <1>6, <1>7 DEF Maps

LEMMA SkipStep ==
    ASSUME IInv, SkipCell
    PROVE  IInv'
<1>1. /\ b \in Branch /\ At(4) < ThresholdByte(b) /\ Advance /\ phase = "cell"
      /\ UNCHANGED <<content, phase, k, best, candidates>>
  BY DEF SkipCell
<1>2. Types
  BY DEF IInv
<1>3. Types'
  BY <1>1, <1>2, AdvanceScan DEF Types, candidates
<1>4. ClassLoop'
  BY <1>1 DEF ClassLoop
<1>5. ~Wanted(Cur)
  <2>1. 4 \in 0 .. PropSize - 1
    BY DecodeAssumption DEF PropSize
  <2>2. At(4) = content[Cur][4] /\ Cur \in Cell
    BY <1>1, <1>2, <2>1, AtCell, CurFields
  <2>3. content[Cur][4] \in 0 .. 255 /\ content \in [Cell -> Bytes]
    <3>1. content[Cur] \in Bytes /\ content \in [Cell -> Bytes]
      BY <1>2, <2>2 DEF Types
    <3>2. QED
      BY <2>1, <3>1 DEF Bytes
  <2>4. ThresholdByte(b) \in Int
    <3>1. /\ Threshold * ScaleDen \in Int /\ 100 * ScaleNum[b] \in Nat \ {0}
          /\ ZeroPoint[b] \in Int
      <4>1. b \in Branch
        BY <1>1
      <4>2. ZeroPoint[b] \in 0 .. 255 /\ ScaleNum[b] \in Nat \ {0}
        BY <4>1, DecodeAssumption, Zenon
      <4>3. Threshold \in 1 .. 100 /\ ScaleDen \in Nat \ {0}
        BY DecodeAssumption
      <4>4. QED
        BY <4>2, <4>3
    <3>2. (Threshold * ScaleDen) \div (100 * ScaleNum[b]) \in Int
      BY <3>1
    <3>3. QED
      BY <3>1, <3>2 DEF ThresholdByte
  <2>5. Cur.b = b
    BY DEF Cur
  <2>6. QED
    BY <1>1, <2>2, <2>3, <2>4, <2>5, Prefilter
<1>6. \E s : Maps(s)'
  <2>1. PICK s : Maps(s)
    BY DEF IInv
  <2>2. Maps(s)'
    BY <1>1, <1>2, <1>5, <2>1, PassedOver
  <2>3. QED
    BY <2>2
<1>7. QED
  BY <1>3, <1>4, <1>6 DEF IInv

LEMMA MapsKept ==
    ASSUME UNCHANGED <<content, cursor, candidates>>, NEW s, Maps(s)
    PROVE  Maps(s)'
<1>1. /\ content' = content /\ boxes' = boxes /\ boxScores' = boxScores
      /\ classId' = classId /\ Cur' = Cur
  BY DEF candidates, cursor, Cur
<1>2. \A c : Wanted(c)' <=> Wanted(c)
  BY <1>1, WantedKept
<1>3. \A n, c : (Candidate(n, c)' <=> Candidate(n, c)) /\ (BoxOf(n, c)' <=> BoxOf(n, c))
  BY <1>1 DEF Candidate, BoxOf
<1>4. \A c, d : Before(c, d)' <=> Before(c, d)
  BY DEF Before
<1>5. QED
  BY <1>1, <1>2, <1>3 DEF Maps

LEMMA EnterStep ==
    ASSUME IInv, EnterCell
    PROVE  IInv'
<1>1. /\ b \in Branch /\ maxClassId' = 0 /\ maxClassProbs' = At(5) /\ k' = 1
      /\ phase' = "class" /\ UNCHANGED <<content, cursor, candidates>>
  BY DEF EnterCell
<1>2. Types
  BY DEF IInv
<1>3. Types' /\ Cur' = Cur
  BY <1>1, <1>2 DEF Types, candidates, cursor, Cur
<1>4. ClassLoop'
  <2>1. 5 \in 0 .. PropSize - 1 /\ Classes \in Nat \ {0}
    BY DecodeAssumption DEF PropSize
  <2>2. At(5) = content[Cur][5] /\ content[Cur][5] \in 0 .. 255
    BY <1>1, <1>2, <2>1, AtCell
  <2>3. FirstBest(content[Cur], 0, 0)
    BY <2>2 DEF FirstBest
  <2>4. QED
    BY <1>1, <1>3, <2>1, <2>2, <2>3 DEF ClassLoop
<1>5. QED
  BY <1>1, <1>3, <1>4, MapsKept DEF IInv

LEMMA CompareStep ==
    ASSUME IInv, CompareClass
    PROVE  IInv'
<1>1. /\ phase = "class" /\ k < Classes /\ k' = k + 1 /\ phase' = phase
      /\ IF At(5 + k) > maxClassProbs
         THEN maxClassId' = k /\ maxClassProbs' = At(5 + k)
         ELSE maxClassId' = maxClassId /\ maxClassProbs' = maxClassProbs
      /\ UNCHANGED <<content, cursor, candidates>>
  BY DEF CompareClass, best
<1>2. Types /\ b \in Branch
  BY <1>1 DEF IInv, Types
<1>3. Types' /\ Cur' = Cur
  BY <1>1, <1>2 DEF Types, candidates, cursor, Cur
<1> DEFINE bytes == content[Cur]
<1>4. /\ k \in 1 .. Classes /\ maxClassId \in 0 .. k - 1 /\ Classes \in Nat \ {0}
      /\ maxClassProbs = bytes[5 + maxClassId]
      /\ FirstBest(bytes, maxClassId, k - 1)
  BY <1>1, DecodeAssumption DEF IInv, ClassLoop
<1>5. \A m \in 0 .. k : bytes[5 + m] \in Int
  <2>1. SUFFICES ASSUME NEW m \in 0 .. k
                 PROVE  bytes[5 + m] \in Int
    OBVIOUS
  <2>2. 5 + m \in 0 .. PropSize - 1
    BY <1>1, <1>4 DEF PropSize
  <2>3. bytes[5 + m] \in 0 .. 255
    BY <1>2, <2>2, AtCell
  <2>4. QED
    BY <2>3
<1>6. At(5 + k) = bytes[5 + k]
  <2>1. 5 + k \in 0 .. PropSize - 1
    BY <1>1, <1>4 DEF PropSize
  <2>2. QED
    BY <1>2, <2>1, AtCell
<1> HIDE DEF bytes
<1>7. \A m \in 0 .. k - 1 :
        IF m < maxClassId THEN bytes[5 + m] < bytes[5 + maxClassId]
                          ELSE bytes[5 + m] <= bytes[5 + maxClassId]
  BY <1>4 DEF FirstBest
<1>8. /\ maxClassId' \in 0 .. k /\ maxClassProbs' = bytes[5 + maxClassId']
      /\ FirstBest(bytes, maxClassId', k)
  <2>1. CASE bytes[5 + k] > bytes[5 + maxClassId]
    <3>1. maxClassId' = k /\ maxClassProbs' = bytes[5 + k]
      BY <1>1, <1>4, <1>6, <2>1
    <3>2. ASSUME NEW m \in 0 .. k
          PROVE  IF m < k THEN bytes[5 + m] < bytes[5 + k]
                          ELSE bytes[5 + m] <= bytes[5 + k]
      <4>1. bytes[5 + m] \in Int /\ bytes[5 + k] \in Int /\ bytes[5 + maxClassId] \in Int
        BY <1>4, <1>5
      <4>2. CASE m = k
        BY <4>1, <4>2
      <4>3. CASE m \in 0 .. k - 1
        BY <1>7, <2>1, <4>1, <4>3
      <4>4. QED
        BY <1>4, <4>2, <4>3
    <3>3. QED
      BY <1>4, <3>1, <3>2 DEF FirstBest
  <2>2. CASE ~(bytes[5 + k] > bytes[5 + maxClassId])
    <3>1. maxClassId' = maxClassId /\ maxClassProbs' = maxClassProbs
      BY <1>1, <1>4, <1>6, <2>2
    <3>2. ASSUME NEW m \in 0 .. k
          PROVE  IF m < maxClassId THEN bytes[5 + m] < bytes[5 + maxClassId]
                                   ELSE bytes[5 + m] <= bytes[5 + maxClassId]
      <4>1. bytes[5 + k] \in Int /\ bytes[5 + maxClassId] \in Int
        BY <1>4, <1>5
      <4>2. CASE m = k
        BY <1>4, <2>2, <4>1, <4>2
      <4>3. CASE m \in 0 .. k - 1
        BY <1>7, <4>3
      <4>4. QED
        BY <1>4, <4>2, <4>3
    <3>3. QED
      BY <1>4, <3>1, <3>2 DEF FirstBest
  <2>3. QED
    BY <2>1, <2>2
<1>9. ClassLoop'
  <2>1. bytes = content'[Cur']
    BY <1>1, <1>3 DEF bytes
  <2>2. k' \in 1 .. Classes /\ k' - 1 = k
    BY <1>1, <1>4
  <2>3. QED
    BY <1>8, <2>1, <2>2 DEF ClassLoop
<1>10. QED
  BY <1>1, <1>3, <1>9, MapsKept DEF IInv

LEMMA FourMore ==
    ASSUME NEW q \in Seq(Int), NEW t \in Seq(Int), Len(t) = 4
    PROVE  /\ q \o t \in Seq(Int) /\ Len(q \o t) = Len(q) + 4
           /\ \A n \in 1 .. Len(q) : (q \o t)[n] = q[n]
           /\ (q \o t)[Len(q) + 1] = t[1] /\ (q \o t)[Len(q) + 2] = t[2]
           /\ (q \o t)[Len(q) + 3] = t[3] /\ (q \o t)[Len(q) + 4] = t[4]
<1>1. PICK l \in Nat : l = Len(q)
  BY LenProperties
<1>2. /\ q \o t \in Seq(Int) /\ Len(q \o t) = l + 4
      /\ \A n \in 1 .. l + 4 : (q \o t)[n] = IF n <= l THEN q[n] ELSE t[n - l]
  <2>1. q \o t \in Seq(Int)
    BY ConcatProperties
  <2>2. Len(q \o t) = Len(q) + Len(t)
    BY ConcatProperties
  <2>3. \A n \in 1 .. Len(q) + Len(t) :
           (q \o t)[n] = IF n <= Len(q) THEN q[n] ELSE t[n - Len(q)]
    BY ConcatProperties, Zenon
  <2>4. QED
    BY <1>1, <2>1, <2>2, <2>3
<1>3. \A n \in 1 .. l : (q \o t)[n] = q[n]
  BY <1>2
<1>4. /\ (l + 1) - l = 1 /\ (l + 2) - l = 2 /\ (l + 3) - l = 3 /\ (l + 4) - l = 4
      /\ ~(l + 1 <= l) /\ ~(l + 2 <= l) /\ ~(l + 3 <= l) /\ ~(l + 4 <= l)
      /\ l + 1 \in 1 .. l + 4 /\ l + 2 \in 1 .. l + 4
      /\ l + 3 \in 1 .. l + 4 /\ l + 4 \in 1 .. l + 4
  OBVIOUS
<1>5. /\ (q \o t)[l + 1] = t[1] /\ (q \o t)[l + 2] = t[2]
      /\ (q \o t)[l + 3] = t[3] /\ (q \o t)[l + 4] = t[4]
  BY <1>2, <1>4
<1>6. QED
  BY <1>1, <1>2, <1>3, <1>5

(* Leaving a wanted cell: it is the last candidate now.                    *)
LEMMA Collected ==
    ASSUME Types, b \in Branch, Advance, content' = content, Wanted(Cur),
           boxes' = boxes \o DecodedBox, boxScores' = Append(boxScores, Score),
           classId' = Append(classId, maxClassId),
           Score = Dequantize(content[Cur][4], Cur.b)
                     * Dequantize(content[Cur][5 + maxClassId], Cur.b),
           Score \in Int, maxClassId \in Class,
           FirstBest(content[Cur], maxClassId, Classes - 1), NEW s, Maps(s)
    PROVE  /\ boxes' \in Seq(Int) /\ boxScores' \in Seq(Int) /\ classId' \in Seq(Class)
           /\ Len(boxScores') = Len(classId') /\ Len(boxes') = 4 * Len(classId')
           /\ \E more : Maps(more)'
<1>0. PICK N \in Nat : N = Len(classId)
  BY LenProperties DEF Types
<1>1. /\ classId \in Seq(Class) /\ boxScores \in Seq(Int) /\ boxes \in Seq(Int)
      /\ Len(boxScores) = N /\ Len(boxes) = 4 * N
  BY <1>0 DEF Types
<1>2. /\ classId' \in Seq(Class) /\ Len(classId') = N + 1
      /\ \A n \in 1 .. N : classId'[n] = classId[n]
      /\ classId'[N + 1] = maxClassId
  BY <1>0, <1>1, AppendProperties
<1>3. /\ boxScores' \in Seq(Int) /\ Len(boxScores') = N + 1
      /\ \A n \in 1 .. N : boxScores'[n] = boxScores[n]
      /\ boxScores'[N + 1] = Score
  <2>1. /\ boxScores' \in Seq(Int) /\ Len(boxScores') = Len(boxScores) + 1
        /\ \A n \in 1 .. Len(boxScores) : boxScores'[n] = boxScores[n]
        /\ boxScores'[Len(boxScores) + 1] = Score
    BY <1>1, AppendProperties
  <2>2. QED
    BY <1>1, <2>1
<1>4. /\ boxes' \in Seq(Int) /\ Len(boxes') = 4 * (N + 1)
      /\ \A n \in 1 .. 4 * N : boxes'[n] = boxes[n]
      /\ boxes'[4 * N + 1] = DecodedBox[1] /\ boxes'[4 * N + 2] = DecodedBox[2]
      /\ boxes'[4 * N + 3] = DecodedBox[3] /\ boxes'[4 * N + 4] = DecodedBox[4]
  <2>1. DecodedBox \in Seq(Int) /\ Len(DecodedBox) = 4
    BY BoxDecoded
  <2>2. /\ boxes' \in Seq(Int) /\ Len(boxes') = Len(boxes) + 4
        /\ \A n \in 1 .. Len(boxes) : boxes'[n] = boxes[n]
        /\ boxes'[Len(boxes) + 1] = DecodedBox[1] /\ boxes'[Len(boxes) + 2] = DecodedBox[2]
        /\ boxes'[Len(boxes) + 3] = DecodedBox[3] /\ boxes'[Len(boxes) + 4] = DecodedBox[4]
    BY <1>1, <2>1, FourMore
  <2>3. QED
    BY <1>1, <2>2
<1>5. /\ s \in [1 .. N -> Cell]
      /\ \A m, n \in 1 .. N : m < n => Before(s[m], s[n])
      /\ \A n \in 1 .. N : Wanted(s[n]) /\ Before(s[n], Cur)
      /\ \A n \in 1 .. N : Candidate(n, s[n]) /\ BoxOf(n, s[n])
  BY <1>0 DEF Maps
<1>6. \A c \in Cell : Wanted(c) /\ Before(c, Cur) => \E n \in 1 .. N : s[n] = c
  BY <1>0 DEF Maps
<1>7. Cur \in Cell /\ \A c \in Cell : Before(c, Cur') <=> Before(c, Cur) \/ c = Cur
  BY AdvanceScan DEF Types
<1>8. \A c : Wanted(c)' <=> Wanted(c)
  BY WantedKept
<1>9. PICK C \in Cell : C = Cur
  BY <1>7
<1>10. PICK more : /\ more \in [1 .. N + 1 -> Cell]
                   /\ \A n \in 1 .. N : more[n] = s[n]
                   /\ more[N + 1] = C
  <2> DEFINE f == [n \in 1 .. N + 1 |-> IF n <= N THEN s[n] ELSE C]
  <2>1. /\ f \in [1 .. N + 1 -> Cell]
        /\ \A n \in 1 .. N : f[n] = s[n]
        /\ f[N + 1] = C
    BY <1>5
  <2>2. QED
    BY <2>1
<1>11. \A n \in 1 .. N + 1 : n \in 1 .. N \/ n = N + 1
  OBVIOUS
<1>12. ASSUME NEW m \in 1 .. N + 1, NEW n \in 1 .. N + 1, m < n
       PROVE  Before(more[m], more[n])
  <2>1. m \in 1 .. N
    BY <1>12
  <2>2. CASE n \in 1 .. N
    BY <1>5, <1>10, <1>12, <2>1, <2>2
  <2>3. CASE n = N + 1
    BY <1>5, <1>9, <1>10, <2>1, <2>3
  <2>4. QED
    BY <1>11, <2>2, <2>3
<1>13. ASSUME NEW n \in 1 .. N + 1
       PROVE  Wanted(more[n])' /\ Before(more[n], Cur')
  <2>1. more[n] \in Cell
    BY <1>10
  <2>2. CASE n \in 1 .. N
    <3>1. Wanted(more[n]) /\ Before(more[n], Cur)
      BY <1>5, <1>10, <2>2
    <3>2. QED
      BY <1>7, <1>8, <2>1, <3>1
  <2>3. CASE n = N + 1
    <3>1. more[n] = Cur
      BY <1>9, <1>10, <2>3
    <3>2. QED
      BY <1>7, <1>8, <2>1, <3>1
  <2>4. QED
    BY <1>11, <2>2, <2>3
<1>14. ASSUME NEW n \in 1 .. N + 1
       PROVE  Candidate(n, more[n])' /\ BoxOf(n, more[n])'
  <2>1. CASE n \in 1 .. N
    <3>1. Candidate(n, s[n]) /\ BoxOf(n, s[n]) /\ more[n] = s[n]
      BY <1>5, <1>10, <2>1
    <3>2. classId'[n] = classId[n] /\ boxScores'[n] = boxScores[n]
      BY <1>2, <1>3, <2>1
    <3>3. /\ boxes'[4 * n - 3] = boxes[4 * n - 3] /\ boxes'[4 * n - 2] = boxes[4 * n - 2]
          /\ boxes'[4 * n - 1] = boxes[4 * n - 1] /\ boxes'[4 * n] = boxes[4 * n]
      <4>1. /\ 4 * n - 3 \in 1 .. 4 * N /\ 4 * n - 2 \in 1 .. 4 * N
            /\ 4 * n - 1 \in 1 .. 4 * N /\ 4 * n \in 1 .. 4 * N
        BY <2>1
      <4>2. QED
        BY <1>4, <4>1
    <3>4. Candidate(n, more[n])'
      BY <3>1, <3>2 DEF Candidate
    <3>5. BoxOf(n, more[n])'
      BY <3>1, <3>3 DEF BoxOf
    <3>6. QED
      BY <3>4, <3>5
  <2>2. CASE n = N + 1
    <3>1. more[n] = Cur /\ more[n] = C
      BY <1>9, <1>10, <2>2
    <3>2. classId'[n] = maxClassId /\ boxScores'[n] = Score
      BY <1>2, <1>3, <2>2
    <3>3. /\ boxes'[4 * n - 3] = DecodedBox[1] /\ boxes'[4 * n - 2] = DecodedBox[2]
          /\ boxes'[4 * n - 1] = DecodedBox[3] /\ boxes'[4 * n] = DecodedBox[4]
      <4>1. /\ 4 * n - 3 = 4 * N + 1 /\ 4 * n - 2 = 4 * N + 2
            /\ 4 * n - 1 = 4 * N + 3 /\ 4 * n = 4 * N + 4
        BY <2>2
      <4>2. QED
        BY <1>4, <4>1
    <3>4. Candidate(n, C)'
      BY <1>9, <3>2 DEF Candidate
    <3>5. BoxOf(n, C)'
      <4>1. Boxed(DecodedBox[1], DecodedBox[2], DecodedBox[3], DecodedBox[4], C)
        BY <1>9, BoxDecoded
      <4>2. Boxed(boxes'[4 * n - 3], boxes'[4 * n - 2], boxes'[4 * n - 1], boxes'[4 * n], C)
        BY <3>3, <4>1
      <4>3. QED
        BY <4>2 DEF BoxOf, Boxed, Near
    <3>6. QED
      BY <3>1, <3>4, <3>5
  <2>3. QED
    BY <1>11, <2>1, <2>2
<1>15. ASSUME NEW c \in Cell, Wanted(c), Before(c, Cur')
       PROVE  \E n \in 1 .. N + 1 : more[n] = c
  <2>1. CASE c = Cur
    BY <1>9, <1>10, <2>1
  <2>2. CASE Before(c, Cur)
    <3>1. PICK n \in 1 .. N : s[n] = c
      BY <1>6, <1>15, <2>2
    <3>2. n \in 1 .. N + 1 /\ more[n] = c
      BY <1>10, <3>1
    <3>3. QED
      BY <3>2
  <2>3. QED
    BY <1>7, <1>15, <2>1, <2>2
<1>16. Maps(more)'
  BY <1>2, <1>8, <1>10, <1>12, <1>13, <1>14, <1>15 DEF Maps
<1>17. QED
  BY <1>2, <1>3, <1>4, <1>16

LEMMA LeaveStep ==
    ASSUME IInv, LeaveCell
    PROVE  IInv'
<1>1. /\ phase = "class" /\ k = Classes /\ Advance /\ phase' = "cell"
      /\ UNCHANGED <<content, k, best>>
      /\ IF 100 * Score > Threshold * (ScaleDen * ScaleDen)
         THEN /\ boxes' = boxes \o DecodedBox
              /\ boxScores' = Append(boxScores, Score)
              /\ classId' = Append(classId, maxClassId)
         ELSE UNCHANGED candidates
  BY DEF LeaveCell
<1>2. Types /\ ClassLoop /\ b \in Branch
  BY <1>1 DEF IInv, Types
<1>3. /\ Score = Dequantize(content[Cur][4], Cur.b)
                   * Dequantize(content[Cur][5 + maxClassId], Cur.b)
      /\ maxClassId \in Class /\ FirstBest(content[Cur], maxClassId, Classes - 1)
      /\ 100 * Score > Threshold * (ScaleDen * ScaleDen) <=> Wanted(Cur)
  BY <1>1, <1>2, ScoreDecides
<1>4. Score \in Int
  <2>1. 4 \in 0 .. PropSize - 1 /\ 5 + maxClassId \in 0 .. PropSize - 1
    BY <1>3, DecodeAssumption DEF PropSize, Class
  <2>2. /\ content[Cur][4] \in 0 .. 255 /\ content[Cur][5 + maxClassId] \in 0 .. 255
        /\ Cur.b \in Branch
    BY <1>2, <2>1, AtCell DEF Cur
  <2>3. /\ Dequantize(content[Cur][4], Cur.b) \in Int
        /\ Dequantize(content[Cur][5 + maxClassId], Cur.b) \in Int
    BY <2>2, Quantized
  <2>4. QED
    BY <1>3, <2>3
<1>5. PICK s : Maps(s)
  BY DEF IInv
<1>6. /\ boxes' \in Seq(Int) /\ boxScores' \in Seq(Int) /\ classId' \in Seq(Class)
      /\ Len(boxScores') = Len(classId') /\ Len(boxes') = 4 * Len(classId')
      /\ \E more : Maps(more)'
  <2>1. CASE Wanted(Cur)
    <3>1. /\ boxes' = boxes \o DecodedBox /\ boxScores' = Append(boxScores, Score)
          /\ classId' = Append(classId, maxClassId) /\ content' = content
      BY <1>1, <1>3, <2>1
    <3>2. QED
      BY <1>1, <1>2, <1>3, <1>4, <1>5, <2>1, <3>1, Collected
  <2>2. CASE ~Wanted(Cur)
    <3>1. UNCHANGED <<content, candidates>>
      BY <1>1, <1>3, <2>2
    <3>2. Maps(s)'
      BY <1>1, <1>2, <1>5, <2>2, <3>1, PassedOver
    <3>3. QED
      BY <1>2, <3>1, <3>2 DEF Types, candidates
  <2>3. QED
    BY <2>1, <2>2
<1>7. Types'
  <2>1. /\ b' \in 1 .. Len(Strides) + 1 /\ a' \in Nat /\ i' \in Nat /\ j' \in Nat
        /\ b' \in Branch => Cur' \in Cell
    BY <1>1, <1>2, AdvanceScan
  <2>2. content' \in [Cell -> Bytes]
    BY <1>1, <1>2 DEF Types
  <2>3. QED
    BY <1>1, <1>6, <2>1, <2>2 DEF Types
<1>8. ClassLoop'
  BY <1>1 DEF ClassLoop
<1>9. QED
  BY <1>6, <1>7, <1>8 DEF IInv

LEMMA InitInvariant == Init => IInv
<1> SUFFICES ASSUME Init
             PROVE  IInv
  OBVIOUS
<1>0. PICK loud \in LoudCells : \E bytes \in [loud -> Loud] :
          content = [c \in Cell |-> IF c \in loud THEN bytes[c] ELSE Quiet]
  BY DEF Init
<1>1. PICK bytes \in [loud -> Loud] :
          content = [c \in Cell |-> IF c \in loud THEN bytes[c] ELSE Quiet]
  BY <1>0
<1>2. content \in [Cell -> Bytes]
  <2>1. \A c \in loud : bytes[c] \in Bytes
    BY <1>1, DecodeAssumption DEF Bytes
  <2>2. Quiet \in Bytes
    BY DecodeAssumption DEF Bytes
  <2>3. QED
    BY <1>1, <2>1, <2>2
<1>3. /\ b = 1 /\ a = 0 /\ i = 0 /\ j = 0 /\ phase = "cell"
      /\ boxes = << >> /\ boxScores = << >> /\ classId = << >>
  BY DEF Init
<1>4. /\ boxes \in Seq(Int) /\ boxScores \in Seq(Int) /\ classId \in Seq(Class)
      /\ Len(boxes) = 0 /\ Len(boxScores) = 0 /\ Len(classId) = 0
  BY <1>3, EmptySeq
<1>5. Len(Strides) \in Nat
  BY DecodeAssumption, LenProperties
<1>6. ASSUME b \in Branch
      PROVE  Cur \in Cell
  BY <1>3, <1>6, GridPositive, CellFromFields, DecodeAssumption DEF Cur
<1>7. Types
  BY <1>2, <1>3, <1>4, <1>5, <1>6 DEF Types
<1>8. ClassLoop
  BY <1>3 DEF ClassLoop
<1>9. Maps(<< >>)
  <2>1. \A c \in Cell : ~Before(c, Cur)
    <3>1. SUFFICES ASSUME NEW c \in Cell
                   PROVE  ~Before(c, Cur)
      OBVIOUS
    <3>2. GridH(c.b) \in Nat /\ GridW(c.b) \in Nat /\ AnchorPerBranch \in Nat
      BY CellFields, GridPositive, DecodeAssumption
    <3>3. c.b \in 1 .. Len(Strides) /\ c.a \in Nat /\ c.i \in Nat /\ c.j \in Nat
      BY <3>2, CellFields DEF Branch
    <3>4. Cur.b = 1 /\ Cur.a = 0 /\ Cur.i = 0 /\ Cur.j = 0
      BY <1>3 DEF Cur
    <3>5. QED
      BY <1>5, <3>3, <3>4 DEF Before
  <2>2. 1 .. Len(classId) = {}
    BY <1>4
  <2>3. QED
    BY <2>1, <2>2 DEF Maps
<1>10. QED
  BY <1>7, <1>8, <1>9 DEF IInv

LEMMA StutterInvariant ==
    ASSUME IInv, UNCHANGED vars
    PROVE  IInv'
<1>1. UNCHANGED <<content, b, a, i, j, phase, k, maxClassId, maxClassProbs, boxes,
                  boxScores, classId>>
  BY DEF vars, cursor, best, candidates
<1>2. Cur' = Cur
  BY <1>1 DEF Cur
<1>3. Types' /\ ClassLoop'
  BY <1>1, <1>2 DEF IInv, Types, ClassLoop
<1>4. PICK s : Maps(s)
  BY DEF IInv
<1>5. Maps(s)'
  BY <1>1, <1>4, MapsKept DEF cursor, candidates
<1>6. QED
  BY <1>3, <1>5 DEF IInv

LEMMA StepInvariant == IInv /\ [Next]_vars => IInv'
BY SkipStep, EnterStep, CompareStep, LeaveStep, StutterInvariant DEF Next

LEMMA Invariant == Spec => []IInv
BY InitInvariant, StepInvariant, PTL DEF Spec

-----------------------------------------------------------------------------
(* When the scan is over every cell has been passed.                       *)
LEMMA AllPassed ==
    ASSUME Types, Done, NEW c \in Cell
    PROVE  Before(c, Cur)
<1>1. Len(Strides) \in Nat
  BY DecodeAssumption, LenProperties
<1>2. b = Len(Strides) + 1 /\ Cur.b = b
  BY <1>1 DEF Types, Done, Branch, Cur
<1>3. c.b \in 1 .. Len(Strides)
  BY CellFields DEF Branch
<1>4. QED
  BY <1>1, <1>2, <1>3 DEF Before

LEMMA MapsAreSources ==
    ASSUME NEW s, Maps(s)
    PROVE  s \in Sources
BY DEF Maps, Sources

(* No object is lost to the test on bytes.                                 *)
THEOREM PrefilterCorrect == Spec => []PrefilterSound
<1>1. IInv => PrefilterSound
  <2>1. SUFFICES ASSUME IInv, Done
                 PROVE  \E s \in Sources : \A c \in Cell : Wanted(c) => c \in Range(s)
    BY DEF PrefilterSound
  <2>2. PICK s : Maps(s)
    BY <2>1 DEF IInv
  <2>3. ASSUME NEW c \in Cell, Wanted(c)
        PROVE  c \in Range(s)
    <3>1. Before(c, Cur)
      BY <2>1, AllPassed DEF IInv
    <3>2. PICK n \in 1 .. Len(classId) : s[n] = c
      BY <2>2, <2>3, <3>1 DEF Maps
    <3>3. DOMAIN s = 1 .. Len(classId)
      BY <2>2 DEF Maps
    <3>4. QED
      BY <3>2, <3>3 DEF Range
  <2>4. QED
    BY <2>2, <2>3, MapsAreSources
<1>2. QED
  BY <1>1, Invariant, PTL

(* The three vectors stay parallel, and of equal classes the first counts. *)
THEOREM VectorsParallel == Spec => []CandidatesParallel
<1>1. IInv => CandidatesParallel
  <2>1. SUFFICES ASSUME IInv
                 PROVE  /\ Len(boxes) = 4 * Len(classId) /\ Len(boxScores) = Len(classId)
                        /\ \E s \in Sources : \A n \in 1 .. Len(classId) : Candidate(n, s[n])
    BY DEF CandidatesParallel, Candidate, FirstBest, Class
  <2>2. PICK s : Maps(s)
    BY <2>1 DEF IInv
  <2>3. \A n \in 1 .. Len(classId) : Candidate(n, s[n])
    BY <2>2 DEF Maps
  <2>4. QED
    BY <2>1, <2>2, <2>3, MapsAreSources DEF IInv, Types
<1>2. QED
  BY <1>1, Invariant, PTL

(* A box lies near the cell that found it and is no larger than the anchor *)
(* allows.                                                                 *)
THEOREM BoxPlaced == Spec => []BoxNearCell
<1>1. IInv => BoxNearCell
  <2>1. SUFFICES ASSUME IInv
                 PROVE  \E s \in Sources : \A n \in 1 .. Len(classId) : BoxOf(n, s[n])
    BY DEF BoxNearCell, BoxOf, Boxed
  <2>2. PICK s : Maps(s)
    BY <2>1 DEF IInv
  <2>3. \A n \in 1 .. Len(classId) : BoxOf(n, s[n])
    BY <2>2 DEF Maps
  <2>4. QED
    BY <2>2, <2>3, MapsAreSources
<1>2. QED
  BY <1>1, Invariant, PTL

(* What YoloPost assumes of its input: a box, score and class for each      *)
(* candidate, no box of negative size and every score above the threshold,  *)
(* so that the test of the score in the loop that fills the group drops     *)
(* nothing, at every moment of the scan.                                    *)
Handed ==
    /\ Len(boxScores) = Len(classId) /\ Len(boxes) = 4 * Len(classId)
    /\ \A n \in 1 .. Len(classId) :
          /\ classId[n] \in Class
          /\ 100 * boxScores[n] > Threshold * (ScaleDen * ScaleDen)
          /\ 0 <= boxes[4 * n - 1] /\ 0 <= boxes[4 * n]

THEOREM FitsPostProcessing == Spec => []Handed
<1>1. IInv => Handed
  <2>1. SUFFICES ASSUME IInv, NEW n \in 1 .. Len(classId)
                 PROVE  /\ classId[n] \in Class
                        /\ 100 * boxScores[n] > Threshold * (ScaleDen * ScaleDen)
                        /\ 0 <= boxes[4 * n - 1] /\ 0 <= boxes[4 * n]
    BY DEF Handed, IInv, Types
  <2>2. PICK s : Maps(s)
    BY <2>1 DEF IInv
  <2>3. /\ s[n] \in Cell /\ Wanted(s[n]) /\ Candidate(n, s[n]) /\ BoxOf(n, s[n])
    BY <2>1, <2>2 DEF Maps
  <2>4. PICK m \in Class :
           /\ \A l \in Class : content[s[n]][5 + l] <= content[s[n]][5 + m]
           /\ 100 * (Dequantize(content[s[n]][4], s[n].b)
                       * Dequantize(content[s[n]][5 + m], s[n].b))
                 > Threshold * (ScaleDen * ScaleDen)
    BY <2>3 DEF Wanted
  <2>5. content[s[n]][5 + m] = content[s[n]][5 + classId[n]]
    <3>1. /\ Class = 0 .. Classes - 1 /\ Classes \in Nat \ {0}
          /\ classId[n] \in Class /\ m \in 0 .. Classes - 1
      BY <2>3, DecodeAssumption DEF Candidate, Class
    <3>2. content[s[n]] \in Bytes
      BY <2>1, <2>3 DEF IInv, Types
    <3>3. 5 + m \in 0 .. PropSize - 1 /\ 5 + classId[n] \in 0 .. PropSize - 1
      BY <3>1 DEF PropSize
    <3>4. /\ content[s[n]][5 + m] \in 0 .. 255
          /\ content[s[n]][5 + classId[n]] \in 0 .. 255
      BY <3>2, <3>3 DEF Bytes
    <3>5. IF m < classId[n]
          THEN content[s[n]][5 + m] < content[s[n]][5 + classId[n]]
          ELSE content[s[n]][5 + m] <= content[s[n]][5 + classId[n]]
      BY <2>3, <3>1 DEF Candidate, FirstBest
    <3>6. content[s[n]][5 + classId[n]] <= content[s[n]][5 + m]
      BY <2>4, <3>1
    <3>7. \A p, q \in 0 .. 255 : p <= q /\ q <= p => p = q
      OBVIOUS
    <3>8. \A p, q \in 0 .. 255 : p < q => p <= q
      OBVIOUS
    <3>9. QED
      BY <3>4, <3>5, <3>6, <3>7, <3>8
  <2>6. 100 * boxScores[n] > Threshold * (ScaleDen * ScaleDen)
    <3>1. boxScores[n] = Dequantize(content[s[n]][4], s[n].b)
                            * Dequantize(content[s[n]][5 + classId[n]], s[n].b)
      BY <2>3 DEF Candidate
    <3>2. QED
      BY <2>4, <2>5, <3>1
  <2>7. 0 <= boxes[4 * n - 1] /\ 0 <= boxes[4 * n]
    BY <2>3 DEF BoxOf, Boxed
  <2>8. QED
    BY <2>3, <2>6, <2>7 DEF Candidate
<1>2. QED
  BY <1>1, Invariant, PTL

=============================================================================
