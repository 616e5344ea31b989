--------------------------- MODULE YoloPostProofs ---------------------------
(***************************************************************************)
(* The sort, the suppression and the result group are right for pictures   *)
(* with any number of candidates, any boxes, scores and thresholds.        *)
(*                                                                         *)
(* While a range is partitioned one element is out of the arrays.  With it *)
(* put back into the hole (FullScore, FullOrder) every scan is a swap of   *)
(* two places of the range in work, so the arrays stay a permutation; and  *)
(* two places not in one pending range are in order already (Apart).       *)
(***************************************************************************)
EXTENDS YoloPost, SequenceTheorems, FiniteSetTheorems, TLAPS

Places == 1 .. Count
Working == {"down", "up", "place"}
Sorting == Working \cup {"sort"}
Pending == [left : 1 .. Count + 1, right : 0 .. Count]

(* What a place of the group may hold.                                     *)
Inside ==
    {r \in [left : 0 .. Size, top : 0 .. Size, right : 0 .. Size, bottom : 0 .. Size,
            prop : Scores, class : Classes] : r.left <= r.right /\ r.top <= r.bottom}

Types ==
    /\ Count \in Nat
    /\ boxes \in [Places -> Boxes] /\ classId \in [Places -> Classes]
    /\ found \in [Places -> Scores]
    /\ score \in [Places -> Scores] /\ order \in [Places -> 0 .. Count]
    /\ todo \in Seq(Pending) /\ low \in Int /\ high \in Int
    /\ phase \in Sorting \cup {"nms", "emit", "done"}
    /\ phase \in Working => key \in Scores /\ keyIndex \in Places
    /\ i \in 1 .. Count + 1
    /\ phase \in Sorting => i = 1 /\ Count > 0
    /\ phase \in {"nms", "emit"} => i <= Count
    /\ phase = "done" => i = Count + 1
    /\ phase \in Sorting \cup {"nms"} => results = << >>
    /\ results \in Seq(Inside)

(* The key is missing at low, or at high after a scan down.                *)
Hole == IF phase = "up" THEN high ELSE low

FullScore == IF phase \in Working THEN [score EXCEPT ![Hole] = key] ELSE score
FullOrder == IF phase \in Working THEN [order EXCEPT ![Hole] = keyIndex] ELSE order

(* The index array o is a permutation, and s holds its candidates' scores. *)
Permutation(o) ==
    /\ o \in [Places -> Places]
    /\ \A k, m \in Places : o[k] = o[m] => k = m
    /\ \A m \in Places : \E k \in Places : o[k] = m

Paired(s, o) == \A k \in Places : s[k] = found[o[k]]

(* The pending ranges t do not meet, the one in work being the leftmost.   *)
Disjoint(t) ==
    /\ \A n \in 1 .. Len(t) : t[n].left <= t[n].right + 1
    /\ \A n, m \in 1 .. Len(t) : n < m => t[n].right < t[m].left

In(t, k, m) == \E n \in 1 .. Len(t) : t[n].left <= k /\ m <= t[n].right

Apart(s, t) == \A k, m \in Places : k < m => s[k] >= s[m] \/ In(t, k, m)

(* What the scans of the range in work have passed is on its side.         *)
Partitioned ==
    /\ Top.left <= low /\ low <= high /\ high <= Top.right
    /\ phase = "place" => low = high
    /\ \A k \in Places : Top.left <= k /\ k < low => score[k] >= key
    /\ \A k \in Places : high < k /\ k <= Top.right => score[k] <= key

SortInv ==
    phase \in Sorting =>
        /\ todo # << >> /\ Disjoint(todo)
        /\ Permutation(FullOrder) /\ Paired(FullScore, FullOrder)
        /\ Apart(FullScore, todo)
        /\ phase \in Working => Partitioned

(* Until the first turn of nms nothing is marked.                          *)
Sorted ==
    phase \in {"nms", "emit", "done"} =>
        /\ \A k, m \in Places : k < m => score[k] >= score[m]
        /\ phase = "nms" /\ i = 1 => Permutation(order) /\ Paired(score, order)

(* The places nms has dealt with: what is left there suppresses nothing    *)
(* more, and what is gone was suppressed from there by a better one.       *)
Turn == IF phase = "nms" THEN i ELSE Count + 1

Suppressed ==
    phase \in {"nms", "emit", "done"} =>
        /\ \A k \in Places : order[k] # 0 => score[k] = found[order[k]]
        /\ \A k, m \in Places : order[k] # 0 /\ order[k] = order[m] => k = m
        /\ \A k, m \in Places :
              k < Turn /\ k < m /\ order[k] # 0 /\ order[m] # 0
                  => ~Suppresses(order[k], order[m])
        /\ \A m \in Places :
              \/ \E k \in Places : order[k] = m
              \/ \E k \in Places : /\ k < Turn /\ order[k] # 0
                                   /\ Suppresses(order[k], m)
                                   /\ found[order[k]] >= found[m]

(* The group holds the results of the places pick names, in their order;   *)
(* a place left over is named unless the group was full before it.         *)
Picks(pick) ==
    /\ pick \in [1 .. Len(results) -> Places]
    /\ \A p, q \in 1 .. Len(results) : p < q => pick[p] < pick[q]
    /\ \A p \in 1 .. Len(results) :
          pick[p] < i /\ order[pick[p]] # 0 /\ results[p] = Result(pick[p])
    /\ \A k \in Places :
          k < i /\ order[k] # 0 =>
              \/ \E p \in 1 .. Len(results) : pick[p] = k
              \/ /\ Len(results) = MaxResults
                 /\ \A p \in 1 .. Len(results) : pick[p] < k

Filled ==
    phase \in {"emit", "done"} =>
        Len(results) <= MaxResults /\ \E pick : Picks(pick)

IInv == Types /\ SortInv /\ Sorted /\ Suppressed /\ Filled

-----------------------------------------------------------------------------
(* A swap of two places keeps a permutation one, and each score beside its *)
(* index.                                                                  *)
Swapped(f, p, q) ==
    [k \in Places |-> IF k = p THEN f[q] ELSE IF k = q THEN f[p] ELSE f[k]]

LEMMA SwapPermutes ==
    ASSUME NEW s, NEW o, Permutation(o), Paired(s, o),
           NEW p \in Places, NEW q \in Places
    PROVE  /\ Permutation(Swapped(o, p, q))
           /\ Paired(Swapped(s, p, q), Swapped(o, p, q))
<1>1. Swapped(o, p, q) \in [Places -> Places]
  BY DEF Permutation, Swapped
<1>2. ASSUME NEW k \in Places, NEW m \in Places,
             Swapped(o, p, q)[k] = Swapped(o, p, q)[m]
      PROVE  k = m
  BY <1>2 DEF Permutation, Swapped
<1>3. ASSUME NEW m \in Places
      PROVE  \E k \in Places : Swapped(o, p, q)[k] = m
  <2>1. PICK k \in Places : o[k] = m
    BY DEF Permutation
  <2>2. CASE k = p
    BY <2>1, <2>2 DEF Swapped
  <2>3. CASE k = q
    BY <2>1, <2>3 DEF Swapped
  <2>4. CASE k # p /\ k # q
    BY <2>1, <2>4 DEF Swapped
  <2>5. QED
    BY <2>2, <2>3, <2>4
<1>4. Paired(Swapped(s, p, q), Swapped(o, p, q))
  BY DEF Paired, Swapped
<1>5. QED
  BY <1>1, <1>2, <1>3, <1>4 DEF Permutation

(* What two pending ranges both hold shows that they are one.              *)
LEMMA PendingBounds ==
    ASSUME NEW t, Count \in Nat, t \in Seq(Pending)
    PROVE  /\ Len(t) \in Nat
           /\ \A n \in 1 .. Len(t) : /\ t[n].left \in 1 .. Count + 1
                                     /\ t[n].right \in 0 .. Count
<1>1. Len(t) \in Nat /\ \A n \in 1 .. Len(t) : t[n] \in Pending
  BY LenProperties, ElementOfSeq
<1>2. QED
  BY <1>1 DEF Pending

LEMMA OneRange ==
    ASSUME NEW t, Count \in Nat, t \in Seq(Pending), Disjoint(t),
           NEW n \in 1 .. Len(t), NEW m \in 1 .. Len(t), NEW k \in Int,
           t[n].left <= k, k <= t[n].right, t[m].left <= k, k <= t[m].right
    PROVE  m = n
<1>1. Len(t) \in Nat
  BY PendingBounds
<1>2. /\ t[n].left \in Int /\ t[n].right \in Int
      /\ t[m].left \in Int /\ t[m].right \in Int
  BY PendingBounds
<1>3. ~(n < m)
  <2>1. n < m => t[n].right < t[m].left
    BY DEF Disjoint
  <2>2. QED
    BY <1>2, <2>1
<1>4. ~(m < n)
  <2>1. m < n => t[m].right < t[n].left
    BY DEF Disjoint
  <2>2. QED
    BY <1>2, <2>1
<1>5. QED
  BY <1>1, <1>3, <1>4

(* What is in one range with a place of range n is in range n.             *)
LEMMA OneRangeOnly ==
    ASSUME NEW t, Count \in Nat, t \in Seq(Pending), Disjoint(t),
           NEW n \in 1 .. Len(t), NEW k \in Int, NEW m \in Int, k < m, In(t, k, m)
    PROVE  /\ t[n].left <= k /\ k <= t[n].right => m <= t[n].right
           /\ t[n].left <= m /\ m <= t[n].right => t[n].left <= k
<1>1. PICK r \in 1 .. Len(t) : t[r].left <= k /\ m <= t[r].right
  BY DEF In
<1>2. /\ t[n].left \in Int /\ t[n].right \in Int
      /\ t[r].left \in Int /\ t[r].right \in Int
  BY PendingBounds
<1>3. k <= t[r].right /\ t[r].left <= m
  BY <1>1, <1>2
<1>4. CASE t[n].left <= k /\ k <= t[n].right
  BY <1>1, <1>3, <1>4, OneRange
<1>5. CASE t[n].left <= m /\ m <= t[n].right
  BY <1>1, <1>3, <1>5, OneRange
<1>6. QED
  BY <1>4, <1>5

(* A swap inside one pending range does not put anything out of order:     *)
(* what is outside of the range is in order with all of it.                *)
LEMMA SwapKeepsApart ==
    ASSUME NEW s, NEW t, Count \in Nat, t \in Seq(Pending),
           s \in [Places -> Int], Disjoint(t), Apart(s, t), NEW n \in 1 .. Len(t),
           NEW p \in Places, t[n].left <= p, p <= t[n].right,
           NEW q \in Places, t[n].left <= q, q <= t[n].right
    PROVE  Apart(Swapped(s, p, q), t)
<1> USE DEF Places
<1> DEFINE z == Swapped(s, p, q)
<1>1. /\ Len(t) \in Nat
      /\ \A r \in 1 .. Len(t) : t[r].left \in Int /\ t[r].right \in Int
  BY PendingBounds
<1>2. ASSUME NEW k \in Places, NEW m \in Places, k < m, ~In(t, k, m)
      PROVE  z[k] >= z[m]
  <2>1. PICK k1 \in Places : /\ z[k] = s[k1]
                             /\ k1 = k \/ {k, k1} \subseteq {p, q}
    BY DEF Swapped
  <2>2. PICK m1 \in Places : /\ z[m] = s[m1]
                             /\ m1 = m \/ {m, m1} \subseteq {p, q}
    BY DEF Swapped
  <2>3. ~(k \in {p, q} /\ m \in {p, q})
    BY <1>1, <1>2 DEF In
  <2>4. k1 < m1 /\ ~In(t, k1, m1)
    <3>1. CASE k1 = k /\ m1 = m
      BY <1>2, <3>1
    <3>2. CASE k \in {p, q} /\ k1 \in {p, q} /\ m1 = m
      <4>1. t[n].right < m
        BY <1>1, <1>2, <3>2 DEF In
      <4>2. t[n].left <= k1 /\ k1 <= t[n].right /\ k1 \in Int /\ m \in Int
        BY <3>2
      <4>3. t[n].right \in Int
        BY <1>1
      <4>4. k1 < m
        BY <4>1, <4>2, <4>3
      <4>5. ~In(t, k1, m)
        <5>1. ~(m <= t[n].right)
          BY <4>1, <4>2, <4>3
        <5>2. QED
          BY <4>2, <4>4, <5>1, OneRangeOnly
      <4>6. QED
        BY <3>2, <4>4, <4>5
    <3>3. CASE m \in {p, q} /\ m1 \in {p, q} /\ k1 = k
      <4>1. k < t[n].left
        BY <1>1, <1>2, <3>3 DEF In
      <4>2. t[n].left <= m1 /\ m1 <= t[n].right /\ m1 \in Int /\ k \in Int
        BY <3>3
      <4>3. t[n].left \in Int
        BY <1>1
      <4>4. k < m1
        BY <4>1, <4>2, <4>3
      <4>5. ~In(t, k, m1)
        <5>1. ~(t[n].left <= k)
          BY <4>1, <4>2, <4>3
        <5>2. QED
          BY <4>2, <4>4, <5>1, OneRangeOnly
      <4>6. QED
        BY <3>3, <4>4, <4>5
    <3>4. QED
      BY <2>1, <2>2, <2>3, <3>1, <3>2, <3>3
  <2>5. QED
    BY <2>1, <2>2, <2>4 DEF Apart
<1>3. QED
  BY <1>2 DEF Apart

(* A scan that moves an element into the hole and leaves its place as the  *)
(* new hole swaps the two in the arrays with the key put back.             *)
LEMMA ScanSwaps ==
    ASSUME Types, phase \in {"down", "up"}, Hole \in Places, NEW k \in Places,
           Move(Hole, k), phase' \in Working, Hole' = k,
           UNCHANGED <<detected, key, keyIndex>>
    PROVE  /\ FullScore' = Swapped(FullScore, Hole, k)
           /\ FullOrder' = Swapped(FullOrder, Hole, k)
<1>1. phase \in Working /\ Count' = Count /\ Places' = Places
  BY DEF Working, Count, Places, detected
<1>2. /\ score \in [Places -> Scores] /\ order \in [Places -> 0 .. Count]
      /\ key \in Scores /\ keyIndex \in Places
  BY <1>1 DEF Types
<1>3. /\ score' = [score EXCEPT ![Hole] = score[k]]
      /\ order' = [order EXCEPT ![Hole] = order[k]]
  BY DEF Move
<1>4. FullScore' = [[score EXCEPT ![Hole] = score[k]] EXCEPT ![k] = key]
  BY <1>1, <1>3 DEF FullScore
<1>5. FullOrder' = [[order EXCEPT ![Hole] = order[k]] EXCEPT ![k] = keyIndex]
  BY <1>1, <1>3 DEF FullOrder
<1>6. QED
  BY <1>1, <1>2, <1>4, <1>5 DEF FullScore, FullOrder, Swapped

(* The steps of the sort change no candidate and no result.                *)
LEMMA CandidatesKept ==
    ASSUME UNCHANGED detected
    PROVE  /\ Count' = Count /\ Places' = Places /\ Pending' = Pending
           /\ boxes' = boxes /\ classId' = classId /\ found' = found
BY DEF detected, Count, Places, Pending

LEMMA SortTypes ==
    ASSUME Types, phase \in Sorting, UNCHANGED <<detected, i, results>>,
           score' \in [Places -> Scores], order' \in [Places -> 0 .. Count],
           todo' \in Seq(Pending), low' \in Int, high' \in Int, phase' \in Sorting,
           phase' \in Working => key' \in Scores /\ keyIndex' \in Places
    PROVE  Types'
<1>1. results = << >> /\ phase' \notin {"nms", "emit", "done"}
  BY DEF Types, Sorting, Working
<1>2. QED
  BY <1>1, CandidatesKept DEF Types

LEMMA ScoresAreIntegers == Scores \subseteq Int
BY PostAssumption

LEMMA TopInTodo ==
    ASSUME Types, todo # << >>
    PROVE  /\ Len(todo) \in Nat \ {0} /\ 1 \in 1 .. Len(todo) /\ Top = todo[1]
           /\ Top.left \in 1 .. Count + 1 /\ Top.right \in 0 .. Count
           /\ Tail(todo) \in Seq(Pending) /\ Len(Tail(todo)) = Len(todo) - 1
           /\ \A n \in 1 .. Len(todo) - 1 : Tail(todo)[n] = todo[n + 1]
<1>1. Len(todo) \in Nat \ {0}
  BY EmptySeq DEF Types
<1>2. /\ Top = todo[1] /\ Top \in Pending
      /\ Tail(todo) \in Seq(Pending) /\ Len(Tail(todo)) = Len(todo) - 1
      /\ \A n \in 1 .. Len(Tail(todo)) : Tail(todo)[n] = todo[n + 1]
  BY HeadTailProperties DEF Types, Top
<1>3. QED
  BY <1>1, <1>2 DEF Pending

LEMMA TakeKeyStep ==
    ASSUME Types, SortInv, TakeKey
    PROVE  Types' /\ SortInv' /\ Sorted'
<1>1. phase = "sort" /\ phase' = "down" /\ phase \in Sorting /\ phase' \in Working
  BY DEF TakeKey, Sorting, Working
<1>2. UNCHANGED <<detected, score, order, todo, i, results>>
  BY DEF TakeKey
<1>3. /\ todo # << >> /\ Disjoint(todo) /\ Permutation(order)
      /\ Paired(score, order) /\ Apart(score, todo)
  BY <1>1 DEF SortInv, FullScore, FullOrder, Working
<1>4. Count \in Nat /\ Top.left \in Places /\ Top.right \in Places
  BY <1>3, TopInTodo DEF Types, TakeKey, Places
<1>5. /\ low' = Top.left /\ high' = Top.right /\ key' = score[Top.left]
      /\ keyIndex' = order[Top.left] /\ Top' = Top /\ Top.left < Top.right
  BY DEF TakeKey, Top
<1>6. key' \in Scores /\ keyIndex' \in Places /\ low' \in Int /\ high' \in Int
  <2>1. score \in [Places -> Scores] /\ order \in [Places -> Places]
    BY <1>3 DEF Types, Permutation
  <2>2. Top.left \in Int /\ Top.right \in Int
    BY <1>4 DEF Places
  <2>3. QED
    BY <1>4, <1>5, <2>1, <2>2
<1>7. Types'
  <2>1. /\ score \in [Places -> Scores] /\ order \in [Places -> 0 .. Count]
        /\ todo \in Seq(Pending)
    BY DEF Types
  <2>2. phase' \in Sorting
    BY <1>1 DEF Sorting
  <2>3. QED
    BY <1>1, <1>2, <1>6, <2>1, <2>2, SortTypes
<1>8. FullScore' = score /\ FullOrder' = order
  <2>1. score \in [Places -> Scores] /\ order \in [Places -> 0 .. Count]
    BY DEF Types
  <2>2. Hole' = Top.left
    BY <1>1, <1>5 DEF Hole
  <2>3. QED
    BY <1>1, <1>2, <1>4, <1>5, <2>1, <2>2 DEF FullScore, FullOrder
<1>9. Partitioned'
  BY <1>1, <1>2, <1>4, <1>5, CandidatesKept DEF Partitioned, Places
<1>10. SortInv'
  BY <1>1, <1>2, <1>3, <1>8, <1>9, CandidatesKept
     DEF SortInv, Permutation, Paired, Apart, In, Disjoint
<1>11. Sorted'
  BY <1>1 DEF Sorted
<1>12. QED
  BY <1>7, <1>10, <1>11

(* What a scan that ends at place k of the range in work does to the       *)
(* arrays with the key put back.                                           *)
LEMMA ScanKeeps ==
    ASSUME Types, SortInv, phase \in {"down", "up"}, phase' \in Working,
           NEW k \in Int, low <= k, k <= high, Move(Hole, k), Hole' = k,
           UNCHANGED <<detected, todo, key, keyIndex>>
    PROVE  /\ Permutation(FullOrder)' /\ Paired(FullScore, FullOrder)'
           /\ Apart(FullScore, todo)'
<1>1. phase \in Working /\ phase \in Sorting
  BY DEF Working, Sorting
<1>2. /\ todo # << >> /\ Disjoint(todo) /\ Permutation(FullOrder)
      /\ Paired(FullScore, FullOrder) /\ Apart(FullScore, todo) /\ Partitioned
  BY <1>1 DEF SortInv
<1>3. /\ Count \in Nat /\ low \in Int /\ high \in Int /\ todo \in Seq(Pending)
      /\ key \in Scores /\ score \in [Places -> Scores]
  BY <1>1 DEF Types
<1>4. /\ Top.left \in 1 .. Count + 1 /\ Top.right \in 0 .. Count
      /\ Top = todo[1] /\ 1 \in 1 .. Len(todo)
  BY <1>2, TopInTodo
<1>5. /\ Top.left <= low /\ low <= high /\ high <= Top.right
  BY <1>2 DEF Partitioned
<1>6. /\ Hole \in Places /\ Top.left <= Hole /\ Hole <= Top.right
      /\ k \in Places /\ Top.left <= k /\ k <= Top.right
  BY <1>3, <1>4, <1>5 DEF Hole, Places
<1>7. /\ FullScore' = Swapped(FullScore, Hole, k)
      /\ FullOrder' = Swapped(FullOrder, Hole, k)
  BY <1>6, ScanSwaps
<1>8. /\ Permutation(Swapped(FullOrder, Hole, k))
      /\ Paired(Swapped(FullScore, Hole, k), Swapped(FullOrder, Hole, k))
  BY <1>2, <1>6, SwapPermutes
<1>9. FullScore \in [Places -> Int]
  BY <1>1, <1>3, <1>6, ScoresAreIntegers DEF FullScore
<1>10. Apart(Swapped(FullScore, Hole, k), todo)
  BY <1>2, <1>3, <1>4, <1>6, <1>9, SwapKeepsApart
<1>11. QED
  BY <1>7, <1>8, <1>10, CandidatesKept DEF Permutation, Paired, Apart, In

LEMMA ScanDownStep ==
    ASSUME Types, SortInv, ScanDown
    PROVE  Types' /\ SortInv' /\ Sorted'
<1>1. /\ phase = "down" /\ phase' = "up" /\ phase \in Sorting /\ phase \in Working
      /\ phase' \in Sorting /\ phase' \in Working
  BY DEF ScanDown, Sorting, Working
<1>2. UNCHANGED <<detected, todo, low, key, keyIndex, i, results>>
  BY DEF ScanDown
<1>3. todo # << >> /\ Disjoint(todo) /\ Partitioned
  BY <1>1 DEF SortInv
<1>4. /\ Count \in Nat /\ low \in Int /\ high \in Int
      /\ key \in Scores /\ keyIndex \in Places
      /\ score \in [Places -> Scores] /\ order \in [Places -> 0 .. Count]
  BY <1>1 DEF Types
<1>5. PICK h \in low .. high :
         /\ \A k \in h + 1 .. high : score[k] <= key
         /\ Move(low, h) /\ high' = h
  BY DEF ScanDown
<1>6. /\ Top.left \in 1 .. Count + 1 /\ Top.right \in 0 .. Count
      /\ Top.left <= low /\ low <= high /\ high <= Top.right /\ Top' = Top
  BY <1>2, <1>3, TopInTodo DEF Partitioned, Top
<1>7. h \in Places /\ low \in Places /\ high \in Places
  BY <1>4, <1>5, <1>6 DEF Places
<1>8. /\ score' = [score EXCEPT ![low] = score[h]]
      /\ order' = [order EXCEPT ![low] = order[h]]
  BY <1>5 DEF Move
<1>9. Types'
  <2>1. score' \in [Places -> Scores] /\ order' \in [Places -> 0 .. Count]
    BY <1>4, <1>7, <1>8
  <2>2. h \in Int /\ todo \in Seq(Pending)
    BY <1>4, <1>5 DEF Types
  <2>3. QED
    BY <1>1, <1>2, <1>4, <1>5, <2>1, <2>2, SortTypes
<1>10. Partitioned'
  <2>1. ASSUME NEW k \in Places, Top.left <= k, k < low
        PROVE  score'[k] >= key
    BY <1>3, <1>4, <1>7, <1>8, <2>1 DEF Partitioned, Places
  <2>2. ASSUME NEW k \in Places, h < k, k <= Top.right
        PROVE  score'[k] <= key
    <3>1. score'[k] = score[k]
      BY <1>4, <1>5, <1>7, <1>8, <2>2 DEF Places
    <3>2. score[k] <= key
      BY <1>3, <1>4, <1>5, <1>7, <2>2 DEF Partitioned, Places
    <3>3. QED
      BY <3>1, <3>2
  <2>3. QED
    BY <1>1, <1>2, <1>4, <1>5, <1>6, <2>1, <2>2, CandidatesKept DEF Partitioned
<1>11. /\ Permutation(FullOrder)' /\ Paired(FullScore, FullOrder)'
       /\ Apart(FullScore, todo)'
  <2>1. Hole = low /\ Hole' = h
    BY <1>1, <1>5 DEF Hole
  <2>2. h \in Int /\ low <= h /\ h <= high /\ Move(Hole, h)
    BY <1>4, <1>5, <2>1
  <2>3. QED
    BY <1>1, <1>2, <2>1, <2>2, ScanKeeps
<1>12. SortInv'
  BY <1>1, <1>2, <1>3, <1>10, <1>11 DEF SortInv, Disjoint
<1>13. Sorted'
  BY <1>1 DEF Sorted
<1>14. QED
  BY <1>9, <1>12, <1>13

LEMMA ScanUpStep ==
    ASSUME Types, SortInv, ScanUp
    PROVE  Types' /\ SortInv' /\ Sorted'
<1>1. PICK l \in low .. high :
         /\ \A k \in low .. l - 1 : score[k] >= key
         /\ Move(high, l) /\ low' = l
         /\ phase' = IF l < high THEN "down" ELSE "place"
  BY DEF ScanUp
<1>2. /\ phase = "up" /\ phase \in Sorting /\ phase \in Working
      /\ phase' \in {"down", "place"} /\ phase' \in Sorting /\ phase' \in Working
  BY <1>1 DEF ScanUp, Sorting, Working
<1>3. UNCHANGED <<detected, todo, high, key, keyIndex, i, results>>
  BY DEF ScanUp
<1>4. todo # << >> /\ Disjoint(todo) /\ Partitioned
  BY <1>2 DEF SortInv
<1>5. /\ Count \in Nat /\ low \in Int /\ high \in Int
      /\ key \in Scores /\ keyIndex \in Places
      /\ score \in [Places -> Scores] /\ order \in [Places -> 0 .. Count]
  BY <1>2 DEF Types
<1>6. /\ Top.left \in 1 .. Count + 1 /\ Top.right \in 0 .. Count
      /\ Top.left <= low /\ low <= high /\ high <= Top.right /\ Top' = Top
  BY <1>3, <1>4, TopInTodo DEF Partitioned, Top
<1>7. l \in Places /\ low \in Places /\ high \in Places
  BY <1>1, <1>5, <1>6 DEF Places
<1>8. /\ score' = [score EXCEPT ![high] = score[l]]
      /\ order' = [order EXCEPT ![high] = order[l]]
  BY <1>1 DEF Move
<1>9. Types'
  <2>1. score' \in [Places -> Scores] /\ order' \in [Places -> 0 .. Count]
    BY <1>5, <1>7, <1>8
  <2>2. l \in Int /\ todo \in Seq(Pending)
    BY <1>1, <1>5 DEF Types
  <2>3. QED
    BY <1>1, <1>2, <1>3, <1>5, <2>1, <2>2, SortTypes
<1>10. Partitioned'
  <2>1. ASSUME NEW k \in Places, Top.left <= k, k < l
        PROVE  score'[k] >= key
    <3>1. score'[k] = score[k]
      BY <1>1, <1>5, <1>7, <1>8, <2>1 DEF Places
    <3>2. score[k] >= key
      BY <1>1, <1>4, <1>5, <1>7, <2>1 DEF Partitioned, Places
    <3>3. QED
      BY <3>1, <3>2
  <2>2. ASSUME NEW k \in Places, high < k, k <= Top.right
        PROVE  score'[k] <= key
    BY <1>4, <1>5, <1>7, <1>8, <2>2 DEF Partitioned, Places
  <2>3. phase' = "place" => low' = high
    BY <1>1, <1>5, <1>7
  <2>4. QED
    BY <1>1, <1>3, <1>5, <1>6, <2>1, <2>2, <2>3, CandidatesKept DEF Partitioned
<1>11. /\ Permutation(FullOrder)' /\ Paired(FullScore, FullOrder)'
       /\ Apart(FullScore, todo)'
  <2>1. Hole = high /\ Hole' = l
    BY <1>1, <1>2 DEF Hole
  <2>2. l \in Int /\ low <= l /\ l <= high /\ Move(Hole, l)
    BY <1>1, <1>5, <2>1
  <2>3. QED
    BY <1>2, <1>3, <2>1, <2>2, ScanKeeps
<1>12. SortInv'
  BY <1>2, <1>3, <1>4, <1>10, <1>11 DEF SortInv, Disjoint
<1>13. Sorted'
  BY <1>2 DEF Sorted
<1>14. QED
  BY <1>9, <1>12, <1>13

(* The two sides of a placed key take the place of their range.            *)
LEMMA TwoSides ==
    ASSUME Types, todo # << >>, NEW x \in Pending, NEW y \in Pending,
           todo' = <<x, y>> \o Tail(todo)
    PROVE  /\ todo' \in Seq(Pending) /\ Len(todo') = Len(todo) + 1 /\ todo' # << >>
           /\ todo'[1] = x /\ todo'[2] = y
           /\ \A n \in 3 .. Len(todo') : n - 1 \in 2 .. Len(todo) /\ todo'[n] = todo[n - 1]
<1> DEFINE two == <<x, y>>
<1>1. two \in Seq(Pending) /\ Len(two) = 2 /\ two[1] = x /\ two[2] = y
  OBVIOUS
<1>2. /\ Len(todo) \in Nat \ {0} /\ Tail(todo) \in Seq(Pending)
      /\ Len(Tail(todo)) = Len(todo) - 1
      /\ \A n \in 1 .. Len(todo) - 1 : Tail(todo)[n] = todo[n + 1]
  BY TopInTodo
<1> HIDE DEF two
<1>3. /\ todo' \in Seq(Pending) /\ Len(todo') = 2 + Len(Tail(todo))
      /\ \A n \in 1 .. 2 + Len(Tail(todo)) :
            todo'[n] = IF n <= 2 THEN two[n] ELSE Tail(todo)[n - 2]
  BY <1>1, <1>2, ConcatProperties DEF two
<1>4. Len(todo') = Len(todo) + 1 /\ todo'[1] = x /\ todo'[2] = y
  BY <1>1, <1>2, <1>3
<1>5. ASSUME NEW n \in 3 .. Len(todo')
      PROVE  n - 1 \in 2 .. Len(todo) /\ todo'[n] = todo[n - 1]
  <2>1. n - 2 \in 1 .. Len(todo) - 1 /\ (n - 2) + 1 = n - 1
    BY <1>2, <1>4
  <2>2. todo'[n] = Tail(todo)[n - 2]
    BY <1>2, <1>3, <1>4
  <2>3. QED
    BY <1>2, <2>1, <2>2
<1>6. todo' # << >>
  BY <1>2, <1>3, <1>4
<1>7. QED
  BY <1>3, <1>4, <1>5, <1>6

LEMMA PlaceStep ==
    ASSUME Types, SortInv, Place
    PROVE  Types' /\ SortInv' /\ Sorted'
<1> DEFINE x == [left |-> Top.left, right |-> low - 1]
           y == [left |-> low + 1, right |-> Top.right]
<1>1. /\ phase = "place" /\ phase' = "sort" /\ phase \in Sorting
      /\ phase \in Working /\ phase' \in Sorting /\ phase' \notin Working
  BY DEF Place, Sorting, Working
<1>2. UNCHANGED <<detected, low, high, key, keyIndex, i, results>>
  BY DEF Place
<1>3. /\ todo # << >> /\ Disjoint(todo) /\ Partitioned /\ Permutation(FullOrder)
      /\ Paired(FullScore, FullOrder) /\ Apart(FullScore, todo)
  BY <1>1 DEF SortInv
<1>4. /\ Count \in Nat /\ low \in Int /\ high \in Int
      /\ key \in Scores /\ keyIndex \in Places
      /\ score \in [Places -> Scores] /\ order \in [Places -> 0 .. Count]
  BY <1>1 DEF Types
<1>5. /\ Top.left \in 1 .. Count + 1 /\ Top.right \in 0 .. Count /\ Top = todo[1]
      /\ Len(todo) \in Nat \ {0} /\ 1 \in 1 .. Len(todo)
  BY <1>3, TopInTodo
<1>6. Top.left <= low /\ low <= Top.right /\ low = high
  BY <1>1, <1>3, <1>4, <1>5 DEF Partitioned
<1>7. low \in Places /\ x \in Pending /\ y \in Pending
  BY <1>4, <1>5, <1>6 DEF Places, Pending
<1>8. /\ score' = [score EXCEPT ![low] = key] /\ order' = [order EXCEPT ![low] = keyIndex]
      /\ todo' = <<x, y>> \o Tail(todo)
  BY DEF Place
<1>9. /\ FullScore = score' /\ FullOrder = order'
      /\ FullScore' = score' /\ FullOrder' = order'
  BY <1>1, <1>8 DEF FullScore, FullOrder, Hole
<1>10. /\ todo' \in Seq(Pending) /\ Len(todo') = Len(todo) + 1 /\ todo' # << >>
       /\ todo'[1] = x /\ todo'[2] = y
       /\ \A n \in 3 .. Len(todo') : n - 1 \in 2 .. Len(todo) /\ todo'[n] = todo[n - 1]
  <2> HIDE DEF x, y
  <2> QED
    BY <1>3, <1>7, <1>8, TwoSides
<1>11. Types'
  <2>1. score' \in [Places -> Scores] /\ order' \in [Places -> 0 .. Count]
    BY <1>4, <1>7, <1>8 DEF Places
  <2>2. QED
    BY <1>1, <1>2, <1>4, <1>10, <2>1, SortTypes
<1>12. \A n \in 1 .. Len(todo) : todo[n].left \in Int /\ todo[n].right \in Int
  BY PendingBounds DEF Types
<1>13. Disjoint(todo')
  <2>1. ASSUME NEW n \in 1 .. Len(todo')
        PROVE  todo'[n].left <= todo'[n].right + 1
    <3>1. CASE n \in 3 .. Len(todo')
      BY <1>3, <1>10, <3>1 DEF Disjoint
    <3>2. CASE n \in {1, 2}
      BY <1>4, <1>5, <1>6, <1>10, <3>2
    <3>3. QED
      BY <1>5, <1>10, <3>1, <3>2
  <2>2. ASSUME NEW n \in 1 .. Len(todo'), NEW m \in 1 .. Len(todo'), n < m
        PROVE  todo'[n].right < todo'[m].left
    <3>1. CASE n \in 3 .. Len(todo') /\ m \in 3 .. Len(todo')
      <4>1. n - 1 \in 1 .. Len(todo) /\ m - 1 \in 1 .. Len(todo) /\ n - 1 < m - 1
        BY <1>5, <1>10, <2>2, <3>1
      <4>2. QED
        BY <1>3, <1>10, <3>1, <4>1 DEF Disjoint
    <3>2. CASE n \in {1, 2} /\ m \in 3 .. Len(todo')
      <4>1. m - 1 \in 1 .. Len(todo) /\ 1 < m - 1 /\ todo'[m] = todo[m - 1]
        BY <1>5, <1>10, <3>2
      <4>2. Top.right < todo'[m].left
        BY <1>3, <1>5, <4>1 DEF Disjoint
      <4>3. todo'[m].left \in Int
        BY <1>12, <4>1
      <4>4. todo'[n].right \in Int /\ todo'[n].right <= Top.right
        <5>1. x.right <= Top.right /\ y.right <= Top.right /\ x.right \in Int /\ y.right \in Int
          BY <1>4, <1>5, <1>6
        <5>2. todo'[n] = x \/ todo'[n] = y
          BY <1>10, <3>2
        <5>3. QED
          BY <5>1, <5>2
      <4>5. QED
        BY <1>5, <4>2, <4>3, <4>4
    <3>3. CASE n = 1 /\ m = 2
      BY <1>4, <1>10, <3>3
    <3>4. QED
      BY <1>5, <1>10, <2>2, <3>1, <3>2, <3>3
  <2>3. QED
    BY <2>1, <2>2 DEF Disjoint
<1>14. Apart(score', todo')
  <2>1. score' \in [Places -> Int]
    BY <1>4, <1>7, <1>8, ScoresAreIntegers
  <2>2. ASSUME NEW k \in Places, NEW m \in Places, k < m, ~In(todo', k, m)
        PROVE  score'[k] >= score'[m]
    <3>1. CASE ~In(todo, k, m)
      BY <1>3, <1>9, <2>2, <3>1 DEF Apart
    <3>2. CASE In(todo, k, m)
      <4>1. PICK n \in 1 .. Len(todo) : todo[n].left <= k /\ m <= todo[n].right
        BY <3>2 DEF In
      <4>2. n = 1
        <5>1. SUFFICES ASSUME n # 1 PROVE FALSE
          OBVIOUS
        <5>2. n + 1 \in 3 .. Len(todo') /\ n + 1 \in 1 .. Len(todo') /\ (n + 1) - 1 = n
          BY <1>5, <1>10, <5>1
        <5>3. todo'[n + 1] = todo[n]
          BY <1>10, <5>2
        <5>4. QED
          BY <2>2, <4>1, <5>2, <5>3 DEF In
      <4>3. Top.left <= k /\ m <= Top.right
        BY <1>5, <4>1, <4>2
      <4>4. 1 \in 1 .. Len(todo') /\ 2 \in 1 .. Len(todo')
        BY <1>5, <1>10
      <4>5. ~(m <= low - 1) /\ ~(low + 1 <= k)
        BY <1>10, <2>2, <4>3, <4>4 DEF In
      <4>6. m >= low /\ k <= low
        BY <1>4, <4>5 DEF Places
      <4>7. score'[k] >= key
        <5>1. CASE k = low
          BY <1>4, <1>7, <1>8, <5>1, ScoresAreIntegers
        <5>2. CASE k < low
          <6>1. score[k] >= key
            BY <1>3, <4>3, <5>2 DEF Partitioned
          <6>2. score'[k] = score[k]
            BY <1>4, <1>7, <1>8, <5>2 DEF Places
          <6>3. QED
            BY <6>1, <6>2
        <5>3. QED
          BY <1>4, <4>6, <5>1, <5>2 DEF Places
      <4>8. score'[m] <= key
        <5>1. CASE m = low
          BY <1>4, <1>7, <1>8, <5>1, ScoresAreIntegers
        <5>2. CASE low < m
          <6>1. score[m] <= key
            BY <1>3, <1>6, <4>3, <5>2 DEF Partitioned
          <6>2. score'[m] = score[m]
            BY <1>4, <1>7, <1>8, <5>2 DEF Places
          <6>3. QED
            BY <6>1, <6>2
        <5>3. QED
          BY <1>4, <4>6, <5>1, <5>2 DEF Places
      <4>9. QED
        BY <1>4, <2>1, <4>7, <4>8, ScoresAreIntegers
    <3>3. QED
      BY <3>1, <3>2
  <2>3. QED
    BY <2>2 DEF Apart
<1>15. SortInv'
  BY <1>1, <1>2, <1>3, <1>9, <1>10, <1>13, <1>14, CandidatesKept
     DEF SortInv, Permutation, Paired, Apart, In, Disjoint
<1>16. Sorted'
  BY <1>1 DEF Sorted
<1>17. QED
  BY <1>11, <1>15, <1>16

LEMMA ReturnStep ==
    ASSUME Types, SortInv, Return
    PROVE  Types' /\ SortInv' /\ Sorted'
<1>1. /\ phase = "sort" /\ phase \in Sorting /\ phase \notin Working
      /\ phase' = IF Len(todo) = 1 THEN "nms" ELSE "sort"
      /\ phase' \notin Working /\ todo' = Tail(todo)
  BY DEF Return, Sorting, Working
<1>2. UNCHANGED <<detected, score, order, low, high, key, keyIndex, i, results>>
  BY DEF Return
<1>3. /\ todo # << >> /\ Disjoint(todo) /\ Permutation(order)
      /\ Paired(score, order) /\ Apart(score, todo)
  BY <1>1 DEF SortInv, FullScore, FullOrder
<1>4. /\ Top.left \in 1 .. Count + 1 /\ Top.right \in 0 .. Count /\ Top = todo[1]
      /\ Len(todo) \in Nat \ {0} /\ todo' \in Seq(Pending)
      /\ Len(todo') = Len(todo) - 1 /\ Top.left >= Top.right
      /\ \A n \in 1 .. Len(todo) - 1 : todo'[n] = todo[n + 1]
  BY <1>1, <1>3, TopInTodo DEF Return
<1>5. FullScore' = score /\ FullOrder' = order
  BY <1>1, <1>2 DEF FullScore, FullOrder
<1>6. Disjoint(todo')
  <2>1. ASSUME NEW n \in 1 .. Len(todo')
        PROVE  n + 1 \in 1 .. Len(todo) /\ todo'[n] = todo[n + 1]
    BY <1>4
  <2>2. ASSUME NEW n \in 1 .. Len(todo'), NEW m \in 1 .. Len(todo'), n < m
        PROVE  todo'[n].right < todo'[m].left
    <3>1. n + 1 < m + 1
      BY <1>4, <2>2
    <3>2. QED
      BY <1>3, <2>1, <3>1 DEF Disjoint
  <2>3. QED
    BY <1>3, <2>1, <2>2 DEF Disjoint
<1>7. Apart(score, todo')
  <2>1. ASSUME NEW k \in Places, NEW m \in Places, k < m, In(todo, k, m)
        PROVE  In(todo', k, m)
    <3>1. PICK n \in 1 .. Len(todo) : todo[n].left <= k /\ m <= todo[n].right
      BY <2>1 DEF In
    <3>2. n # 1
      BY <1>4, <2>1, <3>1 DEF Places
    <3>3. n - 1 \in 1 .. Len(todo) - 1 /\ todo'[n - 1] = todo[n]
      BY <1>4, <3>2
    <3>4. QED
      BY <1>4, <3>1, <3>3 DEF In
  <2>2. QED
    BY <1>3, <2>1 DEF Apart
<1>8. CASE Len(todo) = 1
  <2>1. phase' = "nms" /\ phase' \notin Sorting
    BY <1>1, <1>8 DEF Sorting, Working
  <2>2. \A k, m \in Places : k < m => score[k] >= score[m]
    BY <1>4, <1>7, <1>8 DEF Apart, In
  <2>3. Sorted'
    BY <1>2, <1>3, <2>1, <2>2, CandidatesKept DEF Sorted, Permutation, Paired
  <2>4. SortInv'
    BY <2>1 DEF SortInv
  <2>5. Types'
    <3>1. i = 1 /\ Count > 0 /\ results = << >>
      BY <1>1 DEF Types
    <3>2. QED
      BY <1>2, <1>4, <2>1, <3>1, CandidatesKept DEF Types, Working
  <2>6. QED
    BY <2>3, <2>4, <2>5
<1>9. CASE Len(todo) # 1
  <2>1. phase' = "sort" /\ phase' \in Sorting /\ todo' # << >>
    <3>1. phase' = "sort"
      BY <1>1, <1>9
    <3>2. Len(todo') # 0
      BY <1>4, <1>9
    <3>3. QED
      BY <3>1, <3>2 DEF Sorting
  <2>2. Types'
    BY <1>1, <1>2, <1>4, <2>1, SortTypes DEF Types
  <2>3. SortInv'
    BY <1>1, <1>2, <1>3, <1>5, <1>6, <1>7, <2>1, CandidatesKept
       DEF SortInv, Permutation, Paired, Apart, In, Disjoint
  <2>4. Sorted'
    BY <2>1 DEF Sorted
  <2>5. QED
    BY <2>2, <2>3, <2>4
<1>10. QED
  BY <1>8, <1>9

LEMMA SortStep ==
    ASSUME Types, SortInv, Sort
    PROVE  IInv'
<1>1. Types' /\ SortInv' /\ Sorted'
  BY TakeKeyStep, ScanDownStep, ScanUpStep, PlaceStep, ReturnStep DEF Sort
<1>2. phase \in Sorting /\ phase' \in Sorting \cup {"nms"} /\ i' = i
  BY DEF Sort, TakeKey, ScanDown, ScanUp, Place, Return, Sorting, Working
<1>3. Suppressed'
  <2>1. CASE phase' = "nms"
    <3>1. i' = 1
      BY <1>2 DEF Types
    <3>2. Permutation(order)' /\ Paired(score, order)'
      BY <1>1, <2>1, <3>1 DEF Sorted
    <3>3. \A k \in Places' : ~(k < Turn')
      BY <1>1, <2>1, <3>1 DEF Turn, Places, Types
    <3>4. QED
      BY <3>2, <3>3 DEF Suppressed, Permutation, Paired
  <2>2. CASE phase' # "nms"
    BY <1>2, <2>2 DEF Suppressed, Sorting, Working
  <2>3. QED
    BY <2>1, <2>2
<1>4. Filled'
  BY <1>2 DEF Filled, Sorting, Working
<1>5. QED
  BY <1>1, <1>3, <1>4 DEF IInv

LEMMA SuppressStep ==
    ASSUME IInv, Suppress
    PROVE  IInv'
<1>1. /\ phase = "nms" /\ phase' = IF i = Count THEN "emit" ELSE "nms"
      /\ i' = IF i = Count THEN 1 ELSE i + 1
      /\ order' = IF order[i] = 0 THEN order ELSE
                [j \in 1 .. Count |->
                    IF j > i /\ order[j] # 0 /\ Suppresses(order[i], order[j])
                    THEN 0 ELSE order[j]]
  BY DEF Suppress
<1>2. /\ UNCHANGED <<detected, score, todo, low, high, results>>
      /\ Count' = Count /\ Places' = Places
  BY CandidatesKept DEF Suppress, sorter
<1>3. /\ Count \in Nat /\ i \in Places /\ order \in [Places -> 0 .. Count]
      /\ score \in [Places -> Scores] /\ results = << >>
  BY <1>1 DEF IInv, Types, Places
<1>4. /\ order' \in [Places -> 0 .. Count]
      /\ \A k \in Places : k <= i => order'[k] = order[k]
      /\ \A k \in Places : order'[k] # 0 => order'[k] = order[k]
      /\ \A k \in Places : order'[k] # order[k] =>
            i < k /\ order[i] # 0 /\ Suppresses(order[i], order[k])
      /\ \A k \in Places : i < k /\ order[i] # 0 /\ order'[k] # 0
            => ~Suppresses(order[i], order[k])
  BY <1>1, <1>3 DEF Places
<1>5. Types'
  BY <1>1, <1>2, <1>3, <1>4, CandidatesKept DEF IInv, Types, Sorting, Working, Places
<1>6. SortInv' /\ phase' \in {"nms", "emit"}
  BY <1>1 DEF SortInv, Sorting, Working
<1>7. \A k, m \in Places : k < m => score[k] >= score[m]
  BY <1>1 DEF IInv, Sorted
<1>8. Sorted'
  <2>1. ~(phase' = "nms" /\ i' = 1)
    BY <1>1, <1>3 DEF Places
  <2>2. QED
    BY <1>2, <1>7, <2>1 DEF Sorted
<1>9. Turn = i /\ Turn' = i + 1
  BY <1>1, <1>2, <1>3 DEF Turn
<1>10. \A n, m : Suppresses(n, m)' <=> Suppresses(n, m)
  BY <1>2 DEF Suppresses, OverlapExceeds, detected
<1>11. found' = found
  BY <1>2 DEF detected
<1>12. Suppressed'
  <2>1. /\ \A k \in Places : order[k] # 0 => score[k] = found[order[k]]
        /\ \A k, m \in Places : order[k] # 0 /\ order[k] = order[m] => k = m
        /\ \A k, m \in Places :
              k < i /\ k < m /\ order[k] # 0 /\ order[m] # 0
                  => ~Suppresses(order[k], order[m])
        /\ \A m \in Places :
              \/ \E k \in Places : order[k] = m
              \/ \E k \in Places : /\ k < i /\ order[k] # 0
                                   /\ Suppresses(order[k], m)
                                   /\ found[order[k]] >= found[m]
    BY <1>1, <1>9 DEF IInv, Suppressed
  <2>2. \A k \in Places : order'[k] # 0 => score'[k] = found[order'[k]]
    BY <1>2, <1>4, <2>1
  <2>3. \A k, m \in Places : order'[k] # 0 /\ order'[k] = order'[m] => k = m
    BY <1>4, <2>1
  <2>4. ASSUME NEW k \in Places, NEW m \in Places, k < i + 1, k < m,
               order'[k] # 0, order'[m] # 0
        PROVE  ~Suppresses(order'[k], order'[m])
    <3>1. order'[k] = order[k] /\ order'[m] = order[m]
      BY <1>4, <2>4
    <3>2. CASE k = i
      BY <1>4, <2>4, <3>1, <3>2
    <3>3. CASE k # i
      BY <1>3, <2>1, <2>4, <3>1, <3>3 DEF Places
    <3>4. QED
      BY <3>2, <3>3
  <2>5. ASSUME NEW m \in Places, \A k \in Places : order'[k] # m
        PROVE  \E k \in Places : /\ k < i + 1 /\ order'[k] # 0
                                 /\ Suppresses(order'[k], m)
                                 /\ found[order'[k]] >= found[m]
    <3>1. CASE \E k \in Places : order[k] = m
      <4>1. PICK k \in Places : order[k] = m
        BY <3>1
      <4>2. i < k /\ order[i] # 0 /\ Suppresses(order[i], m) /\ order[k] # 0
        BY <1>3, <1>4, <2>5, <4>1 DEF Places
      <4>3. found[order[i]] >= found[m]
        BY <1>3, <1>7, <2>1, <4>1, <4>2
      <4>4. order'[i] = order[i] /\ i < i + 1
        BY <1>3, <1>4 DEF Places
      <4>5. QED
        BY <1>3, <4>2, <4>3, <4>4
    <3>2. CASE ~\E k \in Places : order[k] = m
      <4>1. PICK k \in Places : /\ k < i /\ order[k] # 0 /\ Suppresses(order[k], m)
                               /\ found[order[k]] >= found[m]
        BY <2>1, <3>2
      <4>2. order'[k] = order[k] /\ k < i + 1
        BY <1>3, <1>4, <4>1 DEF Places
      <4>3. QED
        BY <4>1, <4>2
    <3>3. QED
      BY <3>1, <3>2
  <2>6. QED
    BY <1>2, <1>9, <1>10, <1>11, <2>2, <2>3, <2>4, <2>5 DEF Suppressed
<1>13. Filled'
  <2>1. SUFFICES ASSUME phase' = "emit"
                 PROVE  Filled'
    BY <1>6 DEF Filled
  <2>2. i' = 1 /\ results' = << >> /\ Len(results') = 0 /\ 1 .. Len(results') = {}
    BY <1>1, <1>2, <1>3, <2>1
  <2>3. Picks(<< >>)'
    BY <1>2, <1>3, <2>2 DEF Picks, Places
  <2>4. Len(results') <= MaxResults
    BY <2>2, PostAssumption
  <2>5. QED
    BY <2>3, <2>4 DEF Filled
<1>14. QED
  BY <1>5, <1>6, <1>8, <1>12, <1>13 DEF IInv

(* Clamping keeps order and ends inside the picture.                       *)
LEMMA ClampInside ==
    ASSUME NEW m \in Int, NEW n \in Int, m <= n
    PROVE  Clamp(m) \in 0 .. Size /\ Clamp(n) \in 0 .. Size /\ Clamp(m) <= Clamp(n)
BY PostAssumption DEF Clamp, Larger, Smaller

LEMMA ResultInside ==
    ASSUME Types, NEW k \in Places, order[k] # 0
    PROVE  Result(k) \in Inside
<1>1. order[k] \in Places /\ score[k] \in Scores
  BY DEF Types, Places
<1>2. boxes[order[k]] \in Boxes /\ classId[order[k]] \in Classes
  BY <1>1 DEF Types
<1> DEFINE b == boxes[order[k]]
<1>3. b.x \in Int /\ b.y \in Int /\ b.w \in Nat /\ b.h \in Nat
  BY <1>2, PostAssumption
<1> HIDE DEF b
<1>4. /\ Clamp(b.x) \in 0 .. Size /\ Clamp(b.x + b.w) \in 0 .. Size
      /\ Clamp(b.x) <= Clamp(b.x + b.w)
  <2>1. b.x + b.w \in Int /\ b.x <= b.x + b.w
    BY <1>3
  <2>2. QED
    BY <1>3, <2>1, ClampInside
<1>5. /\ Clamp(b.y) \in 0 .. Size /\ Clamp(b.y + b.h) \in 0 .. Size
      /\ Clamp(b.y) <= Clamp(b.y + b.h)
  <2>1. b.y + b.h \in Int /\ b.y <= b.y + b.h
    BY <1>3
  <2>2. QED
    BY <1>3, <2>1, ClampInside
<1>6. Result(k) = [left |-> Clamp(b.x), top |-> Clamp(b.y),
                   right |-> Clamp(b.x + b.w), bottom |-> Clamp(b.y + b.h),
                   prop |-> score[k], class |-> classId[order[k]]]
  BY DEF Result, PropAt, b
<1>7. QED
  BY <1>1, <1>2, <1>4, <1>5, <1>6 DEF Inside

LEMMA EmitStep ==
    ASSUME IInv, Emit
    PROVE  IInv'
<1>1. /\ phase = "emit" /\ phase' = IF i = Count THEN "done" ELSE "emit"
      /\ i' = i + 1
      /\ UNCHANGED <<detected, score, order, todo, low, high>>
  BY DEF Emit, sorter
<1>2. Count' = Count /\ Places' = Places
  BY <1>1, CandidatesKept
<1>3. /\ Count \in Nat /\ i \in Places /\ results \in Seq(Inside)
      /\ score \in [Places -> Scores] /\ order \in [Places -> 0 .. Count]
  BY <1>1 DEF IInv, Types, Places
<1>4. /\ phase' \in {"emit", "done"} /\ phase' \notin Sorting
      /\ (phase' = "done" => i' = Count + 1) /\ (phase' = "emit" => i' <= Count)
      /\ i' \in 1 .. Count + 1
  BY <1>1, <1>3 DEF Sorting, Working, Places
<1>5. \A k : Result(k)' = Result(k)
  BY <1>1 DEF Result, PropAt, detected
<1>6. Len(results) <= MaxResults /\ Len(results) \in Nat /\ \E pick : Picks(pick)
  BY <1>1, <1>3, LenProperties DEF IInv, Filled
<1>7. PICK pick : Picks(pick)
  BY <1>6
<1>0. PICK N \in Nat : N = Len(results)
  BY <1>6
<1>8. /\ pick \in [1 .. N -> Places]
      /\ \A p, q \in 1 .. N : p < q => pick[p] < pick[q]
      /\ \A p \in 1 .. N : pick[p] \in Places /\ pick[p] < i
      /\ \A p \in 1 .. N : order[pick[p]] # 0 /\ results[p] = Result(pick[p])
      /\ \A k \in Places : k < i /\ order[k] # 0 =>
             \/ \E p \in 1 .. N : pick[p] = k
             \/ N = MaxResults /\ \A p \in 1 .. N : pick[p] < k
  <2>1. /\ pick \in [1 .. N -> Places]
        /\ \A p, q \in 1 .. N : p < q => pick[p] < pick[q]
        /\ \A p \in 1 .. N : pick[p] < i
        /\ \A p \in 1 .. N : order[pick[p]] # 0 /\ results[p] = Result(pick[p])
    BY <1>0, <1>7 DEF Picks
  <2>2. \A k \in Places : k < i /\ order[k] # 0 =>
             \/ \E p \in 1 .. N : pick[p] = k
             \/ N = MaxResults /\ \A p \in 1 .. N : pick[p] < k
    BY <1>0, <1>7 DEF Picks
  <2>3. \A p \in 1 .. N : pick[p] \in Places
    BY <2>1
  <2>4. QED
    BY <2>1, <2>2, <2>3
<1>9. \A k \in Places : k < i + 1 <=> k < i \/ k = i
  BY <1>3 DEF Places
<1>10. results' \in Seq(Inside) /\ Filled'
  <2>1. CASE order[i] = 0 \/ ~Room
    <3>1. results' = results
      BY <2>1 DEF Emit
    <3>2. order[i] # 0 => N = MaxResults
      BY <1>0, <1>6, <2>1, PostAssumption DEF Room
    <3>3. \A p \in 1 .. N : /\ pick[p] < i + 1 /\ order'[pick[p]] # 0
                            /\ results'[p] = Result(pick[p])'
      BY <1>1, <1>5, <1>8, <1>9, <3>1
    <3>4. ASSUME NEW k \in Places, k < i + 1, order'[k] # 0
          PROVE  \/ \E p \in 1 .. N : pick[p] = k
                 \/ N = MaxResults /\ \A p \in 1 .. N : pick[p] < k
      <4>1. k < i \/ k = i
        BY <1>9, <3>4
      <4>2. order[k] # 0
        BY <1>1, <3>4
      <4>3. CASE k = i
        BY <1>8, <3>2, <4>2, <4>3
      <4>4. CASE k < i
        BY <1>8, <4>2, <4>4
      <4>5. QED
        BY <4>1, <4>3, <4>4
    <3>5. /\ i' = i + 1 /\ Len(results') = N
      BY <1>0, <1>1, <3>1
    <3>6. Picks(pick)'
      BY <1>2, <1>8, <3>3, <3>4, <3>5 DEF Picks
    <3>7. QED
      BY <1>3, <1>6, <3>1, <3>6 DEF Filled
  <2>2. CASE order[i] # 0 /\ Room
    <3>1. score[i] \in Int /\ ~(score[i] < Confidence)
      BY <1>3, PostAssumption
    <3>2. results' = Append(results, Result(i)) /\ Result(i) \in Inside
      <4>1. Result(i) \in Inside
        BY <1>3, <2>2, ResultInside DEF IInv
      <4>2. QED
        BY <2>2, <3>1, <4>1 DEF Emit
    <3>3. /\ results' \in Seq(Inside) /\ Len(results') = N + 1
          /\ \A p \in 1 .. N : results'[p] = results[p]
          /\ results'[N + 1] = Result(i)
      BY <1>0, <1>3, <3>2, AppendProperties
    <3>4. N < MaxResults /\ Len(results') <= MaxResults
      BY <1>0, <2>2, <3>3, PostAssumption DEF Room
    <3>5. PICK more : /\ more \in [1 .. N + 1 -> Places]
                      /\ \A p \in 1 .. N : more[p] = pick[p]
                      /\ more[N + 1] = i
      <4> DEFINE f == [p \in 1 .. N + 1 |-> IF p <= N THEN pick[p] ELSE i]
      <4>1. /\ f \in [1 .. N + 1 -> Places]
            /\ \A p \in 1 .. N : f[p] = pick[p]
            /\ f[N + 1] = i
        BY <1>3, <1>8
      <4>2. QED
        BY <4>1
    <3>6. \A p \in 1 .. N + 1 : p \in 1 .. N \/ p = N + 1
      OBVIOUS
    <3>7. ASSUME NEW p \in 1 .. N + 1, NEW q \in 1 .. N + 1, p < q
          PROVE  more[p] < more[q]
      <4>1. p \in 1 .. N
        BY <3>7
      <4>2. CASE q \in 1 .. N
        BY <1>8, <3>5, <3>7, <4>1, <4>2
      <4>3. CASE q = N + 1
        BY <1>8, <3>5, <4>1, <4>3
      <4>4. QED
        BY <3>6, <4>2, <4>3
    <3>8. ASSUME NEW p \in 1 .. N + 1
          PROVE  /\ more[p] < i + 1 /\ order'[more[p]] # 0
                 /\ results'[p] = Result(more[p])'
      <4>1. CASE p \in 1 .. N
        <5>1. more[p] = pick[p] /\ results'[p] = results[p]
          BY <3>3, <3>5, <4>1
        <5>2. /\ pick[p] < i + 1 /\ order[pick[p]] # 0
              /\ results[p] = Result(pick[p])
          BY <1>8, <1>9, <4>1
        <5>3. QED
          BY <1>1, <1>5, <5>1, <5>2
      <4>2. CASE p = N + 1
        <5>1. more[p] = i /\ results'[p] = Result(i)
          BY <3>3, <3>5, <4>2
        <5>2. i < i + 1
          BY <1>3, <1>9
        <5>3. QED
          BY <1>1, <1>5, <2>2, <5>1, <5>2
      <4>3. QED
        BY <3>6, <4>1, <4>2
    <3>9. ASSUME NEW k \in Places, k < i + 1, order'[k] # 0
          PROVE  \E p \in 1 .. N + 1 : more[p] = k
      <4>1. CASE k = i
        BY <3>5, <4>1
      <4>2. CASE k < i
        <5>1. order[k] # 0 /\ N # MaxResults
          BY <1>1, <3>4, <3>9, PostAssumption
        <5>2. PICK p \in 1 .. N : pick[p] = k
          BY <1>8, <4>2, <5>1
        <5>3. p \in 1 .. N + 1 /\ more[p] = k
          BY <3>5, <5>2
        <5>4. QED
          BY <5>3
      <4>3. QED
        BY <1>9, <3>9, <4>1, <4>2
    <3>10. Picks(more)'
      <4>1. i' = i + 1 /\ Len(results') = N + 1
        BY <1>1, <3>3
      <4>2. QED
        BY <1>2, <3>5, <3>7, <3>8, <3>9, <4>1 DEF Picks
    <3>11. QED
      BY <3>3, <3>4, <3>10 DEF Filled
  <2>3. QED
    BY <2>1, <2>2
<1>11. Types'
  BY <1>1, <1>2, <1>3, <1>4, <1>10, CandidatesKept DEF IInv, Types, Sorting, Working
<1>12. SortInv' /\ Sorted'
  BY <1>1, <1>2, <1>4 DEF IInv, SortInv, Sorted
<1>13. Suppressed'
  <2>1. Turn = Count + 1 /\ Turn' = Turn
    BY <1>1, <1>2, <1>4 DEF Turn
  <2>2. \A n, m : Suppresses(n, m)' <=> Suppresses(n, m)
    BY <1>1 DEF Suppresses, OverlapExceeds, detected
  <2>3. QED
    BY <1>1, <1>2, <1>4, <2>1, <2>2 DEF IInv, Suppressed, detected
<1>14. QED
  BY <1>10, <1>11, <1>12, <1>13 DEF IInv

LEMMA InitInvariant == Init => IInv
<1> SUFFICES ASSUME Init
             PROVE  IInv
  OBVIOUS
<1>1. PICK n \in 0 .. MaxCandidates :
         /\ boxes \in [1 .. n -> Boxes] /\ classId \in [1 .. n -> Classes]
         /\ found \in [1 .. n -> Scores]
  BY DEF Init
<1>2. n \in Nat
  BY PostAssumption
<1>3. Count = n /\ Places = 1 .. n
  <2>1. boxes \in Seq(Boxes)
    BY <1>1, <1>2, SeqDef
  <2>2. Len(boxes) \in Nat /\ DOMAIN boxes = 1 .. Len(boxes)
    BY <2>1, LenProperties
  <2>3. QED
    BY <1>1, <1>2, <2>2 DEF Count, Places
<1>4. /\ score = found /\ order = [k \in Places |-> k]
      /\ todo = <<[left |-> 1, right |-> Count]>> /\ low = 1 /\ high = 1
      /\ phase = IF Count = 0 THEN "done" ELSE "sort"
      /\ i = 1 /\ results = << >>
  BY DEF Init, Places
<1>5. [left |-> 1, right |-> Count] \in Pending
  BY <1>2, <1>3 DEF Pending
<1>6. /\ todo \in Seq(Pending) /\ Len(todo) = 1 /\ todo # << >>
      /\ todo[1] = [left |-> 1, right |-> Count]
  BY <1>4, <1>5
<1>7. results \in Seq(Inside) /\ Len(results) = 0
  BY <1>4, EmptySeq
<1>8. Types
  BY <1>1, <1>2, <1>3, <1>4, <1>6, <1>7 DEF Types, Sorting, Working
<1>9. SortInv
  <2>1. SUFFICES ASSUME phase = "sort", Count > 0
                 PROVE  SortInv
    BY <1>2, <1>3, <1>4 DEF SortInv, Sorting, Working
  <2>2. FullScore = score /\ FullOrder = order /\ phase \notin Working
    BY <2>1 DEF FullScore, FullOrder, Working
  <2>3. Permutation(order) /\ Paired(score, order)
    BY <1>4 DEF Permutation, Paired
  <2>4. Disjoint(todo)
    BY <1>2, <1>3, <1>6 DEF Disjoint
  <2>5. Apart(score, todo)
    BY <1>2, <1>3, <1>6 DEF Apart, In
  <2>6. QED
    BY <1>6, <2>2, <2>3, <2>4, <2>5 DEF SortInv
<1>10. Sorted /\ Suppressed
  BY <1>2, <1>3, <1>4 DEF Sorted, Suppressed
<1>11. Filled
  <2>1. Picks(<< >>)
    BY <1>2, <1>3, <1>4, <1>7 DEF Picks
  <2>2. QED
    BY <1>7, <2>1, PostAssumption DEF Filled
<1>12. QED
  BY <1>8, <1>9, <1>10, <1>11 DEF IInv

LEMMA StutterInvariant ==
    ASSUME IInv, UNCHANGED vars
    PROVE  IInv'
<1>1. /\ UNCHANGED <<boxes, classId, found, score, order, todo, low, high, key,
                    keyIndex, phase, i, results>>
      /\ Count' = Count /\ Places' = Places
  BY CandidatesKept DEF vars, detected, sorter
<1>2. Types'
  BY <1>1, CandidatesKept DEF IInv, Types, detected
<1>3. SortInv'
  <2>1. FullScore' = FullScore /\ FullOrder' = FullOrder /\ Top' = Top
    BY <1>1 DEF FullScore, FullOrder, Hole, Top
  <2>2. QED
    BY <1>1, <2>1 DEF IInv, SortInv, Permutation, Paired, Apart, In, Disjoint, Partitioned
<1>4. Sorted'
  BY <1>1 DEF IInv, Sorted, Permutation, Paired
<1>5. Suppressed'
  <2>1. Turn' = Turn
    BY <1>1 DEF Turn
  <2>2. \A n, m : Suppresses(n, m)' <=> Suppresses(n, m)
    BY <1>1 DEF Suppresses, OverlapExceeds
  <2>3. QED
    BY <1>1, <2>1, <2>2 DEF IInv, Suppressed
<1>6. Filled'
  <2>1. \A k : Result(k)' = Result(k)
    BY <1>1 DEF Result, PropAt
  <2>2. SUFFICES ASSUME phase \in {"emit", "done"}
                 PROVE  Filled'
    BY <1>1 DEF Filled
  <2>3. PICK pick : Picks(pick)
    BY <2>2 DEF IInv, Filled
  <2>4. Picks(pick)'
    BY <1>1, <2>1, <2>3 DEF Picks
  <2>5. QED
    BY <1>1, <2>2, <2>4 DEF IInv, Filled
<1>7. QED
  BY <1>2, <1>3, <1>4, <1>5, <1>6 DEF IInv

LEMMA StepInvariant == IInv /\ [Next]_vars => IInv'
<1> SUFFICES ASSUME IInv, [Next]_vars
             PROVE  IInv'
  OBVIOUS
<1>1. CASE Sort
  BY <1>1, SortStep DEF IInv
<1>2. CASE Suppress
  BY <1>2, SuppressStep
<1>3. CASE Emit
  BY <1>3, EmitStep
<1>4. CASE UNCHANGED vars
  BY <1>4, StutterInvariant
<1>5. QED
  BY <1>1, <1>2, <1>3, <1>4 DEF Next

LEMMA Invariant == Spec => []IInv
BY InitInvariant, StepInvariant, PTL DEF Spec

-----------------------------------------------------------------------------
(* The ranges quick_sort_indice_inverse still has to sort stay inside the  *)
(* arrays, so does every index, and the group never overflows.             *)
THEOREM TypeCorrect == Spec => []TypeOK
<1>1. IInv => TypeOK
  <2>1. SUFFICES ASSUME IInv
                 PROVE  TypeOK
    OBVIOUS
  <2>2. Len(classId) = Count /\ Len(score) = Count /\ Len(order) = Count
    BY <2>1 DEF IInv, Types, Places
  <2>3. Range(order) \subseteq 0 .. Count
    BY <2>1 DEF IInv, Types, Range
  <2>4. \A r \in Range(todo) : r.left \in 1 .. Count + 1 /\ r.right \in 0 .. Count
    <3>1. todo \in Seq(Pending) /\ Count \in Nat
      BY <2>1 DEF IInv, Types
    <3>2. DOMAIN todo = 1 .. Len(todo)
      BY <3>1, LenProperties
    <3>3. QED
      BY <3>1, <3>2, PendingBounds DEF Range
  <2>5. /\ phase \in {"sort", "down", "up", "place", "nms", "emit", "done"}
        /\ i \in 1 .. Count + 1
    BY <2>1 DEF IInv, Types, Sorting, Working
  <2>6. Len(results) <= MaxResults
    <3>1. CASE phase \in {"emit", "done"}
      BY <2>1, <3>1 DEF IInv, Filled
    <3>2. CASE phase \notin {"emit", "done"}
      <4>1. results = << >>
        BY <2>1, <2>5, <3>2 DEF IInv, Types, Sorting, Working
      <4>2. QED
        BY <4>1, EmptySeq, PostAssumption
    <3>3. QED
      BY <3>1, <3>2
  <2>7. QED
    BY <2>2, <2>3, <2>4, <2>5, <2>6 DEF TypeOK
<1>2. QED
  BY <1>1, Invariant, PTL

(* The in-place quicksort is right for any number of candidates, equal     *)
(* scores included: the scores descend, no candidate is lost or doubled,   *)
(* and each score stays beside the index of its candidate.                 *)
THEOREM SortCorrect == Spec => []SortedWithIndices
<1>1. IInv => SortedWithIndices
  <2>1. SUFFICES ASSUME IInv, phase = "nms", i = 1
                 PROVE  /\ \A k \in 1 .. Count - 1 : score[k] >= score[k + 1]
                        /\ Range(order) = 1 .. Count
                        /\ \A k \in 1 .. Count : score[k] = found[order[k]]
    BY DEF SortedWithIndices
  <2>2. /\ \A k, m \in Places : k < m => score[k] >= score[m]
        /\ Permutation(order) /\ Paired(score, order)
    BY <2>1 DEF IInv, Sorted
  <2>3. ASSUME NEW k \in 1 .. Count - 1
        PROVE  score[k] >= score[k + 1]
    <3>1. Count \in Nat
      BY <2>1 DEF IInv, Types
    <3>2. k \in Places /\ k + 1 \in Places /\ k < k + 1
      BY <3>1 DEF Places
    <3>3. QED
      BY <2>2, <3>2
  <2>4. Range(order) = Places
    BY <2>2 DEF Permutation, Range
  <2>5. QED
    BY <2>2, <2>3, <2>4 DEF Paired, Places
<1>2. QED
  BY <1>1, Invariant, PTL

(* Two boxes overlap as much either way round.                             *)
LEMMA OverlapSymmetric ==
    ASSUME NEW p \in Boxes, NEW q \in Boxes, OverlapExceeds(p, q)
    PROVE  OverlapExceeds(q, p)
<1>1. /\ p.x \in Int /\ p.y \in Int /\ p.w \in Int /\ p.h \in Int
      /\ q.x \in Int /\ q.y \in Int /\ q.w \in Int /\ q.h \in Int
  BY PostAssumption
<1>2. \A a, m, b, n \in Int : Shared(a, m, b, n) = Shared(b, n, a, m)
  BY DEF Shared, Larger, Smaller
<1>3. /\ Shared(p.x, p.w, q.x, q.w) = Shared(q.x, q.w, p.x, p.w)
      /\ Shared(p.y, p.h, q.y, q.h) = Shared(q.y, q.h, p.y, p.h)
  BY <1>1, <1>2
<1>4. (p.w + 1) * (p.h + 1) + (q.w + 1) * (q.h + 1)
        = (q.w + 1) * (q.h + 1) + (p.w + 1) * (p.h + 1)
  <2>1. (p.w + 1) * (p.h + 1) \in Int /\ (q.w + 1) * (q.h + 1) \in Int
    BY <1>1
  <2>2. QED
    BY <2>1
<1>5. QED
  BY <1>3, <1>4, Zenon DEF OverlapExceeds

(* Suppression removes exactly what it should: no two results of a class   *)
(* overlap beyond the threshold, and each candidate that is gone lost to a *)
(* better one of its class that is in turn left.                           *)
THEOREM SuppressionCorrect == Spec => []SuppressionExact
<1>1. IInv => SuppressionExact
  <2> DEFINE left == {order[k] : k \in Kept}
  <2>1. SUFFICES ASSUME IInv, phase \in {"emit", "done"}
                 PROVE  /\ \A n, m \in left : n # m => ~Suppresses(n, m)
                        /\ \A m \in Places \ left :
                             \E n \in left : Suppresses(n, m) /\ found[n] >= found[m]
    BY DEF SuppressionExact, Suppresses, Places
  <2>2. /\ Count \in Nat /\ order \in [Places -> 0 .. Count]
        /\ boxes \in [Places -> Boxes]
    BY <2>1 DEF IInv, Types
  <2>3. /\ \A k, m \in Places :
              k < m /\ order[k] # 0 /\ order[m] # 0 => ~Suppresses(order[k], order[m])
        /\ \A m \in Places :
              \/ \E k \in Places : order[k] = m
              \/ \E k \in Places : /\ order[k] # 0 /\ Suppresses(order[k], m)
                                   /\ found[order[k]] >= found[m]
    <3>1. Turn = Count + 1 /\ \A k \in Places : k < Turn
      BY <2>1, <2>2 DEF Turn, Places
    <3>2. QED
      BY <2>1, <3>1 DEF IInv, Suppressed
  <2>4. \A k \in Places : order[k] # 0 => order[k] \in left /\ order[k] \in Places
    BY <2>2 DEF Kept, Places
  <2>5. ASSUME NEW n \in left, NEW m \in left, n # m, Suppresses(n, m)
        PROVE  FALSE
    <3>1. PICK k \in Places : order[k] = n /\ n # 0
      BY DEF Kept, Places
    <3>2. PICK l \in Places : order[l] = m /\ m # 0
      BY DEF Kept, Places
    <3>3. Suppresses(m, n)
      <4>1. boxes[n] \in Boxes /\ boxes[m] \in Boxes
        BY <2>2, <2>4, <3>1, <3>2
      <4>2. QED
        BY <2>5, <4>1, OverlapSymmetric DEF Suppresses
    <3>4. k < l \/ l < k
      BY <2>2, <2>5, <3>1, <3>2 DEF Places
    <3>5. QED
      BY <2>3, <2>5, <3>1, <3>2, <3>3, <3>4
  <2>6. ASSUME NEW m \in Places \ left
        PROVE  \E n \in left : Suppresses(n, m) /\ found[n] >= found[m]
    <3>1. ~\E k \in Places : order[k] = m
      BY <2>2, <2>4 DEF Places
    <3>2. QED
      BY <2>3, <2>4, <3>1
  <2>7. QED
    BY <2>5, <2>6
<1>2. QED
  BY <1>1, Invariant, PTL

(* However the network's boxes lie, the group's are rectangles inside the  *)
(* picture, which drawing and encoding rely on.                            *)
THEOREM InPicture == Spec => []ResultsInPicture
<1>1. IInv => ResultsInPicture
  <2>1. SUFFICES ASSUME IInv, NEW k \in 1 .. Len(results)
                 PROVE  /\ 0 <= results[k].left /\ results[k].left <= results[k].right
                        /\ results[k].right <= Size
                        /\ 0 <= results[k].top /\ results[k].top <= results[k].bottom
                        /\ results[k].bottom <= Size
    BY DEF ResultsInPicture
  <2>2. results[k] \in Inside
    BY <2>1, ElementOfSeq DEF IInv, Types
  <2>3. QED
    BY <2>2, PostAssumption DEF Inside
<1>2. QED
  BY <1>1, Invariant, PTL

(* Between two results the group's order is the score's, each one is a     *)
(* candidate of its own, and when some candidate that is left has no place *)
(* none that has one scores less.                                          *)
THEOREM BestKept == Spec => []BestResults
<1>1. IInv => BestResults
  <2> DEFINE left == {order[k] : k \in Kept}
             n == Len(results)
  <2>1. SUFFICES ASSUME IInv, phase = "done"
                 PROVE  /\ n = Smaller(Cardinality(left), MaxResults)
                        /\ \A k \in 1 .. n - 1 : results[k].prop >= results[k + 1].prop
                        /\ \E chosen \in [1 .. n -> left] :
                              /\ Cardinality(Range(chosen)) = n
                              /\ \A k \in 1 .. n : /\ results[k].prop = found[chosen[k]]
                                                   /\ results[k].class = classId[chosen[k]]
                              /\ \A m \in left \ Range(chosen), k \in 1 .. n :
                                    found[m] <= found[chosen[k]]
    BY DEF BestResults
  <2>2. /\ Count \in Nat /\ i = Count + 1 /\ score \in [Places -> Scores]
        /\ order \in [Places -> 0 .. Count] /\ found \in [Places -> Scores]
        /\ results \in Seq(Inside)
    BY <2>1 DEF IInv, Types
  <2>3. n \in Nat /\ n <= MaxResults
    BY <2>1, <2>2, LenProperties DEF IInv, Filled
  <2>4. PICK pick : Picks(pick)
    BY <2>1 DEF IInv, Filled
  <2>5. /\ \A k, m \in Places : k < m => score[k] >= score[m]
        /\ \A k \in Places : score[k] \in Int
        /\ \A k \in Places : order[k] # 0 => score[k] = found[order[k]]
        /\ \A k, m \in Places : order[k] # 0 /\ order[k] = order[m] => k = m
    <3>1. \A k \in Places : score[k] \in Int
      BY <2>2, ScoresAreIntegers
    <3>2. QED
      BY <2>1, <3>1 DEF IInv, Sorted, Suppressed
  <2> HIDE DEF n
  <2>6. /\ pick \in [1 .. n -> Places]
        /\ \A p, q \in 1 .. n : p < q => pick[p] < pick[q]
        /\ \A p \in 1 .. n : pick[p] \in Places /\ order[pick[p]] # 0
    BY <2>4 DEF Picks, n
  <2>7. \A p \in 1 .. n : /\ results[p].prop = score[pick[p]]
                          /\ results[p].class = classId[order[pick[p]]]
    <3>1. \A p \in 1 .. n : results[p] = Result(pick[p])
      BY <2>4 DEF Picks, n
    <3>2. \A k : Result(k).prop = score[k] /\ Result(k).class = classId[order[k]]
      BY DEF Result, PropAt
    <3>3. QED
      BY <3>1, <3>2
  <2>8. ASSUME NEW k \in Places, order[k] # 0
        PROVE  \/ \E p \in 1 .. n : pick[p] = k
               \/ n = MaxResults /\ \A p \in 1 .. n : pick[p] < k
    <3>1. k < i
      BY <2>2 DEF Places
    <3>2. QED
      BY <2>4, <2>8, <3>1 DEF Picks, n
  <2>9. /\ \A m : m \in left <=> \E k \in Places : order[k] = m /\ m # 0
        /\ left \subseteq Places
    BY <2>2 DEF Kept, Places
  <2> DEFINE chosen == [p \in 1 .. n |-> order[pick[p]]]
  <2> HIDE DEF left
  <2>10. chosen \in [1 .. n -> left]
    BY <2>6, <2>9
  <2>11. /\ \A p \in 1 .. n : chosen[p] = order[pick[p]]
         /\ Range(chosen) = {order[pick[p]] : p \in 1 .. n}
         /\ Range(chosen) \subseteq left
    BY <2>6, <2>9 DEF Range
  <2> HIDE DEF chosen
  <2>12. \A p, q \in 1 .. n : chosen[p] = chosen[q] => p = q
    <3>1. SUFFICES ASSUME NEW p \in 1 .. n, NEW q \in 1 .. n, chosen[p] = chosen[q], p # q
                   PROVE  FALSE
      OBVIOUS
    <3>2. pick[p] = pick[q]
      BY <2>5, <2>6, <2>11, <3>1
    <3>3. pick[p] < pick[q] \/ pick[q] < pick[p]
      BY <2>3, <2>6, <3>1
    <3>4. pick[p] \in Int /\ pick[q] \in Int
      BY <2>2, <2>6 DEF Places
    <3>5. QED
      BY <3>2, <3>3, <3>4
  <2>13. IsFiniteSet(left) /\ Cardinality(left) \in Nat
    <3>1. IsFiniteSet(Places)
      BY <2>2, FS_Interval DEF Places
    <3>2. IsFiniteSet(left)
      BY <2>9, <3>1, FS_Subset
    <3>3. QED
      BY <3>2, FS_CardinalityType
  <2>14. IsFiniteSet(Range(chosen)) /\ Cardinality(Range(chosen)) = n
    <3>1. IsFiniteSet(1 .. n) /\ Cardinality(1 .. n) = n
      BY <2>3, FS_Interval
    <3>2. chosen \in Bijection(1 .. n, Range(chosen))
      BY <2>10, <2>12 DEF Bijection, Injection, Surjection, IsInjective, Range
    <3>3. QED
      BY <3>1, <3>2, FS_Bijection DEF ExistsBijection
  <2>15. n = Smaller(Cardinality(left), MaxResults)
    <3>1. n <= Cardinality(left)
      BY <2>11, <2>13, <2>14, FS_Subset
    <3>2. CASE n = MaxResults
      BY <2>3, <2>13, <3>1, <3>2 DEF Smaller
    <3>3. CASE n # MaxResults
      <4>1. left \subseteq Range(chosen)
        BY <2>8, <2>9, <2>11, <3>3
      <4>2. left = Range(chosen)
        BY <2>11, <4>1
      <4>3. QED
        BY <2>3, <2>13, <2>14, <4>2, PostAssumption DEF Smaller
    <3>4. QED
      BY <3>2, <3>3
  <2>16. ASSUME NEW k \in 1 .. n - 1
         PROVE  results[k].prop >= results[k + 1].prop
    <3>1. k \in 1 .. n /\ k + 1 \in 1 .. n /\ k < k + 1
      BY <2>3
    <3>2. pick[k] \in Places /\ pick[k + 1] \in Places /\ pick[k] < pick[k + 1]
      BY <2>6, <3>1
    <3>3. QED
      BY <2>5, <2>7, <3>1, <3>2
  <2>17. \A k \in 1 .. n : /\ results[k].prop = found[chosen[k]]
                           /\ results[k].class = classId[chosen[k]]
    BY <2>5, <2>6, <2>7, <2>11
  <2>18. ASSUME NEW m \in left \ Range(chosen), NEW p \in 1 .. n
         PROVE  found[m] <= found[chosen[p]]
    <3>1. PICK k \in Places : order[k] = m /\ m # 0
      BY <2>9
    <3>2. ~\E q \in 1 .. n : pick[q] = k
      BY <2>11, <2>18, <3>1
    <3>3. pick[p] < k /\ pick[p] \in Places
      BY <2>6, <2>8, <3>1, <3>2
    <3>4. score[k] <= score[pick[p]]
      BY <2>5, <3>3
    <3>5. score[k] = found[m] /\ score[pick[p]] = found[chosen[p]]
      BY <2>5, <2>6, <2>11, <3>1
    <3>6. QED
      BY <3>4, <3>5
  <2>19. QED
    BY <2>10, <2>14, <2>15, <2>16, <2>17, <2>18
<1>2. QED
  BY <1>1, Invariant, PTL

-----------------------------------------------------------------------------
(* That the sort comes to its end: no scan runs out of its range, and      *)
(* every step is progress in a well-founded order.  The places of the      *)
(* pending ranges become fewer; while they stay, the ranges do; while both *)
(* stay, the partition goes through its phases, each round of two scans    *)
(* over fewer places than the one before.                                  *)
Unsettled == {k \in Places : In(todo, k, k)}

Progress ==
    \/ Unsettled' \subseteq Unsettled /\ Unsettled' # Unsettled
    \/ Unsettled' \subseteq Unsettled /\ Len(todo') < Len(todo)
    \/ /\ UNCHANGED todo
       /\ \/ phase = "sort" /\ phase' = "down"
          \/ phase = "down" /\ phase' = "up" /\ high' - low' <= high - low
          \/ phase = "up" /\ phase' = "down" /\ high' - low' < high - low
          \/ phase = "up" /\ phase' = "place"

(* After a scan down the hole at low holds what exceeds the key.           *)
Ahead == phase = "up" /\ low < high => score[low] > key

LEMMA AheadStep ==
    ASSUME IInv, Ahead, [Next]_vars
    PROVE  Ahead'
<1> SUFFICES ASSUME phase' = "up", low' < high'
             PROVE  score'[low'] > key'
  BY DEF Ahead
<1>1. CASE ScanDown
  <2>1. phase = "down" /\ phase \in Sorting /\ phase \in Working /\ UNCHANGED <<todo, low, key>>
    BY <1>1 DEF ScanDown, Sorting, Working
  <2>2. PICK h \in low .. high : (h = low \/ score[h] > key) /\ Move(low, h) /\ high' = h
    BY <1>1 DEF ScanDown
  <2>3. low \in Int /\ score \in [Places -> Scores] /\ todo # << >> /\ Partitioned
    BY <2>1 DEF IInv, Types, SortInv
  <2>4. low \in Places
    <3>1. /\ Top.left \in 1 .. Count + 1 /\ Top.right \in 0 .. Count
          /\ Top.left <= low /\ low <= high /\ high <= Top.right
      BY <2>3, TopInTodo DEF IInv, Partitioned
    <3>2. Count \in Nat /\ high \in Int
      BY DEF IInv, Types
    <3>3. QED
      BY <2>3, <3>1, <3>2 DEF Places
  <2>5. score[h] > key
    BY <2>1, <2>2, <2>3
  <2>6. score'[low] = score[h]
    BY <2>2, <2>3, <2>4 DEF Move
  <2>7. QED
    BY <2>1, <2>5, <2>6
<1>2. CASE UNCHANGED vars
  BY <1>2 DEF Ahead, vars, detected, sorter
<1>3. CASE TakeKey \/ ScanUp \/ Place \/ Return \/ Suppress \/ Emit
  BY <1>3 DEF TakeKey, ScanUp, Place, Return, Suppress, Emit
<1>4. QED
  BY <1>1, <1>2, <1>3 DEF Next, Sort

LEMMA AheadInvariant == Spec => [](IInv /\ Ahead)
<1>1. Init => Ahead
  BY DEF Init, Ahead
<1>2. IInv /\ Ahead /\ [Next]_vars => Ahead'
  BY AheadStep
<1>3. QED
  BY <1>1, <1>2, InitInvariant, StepInvariant, PTL DEF Spec

LEMMA ScanUpAdvances ==
    ASSUME IInv, Ahead, ScanUp
    PROVE  Progress
<1>1. PICK l \in low .. high :
         /\ l = high \/ score[l] < key
         /\ low' = l /\ phase' = IF l < high THEN "down" ELSE "place"
  BY DEF ScanUp
<1>2. phase = "up" /\ phase \in Sorting /\ phase \in Working /\ UNCHANGED <<todo, high>>
  BY DEF ScanUp, Sorting, Working
<1>3. CASE l < high
  <2>1. low \in Int /\ high \in Int /\ low < high
    BY <1>1, <1>3 DEF IInv, Types
  <2>2. score[low] > key /\ score[l] < key
    BY <1>1, <1>2, <1>3, <2>1 DEF Ahead
  <2>3. score[low] \in Int /\ key \in Int
    <3>1. score \in [Places -> Scores] /\ key \in Scores /\ Count \in Nat
      BY <1>2 DEF IInv, Types
    <3>2. todo # << >> /\ Partitioned
      BY <1>2 DEF IInv, SortInv
    <3>3. Top.left \in 1 .. Count + 1 /\ Top.right \in 0 .. Count
      BY <3>2, TopInTodo DEF IInv
    <3>4. low \in Places
      BY <2>1, <3>1, <3>2, <3>3 DEF Partitioned, Places
    <3>5. QED
      BY <3>1, <3>4, ScoresAreIntegers
  <2>4. l # low
    BY <2>2, <2>3
  <2>5. high' - low' < high - low
    BY <1>1, <1>2, <2>1, <2>4
  <2>6. QED
    BY <1>1, <1>2, <1>3, <2>5 DEF Progress
<1>4. CASE ~(l < high)
  BY <1>1, <1>2, <1>4 DEF Progress
<1>5. QED
  BY <1>3, <1>4

LEMMA PlaceAdvances ==
    ASSUME IInv, Place
    PROVE  Progress
<1> DEFINE x == [left |-> Top.left, right |-> low - 1]
           y == [left |-> low + 1, right |-> Top.right]
<1>1. /\ phase \in Sorting /\ phase \in Working /\ UNCHANGED detected
      /\ todo' = <<x, y>> \o Tail(todo) /\ phase = "place"
  BY DEF Place, Sorting, Working
<1>2. /\ Types /\ todo # << >> /\ Disjoint(todo) /\ Partitioned
      /\ Count \in Nat /\ low \in Int /\ high \in Int /\ todo \in Seq(Pending)
  BY <1>1 DEF IInv, SortInv, Types
<1>3. /\ Top.left \in 1 .. Count + 1 /\ Top.right \in 0 .. Count /\ Top = todo[1]
      /\ Len(todo) \in Nat \ {0} /\ 1 \in 1 .. Len(todo)
  BY <1>2, TopInTodo
<1>4. Top.left <= low /\ low <= Top.right /\ low \in Places
  BY <1>1, <1>2, <1>3 DEF Partitioned, Places
<1>5. x \in Pending /\ y \in Pending
  BY <1>2, <1>3, <1>4 DEF Places, Pending
<1>6. /\ todo' \in Seq(Pending) /\ Len(todo') = Len(todo) + 1
      /\ todo'[1] = x /\ todo'[2] = y
      /\ \A n \in 3 .. Len(todo') : n - 1 \in 2 .. Len(todo) /\ todo'[n] = todo[n - 1]
  <2> HIDE DEF x, y
  <2> QED
    BY <1>1, <1>2, <1>5, TwoSides
<1>7. Places' = Places
  BY <1>1, CandidatesKept
<1>8. ASSUME NEW k \in Places, NEW n \in 1 .. Len(todo'),
             todo'[n].left <= k, k <= todo'[n].right
      PROVE  k # low /\ In(todo, k, k)
  <2>1. k \in Int
    BY <1>2 DEF Places
  <2>2. CASE n \in {1, 2}
    <3>1. todo'[n] = x \/ todo'[n] = y
      BY <1>6, <2>2
    <3>2. k # low /\ Top.left <= k /\ k <= Top.right
      BY <1>2, <1>3, <1>4, <1>8, <2>1, <3>1
    <3>3. QED
      BY <1>3, <3>2 DEF In
  <2>3. CASE n \notin {1, 2}
    <3>1. n \in 3 .. Len(todo')
      BY <1>3, <1>6, <2>3
    <3>2. n - 1 \in 2 .. Len(todo) /\ todo'[n] = todo[n - 1]
      BY <1>6, <3>1
    <3>3. n - 1 \in 1 .. Len(todo) /\ 1 < n - 1
      BY <1>3, <3>2
    <3>4. Top.right < todo[n - 1].left
      BY <1>2, <1>3, <3>3 DEF Disjoint
    <3>5. todo[n - 1].left \in Int
      BY <1>2, <3>3, PendingBounds
    <3>6. low < k
      BY <1>2, <1>3, <1>4, <1>8, <2>1, <3>2, <3>4, <3>5
    <3>7. In(todo, k, k)
      BY <1>8, <3>2, <3>3 DEF In
    <3>8. QED
      BY <1>2, <2>1, <3>6, <3>7
  <2>4. QED
    BY <2>2, <2>3
<1>9. Unsettled' \subseteq Unsettled \ {low}
  BY <1>7, <1>8 DEF Unsettled, In
<1>10. low \in Unsettled
  BY <1>3, <1>4 DEF Unsettled, In
<1>11. QED
  BY <1>9, <1>10 DEF Progress

LEMMA ReturnAdvances ==
    ASSUME IInv, Return
    PROVE  Progress
<1>1. phase \in Sorting /\ UNCHANGED detected /\ todo' = Tail(todo)
  BY DEF Return, Sorting
<1>2. /\ Len(todo) \in Nat \ {0} /\ Len(todo') = Len(todo) - 1
      /\ \A n \in 1 .. Len(todo) - 1 : todo'[n] = todo[n + 1]
  BY <1>1, TopInTodo DEF IInv, SortInv
<1>3. Places' = Places
  BY <1>1, CandidatesKept
<1>4. ASSUME NEW k \in Places, NEW n \in 1 .. Len(todo'),
             todo'[n].left <= k, k <= todo'[n].right
      PROVE  In(todo, k, k)
  <2>1. n \in 1 .. Len(todo) - 1 /\ n + 1 \in 1 .. Len(todo)
    BY <1>2
  <2>2. todo'[n] = todo[n + 1]
    BY <1>2, <2>1
  <2>3. QED
    BY <1>4, <2>1, <2>2 DEF In
<1>5. Unsettled' \subseteq Unsettled
  BY <1>3, <1>4 DEF Unsettled, In
<1>6. Len(todo') < Len(todo)
  BY <1>2
<1>7. QED
  BY <1>5, <1>6 DEF Progress

(* No step of the sort undoes another: after finitely many of them it ends,*)
(* whatever the scores, ties and sorted input included.                    *)
THEOREM SortAdvances == Spec => [][Sort => Progress]_vars
<1>1. IInv /\ Ahead /\ [Next]_vars => [Sort => Progress]_vars
  <2>1. ASSUME IInv, Ahead, Sort
        PROVE  Progress
    <3>1. CASE TakeKey
      BY <3>1 DEF TakeKey, Progress
    <3>2. CASE ScanDown
      <4>1. low \in Int /\ high \in Int
        BY <2>1 DEF IInv, Types
      <4>2. phase = "down" /\ phase' = "up" /\ low' = low /\ todo' = todo
        BY <3>2 DEF ScanDown
      <4>3. PICK h \in low .. high : high' = h
        BY <3>2 DEF ScanDown
      <4>4. high' - low' <= high - low
        <5>1. h \in Int /\ h <= high
          BY <4>1
        <5>2. h - low <= high - low
          BY <4>1, <5>1
        <5>3. QED
          BY <4>2, <4>3, <5>2
      <4>5. QED
        BY <4>2, <4>4 DEF Progress
    <3>3. QED
      BY <2>1, <3>1, <3>2, ScanUpAdvances, PlaceAdvances, ReturnAdvances DEF Sort
  <2>2. QED
    BY <2>1
<1>2. QED
  BY <1>1, AheadInvariant, PTL DEF Spec

(* A set of numbers has a least one.                                       *)
LEMMA Least ==
    ASSUME NEW S, S \subseteq Nat, S # {}
    PROVE  \E x \in S : \A y \in S : x <= y
<1>1. PICK x \in S : \A y \in S : ~(<<y, x>> \in OpToRel(<, Nat))
  BY NatLessThanWellFounded, WFMin
<1>2. ASSUME NEW y \in S
      PROVE  x <= y
  <2>1. x \in Nat /\ y \in Nat
    OBVIOUS
  <2>2. ~(y < x)
    BY <1>1, <2>1 DEF OpToRel
  <2>3. QED
    BY <2>1, <2>2
<1>3. QED
  BY <1>2

(* Each scan finds where to stop before it leaves its range, and a range   *)
(* is there as long as the sort is at work.                                *)
ScansStop ==
    /\ phase = "sort" => todo # << >>
    /\ phase = "down" =>
          \E h \in low .. high : /\ \A k \in h + 1 .. high : score[k] <= key
                                 /\ h = low \/ score[h] > key
    /\ phase = "up" =>
          \E l \in low .. high : /\ \A k \in low .. l - 1 : score[k] >= key
                                 /\ l = high \/ score[l] < key

THEOREM SortNeverStuck == Spec => []ScansStop
<1>1. ASSUME IInv, phase \in Working
      PROVE  /\ low \in Nat /\ high \in Nat /\ low <= high /\ key \in Int
             /\ \A k \in low .. high : score[k] \in Int
  <2>1. phase \in Sorting
    BY <1>1 DEF Sorting
  <2>2. /\ Count \in Nat /\ low \in Int /\ high \in Int /\ key \in Scores
        /\ score \in [Places -> Scores] /\ todo # << >> /\ Partitioned
    BY <1>1, <2>1 DEF IInv, Types, SortInv
  <2>3. Top.left \in 1 .. Count + 1 /\ Top.right \in 0 .. Count
    BY <1>1, <2>2, TopInTodo DEF IInv
  <2>4. low \in Nat /\ high \in Nat /\ low <= high
    BY <2>2, <2>3 DEF Partitioned
  <2>5. ASSUME NEW k \in low .. high
        PROVE  score[k] \in Int
    <3>1. k \in Places
      BY <2>2, <2>3, <2>5 DEF Partitioned, Places
    <3>2. QED
      BY <2>2, <3>1, ScoresAreIntegers
  <2>6. QED
    BY <2>2, <2>4, <2>5, ScoresAreIntegers
<1>2. ASSUME IInv, phase = "down"
      PROVE  \E h \in low .. high : /\ \A k \in h + 1 .. high : score[k] <= key
                                    /\ h = low \/ score[h] > key
  <2> DEFINE S == {d \in 0 .. high - low : d = high - low \/ score[high - d] > key}
  <2>1. /\ low \in Nat /\ high \in Nat /\ low <= high /\ key \in Int
        /\ \A k \in low .. high : score[k] \in Int
    BY <1>1, <1>2 DEF Working
  <2>2. high - low \in S /\ S \subseteq Nat
    BY <2>1
  <2>3. PICK d \in S : \A e \in S : d <= e
    <3> HIDE DEF S
    <3> QED
      BY <2>2, Least
  <2>4. d \in 0 .. high - low /\ high - d \in low .. high
    BY <2>1
  <2>5. high - d = low \/ score[high - d] > key
    BY <2>1, <2>4
  <2>6. ASSUME NEW k \in (high - d) + 1 .. high
        PROVE  score[k] <= key
    <3>1. high - k \in 0 .. high - low /\ high - k < d /\ high - (high - k) = k
      BY <2>1, <2>4
    <3>2. high - k \notin S
      BY <2>1, <2>3, <2>4, <3>1
    <3>3. ~(score[k] > key)
      BY <3>1, <3>2
    <3>4. k \in low .. high
      BY <2>1, <2>4
    <3>5. QED
      BY <2>1, <3>3, <3>4
  <2>7. QED
    BY <2>4, <2>5, <2>6
<1>3. ASSUME IInv, phase = "up"
      PROVE  \E l \in low .. high : /\ \A k \in low .. l - 1 : score[k] >= key
                                    /\ l = high \/ score[l] < key
  <2> DEFINE S == {l \in low .. high : l = high \/ score[l] < key}
  <2>1. /\ low \in Nat /\ high \in Nat /\ low <= high /\ key \in Int
        /\ \A k \in low .. high : score[k] \in Int
    BY <1>1, <1>3 DEF Working
  <2>2. high \in S /\ S \subseteq Nat
    BY <2>1
  <2>3. PICK l \in S : \A e \in S : l <= e
    <3> HIDE DEF S
    <3> QED
      BY <2>2, Least
  <2>4. l \in low .. high /\ (l = high \/ score[l] < key)
    OBVIOUS
  <2>5. ASSUME NEW k \in low .. l - 1
        PROVE  score[k] >= key
    <3>1. k \in low .. high /\ k < l
      BY <2>1, <2>4
    <3>2. k \notin S
      BY <2>1, <2>3, <2>4, <3>1
    <3>3. ~(score[k] < key)
      BY <3>1, <3>2
    <3>4. QED
      BY <2>1, <3>1, <3>3
  <2>6. QED
    BY <2>4, <2>5
<1>4. IInv => ScansStop
  <2>1. IInv /\ phase = "sort" => todo # << >>
    BY DEF IInv, SortInv, Sorting
  <2>2. QED
    BY <1>2, <1>3, <2>1 DEF ScansStop
<1>5. QED
  BY <1>4, Invariant, PTL

=============================================================================
