------------------------ MODULE FragmentPartsProofs ------------------------
(***************************************************************************)
(* Proofs about FragmentParts, for every message size and every choice of  *)
(* fragment sizes: the loop of remove_from_part_vect keeps its invariant,  *)
(* and it subtracts exactly the bytes of the fragment.                     *)
(***************************************************************************)
EXTENDS FragmentParts, SequenceTheorems, TLAPS

(* t is s without its element i: the elements behind it move up by one.    *)
IsErasure(S, s, i, t) ==
  /\ t \in Seq(S)
  /\ Len(t) = Len(s) - 1
  /\ \A j \in 1 .. Len(s) - 1 : t[j] = IF j < i THEN s[j] ELSE s[j + 1]

(* RemoveAt does what vector::erase does.                                  *)
LEMMA EraseProperties ==
  ASSUME NEW S, NEW s \in Seq(S), NEW i \in 1 .. Len(s), NEW t, t = RemoveAt(s, i)
  PROVE  IsErasure(S, s, i, t)
<1>1. PICK n : n = Len(s)
  OBVIOUS
<1>2. PICK left : left = SubSeq(s, 1, i - 1)
  OBVIOUS
<1>3. PICK right : right = SubSeq(s, i + 1, Len(s))
  OBVIOUS
<1>4. n \in Nat /\ i \in 1 .. n
  BY <1>1, LenProperties
<1>5. /\ left \in Seq(S) /\ Len(left) = i - 1
      /\ \A j \in 1 .. i - 1 : left[j] = s[j]
  BY <1>2, SubSeqProperties, LenProperties
<1>6. /\ right \in Seq(S) /\ Len(right) = n - i
      /\ \A j \in 1 .. n - i : right[j] = s[i + j]
  BY <1>1, <1>3, SubSeqProperties, LenProperties
<1>7. /\ t \in Seq(S)
      /\ Len(t) = (i - 1) + (n - i)
      /\ \A j \in 1 .. (i - 1) + (n - i) :
            t[j] = IF j <= i - 1 THEN left[j] ELSE right[j - (i - 1)]
  <2>1. t = left \o right
    BY <1>2, <1>3 DEF RemoveAt
  <2>. left \in Seq(S) /\ right \in Seq(S)
    BY <1>5, <1>6
  <2>2. /\ t \in Seq(S) /\ Len(t) = Len(left) + Len(right)
        /\ \A j \in 1 .. Len(left) + Len(right) :
              t[j] = IF j <= Len(left) THEN left[j] ELSE right[j - Len(left)]
    BY <2>1, ConcatProperties
  <2>3. QED  BY <2>2, <1>5, <1>6
<1>8. (i - 1) + (n - i) = n - 1
  BY <1>4
<1>9. ASSUME NEW j \in 1 .. n - 1
      PROVE  t[j] = IF j < i THEN s[j] ELSE s[j + 1]
  <2>1. CASE j <= i - 1
    BY <2>1, <1>4, <1>5, <1>7, <1>8
  <2>2. CASE j > i - 1
    <3>1. j - (i - 1) \in 1 .. n - i /\ i + (j - (i - 1)) = j + 1
      BY <2>2, <1>4
    <3>2. t[j] = right[j - (i - 1)]
      BY <2>2, <1>4, <1>7, <1>8
    <3>3. QED  BY <3>1, <3>2, <2>2, <1>4, <1>6
  <2>3. QED  BY <2>1, <2>2, <1>4
<1>10. QED  BY <1>1, <1>7, <1>8, <1>9 DEF IsErasure

(* t is s with e before element i: the elements from i on move down.       *)
IsInsertion(S, s, i, e, t) ==
  /\ t \in Seq(S)
  /\ Len(t) = Len(s) + 1
  /\ \A j \in 1 .. Len(s) + 1 :
        t[j] = IF j < i THEN s[j] ELSE IF j = i THEN e ELSE s[j - 1]

(* InsertAt does what vector::insert does.                                 *)
LEMMA InsertProperties ==
  ASSUME NEW S, NEW s \in Seq(S), NEW e \in S, NEW i \in 1 .. Len(s) + 1,
         NEW t, t = InsertAt(s, i, e)
  PROVE  IsInsertion(S, s, i, e, t)
<1>1. PICK n : n = Len(s)
  OBVIOUS
<1>2. PICK left : left = SubSeq(s, 1, i - 1)
  OBVIOUS
<1>3. PICK mid : mid = <<e>>
  OBVIOUS
<1>4. PICK right : right = SubSeq(s, i, Len(s))
  OBVIOUS
<1>5. PICK front : front = left \o mid
  OBVIOUS
<1>6. n \in Nat /\ i \in 1 .. n + 1
  BY <1>1, LenProperties
<1>7. /\ left \in Seq(S) /\ Len(left) = i - 1
      /\ \A j \in 1 .. i - 1 : left[j] = s[j]
  BY <1>2, SubSeqProperties, LenProperties
<1>8. /\ right \in Seq(S) /\ Len(right) = n - i + 1
      /\ \A j \in 1 .. n - i + 1 : right[j] = s[i + j - 1]
  BY <1>1, <1>4, SubSeqProperties, LenProperties
<1>9. mid \in Seq(S) /\ Len(mid) = 1 /\ mid[1] = e
  BY <1>3
<1>10. /\ front \in Seq(S)
       /\ Len(front) = (i - 1) + 1
       /\ \A j \in 1 .. (i - 1) + 1 :
             front[j] = IF j <= i - 1 THEN left[j] ELSE mid[j - (i - 1)]
  <2>1. /\ front \in Seq(S) /\ Len(front) = Len(left) + Len(mid)
        /\ \A j \in 1 .. Len(left) + Len(mid) :
              front[j] = IF j <= Len(left) THEN left[j] ELSE mid[j - Len(left)]
    BY <1>5, <1>7, <1>9, ConcatProperties
  <2>2. QED  BY <2>1, <1>7, <1>9
<1>11. /\ Len(front) = i
       /\ \A j \in 1 .. i : front[j] = IF j < i THEN s[j] ELSE e
  <2>1. (i - 1) + 1 = i
    BY <1>6
  <2>2. ASSUME NEW j \in 1 .. i
        PROVE  front[j] = IF j < i THEN s[j] ELSE e
    <3>1. CASE j <= i - 1
      BY <3>1, <2>1, <1>6, <1>7, <1>10
    <3>2. CASE j = i
      BY <3>2, <2>1, <1>6, <1>9, <1>10
    <3>3. QED  BY <3>1, <3>2, <1>6
  <2>3. QED  BY <2>1, <2>2, <1>10
<1>12. /\ t \in Seq(S)
       /\ Len(t) = i + (n - i + 1)
       /\ \A j \in 1 .. i + (n - i + 1) :
             t[j] = IF j <= i THEN front[j] ELSE right[j - i]
  <2>1. t = front \o right
    BY <1>2, <1>3, <1>4, <1>5 DEF InsertAt
  <2>. front \in Seq(S) /\ right \in Seq(S)
    BY <1>8, <1>10
  <2>2. /\ t \in Seq(S) /\ Len(t) = Len(front) + Len(right)
        /\ \A j \in 1 .. Len(front) + Len(right) :
              t[j] = IF j <= Len(front) THEN front[j] ELSE right[j - Len(front)]
    BY <2>1, ConcatProperties
  <2>3. QED  BY <2>2, <1>8, <1>11
<1>13. i + (n - i + 1) = n + 1
  BY <1>6
<1>14. ASSUME NEW j \in 1 .. n + 1
       PROVE  t[j] = IF j < i THEN s[j] ELSE IF j = i THEN e ELSE s[j - 1]
  <2>1. CASE j <= i
    BY <2>1, <1>6, <1>11, <1>12, <1>13
  <2>2. CASE j > i
    <3>1. j - i \in 1 .. n - i + 1 /\ i + (j - i) - 1 = j - 1
      BY <2>2, <1>6
    <3>2. t[j] = right[j - i]
      BY <2>2, <1>6, <1>12, <1>13
    <3>3. QED  BY <3>1, <3>2, <2>2, <1>6, <1>8
  <2>3. QED  BY <2>1, <2>2, <1>6
<1>15. QED  BY <1>1, <1>12, <1>13, <1>14 DEF IsInsertion

(* Assignment through the iterator changes one element.                    *)
LEMMA AssignProperties ==
  ASSUME NEW S, NEW s \in Seq(S), NEW e \in S, NEW i \in 1 .. Len(s),
         NEW t, t = ReplaceAt(s, i, e)
  PROVE  /\ t \in Seq(S)
         /\ Len(t) = Len(s)
         /\ \A j \in 1 .. Len(s) : t[j] = IF j = i THEN e ELSE s[j]
BY ExceptSeq, LenProperties DEF ReplaceAt

-----------------------------------------------------------------------------
(* The bounds of every part of a vector are numbers.                       *)
LEMMA PartTypes ==
  ASSUME NEW v \in Seq(Part)
  PROVE  /\ Len(v) \in Nat
         /\ \A i \in 1 .. Len(v) : /\ v[i] \in Part
                                   /\ v[i].first \in 0 .. FullSize
                                   /\ v[i].second \in 0 .. FullSize
<1>1. Len(v) \in Nat /\ \A i \in 1 .. Len(v) : v[i] \in Part
  BY LenProperties
<1>2. QED  BY <1>1 DEF Part

(* w is v without its part k.                                              *)
IsErased(v, k, w) ==
  /\ w \in Seq(Part)
  /\ Len(w) = Len(v) - 1
  /\ \A i \in 1 .. k - 1 : w[i] = v[i]
  /\ Ordered(w)
  /\ \A b : b \in Covered(w) <=>
        b \in Covered(v) /\ (b < v[k].first \/ v[k].second <= b)

(* Erasing one part of an ordered vector leaves it ordered and removes     *)
(* exactly the bytes of that part.                                         *)
LEMMA EraseOrdered ==
  ASSUME NEW v \in Seq(Part), Ordered(v), NEW k \in 1 .. Len(v),
         NEW w, w = RemoveAt(v, k)
  PROVE  IsErased(v, k, w)
<1> USE FullSizeAssumption
<1>1. PICK n : n = Len(v)
  OBVIOUS
<1>2. /\ n \in Nat /\ k \in 1 .. n
      /\ \A i \in 1 .. n : /\ v[i].first \in 0 .. FullSize
                           /\ v[i].second \in 0 .. FullSize
                           /\ v[i].first < v[i].second
      /\ \A i, j \in 1 .. n : i < j => v[i].second < v[j].first
  BY <1>1, PartTypes DEF Ordered
<1>3. /\ w \in Seq(Part) /\ Len(w) = n - 1
      /\ \A j \in 1 .. n - 1 : w[j] = IF j < k THEN v[j] ELSE v[j + 1]
  <2>1. IsErasure(Part, v, k, w)
    BY EraseProperties
  <2>2. QED  BY <2>1, <1>1 DEF IsErasure
<1> DEFINE from(j) == IF j < k THEN j ELSE j + 1
<1>4. \A j \in 1 .. n - 1 : from(j) \in 1 .. n /\ from(j) # k /\ w[j] = v[from(j)]
  BY <1>2, <1>3
<1>5. \A i, j \in 1 .. n - 1 : i < j => from(i) < from(j)
  BY <1>2
<1> HIDE DEF from
<1>6. Ordered(w)
  <2>1. \A i \in 1 .. n - 1 : w[i].first < w[i].second
    BY <1>2, <1>4
  <2>2. \A i, j \in 1 .. n - 1 : i < j => w[i].second < w[j].first
    BY <1>2, <1>4, <1>5
  <2>3. QED  BY <2>1, <2>2, <1>3 DEF Ordered
<1>7. ASSUME NEW b \in Covered(w)
      PROVE  b \in Covered(v) /\ (b < v[k].first \/ v[k].second <= b)
  <2>1. PICK j \in 1 .. n - 1 : w[j].first <= b /\ b < w[j].second
    BY <1>3 DEF Covered
  <2>2. PICK i \in 1 .. n : i # k /\ v[i].first <= b /\ b < v[i].second
    BY <2>1, <1>4
  <2>3. b \in 0 .. FullSize - 1
    BY DEF Covered
  <2>4. QED  BY <2>2, <2>3, <1>1, <1>2, SMTT(30) DEF Covered
<1>8. ASSUME NEW b \in Covered(v), b < v[k].first \/ v[k].second <= b
      PROVE  b \in Covered(w)
  <2>1. PICK i \in 1 .. n : v[i].first <= b /\ b < v[i].second
    BY <1>1 DEF Covered
  <2>2. b \in 0 .. FullSize - 1 /\ i # k
    BY <2>1, <1>2, <1>8 DEF Covered
  <2>3. PICK j \in 1 .. n - 1 : w[j] = v[i]
    <3>1. CASE i < k
      <4>1. i \in 1 .. n - 1 /\ w[i] = v[i]  BY <3>1, <1>2, <1>3
      <4>2. QED  BY <4>1
    <3>2. CASE i > k
      <4>1. i - 1 \in 1 .. n - 1 /\ w[i - 1] = v[i]  BY <3>2, <1>2, <1>3
      <4>2. QED  BY <4>1
    <3>3. QED  BY <3>1, <3>2, <2>2, <1>2
  <2>4. QED  BY <2>1, <2>2, <2>3, <1>3 DEF Covered
<1>9. \A b : b \in Covered(w) <=>
         b \in Covered(v) /\ (b < v[k].first \/ v[k].second <= b)
  BY <1>7, <1>8
<1>10. \A i \in 1 .. k - 1 : w[i] = v[i]
  BY <1>2, <1>3
<1>11. QED  BY <1>1, <1>3, <1>6, <1>9, <1>10 DEF IsErased

(* w is v with part k cut down to p.                                       *)
IsCut(v, k, p, w) ==
  /\ w \in Seq(Part)
  /\ Len(w) = Len(v)
  /\ w[k] = p
  /\ \A i \in 1 .. Len(v) : i # k => w[i] = v[i]
  /\ Ordered(w)
  /\ \A b : b \in Covered(w) <=>
        /\ b \in Covered(v)
        /\ ~(v[k].first <= b /\ b < p.first)
        /\ ~(p.second <= b /\ b < v[k].second)

(* w is v with the part p inserted behind one of its parts.                *)
IsInserted(v, p, w) ==
  /\ w \in Seq(Part)
  /\ Len(w) = Len(v) + 1
  /\ Ordered(w)
  /\ \A b \in 0 .. FullSize - 1 :
        b \in Covered(w) <=> b \in Covered(v) \/ (p.first <= b /\ b < p.second)

(* Cutting a part at its front or its end, without emptying it, leaves the *)
(* vector ordered and removes exactly the bytes cut off.                   *)
LEMMA CutOrdered ==
  ASSUME NEW v \in Seq(Part), Ordered(v), NEW k \in 1 .. Len(v),
         NEW p \in Part,
         v[k].first <= p.first, p.first < p.second, p.second <= v[k].second,
         NEW w, w = ReplaceAt(v, k, p)
  PROVE  IsCut(v, k, p, w)
<1> USE FullSizeAssumption
<1>1. PICK n : n = Len(v)
  OBVIOUS
<1>2. /\ n \in Nat /\ k \in 1 .. n
      /\ \A i \in 1 .. n : /\ v[i].first \in 0 .. FullSize
                           /\ v[i].second \in 0 .. FullSize
                           /\ v[i].first < v[i].second
      /\ \A i, j \in 1 .. n : i < j => v[i].second < v[j].first
      /\ p.first \in 0 .. FullSize /\ p.second \in 0 .. FullSize
  BY <1>1, PartTypes DEF Ordered, Part
<1>3. /\ w \in Seq(Part) /\ Len(w) = n
      /\ \A j \in 1 .. n : w[j] = IF j = k THEN p ELSE v[j]
  <2>1. /\ w \in Seq(Part) /\ Len(w) = Len(v)
        /\ \A j \in 1 .. Len(v) : w[j] = IF j = k THEN p ELSE v[j]
    BY AssignProperties
  <2>2. QED  BY <2>1, <1>1
<1>4. w[k] = p /\ \A i \in 1 .. n : i # k => w[i] = v[i]
  BY <1>2, <1>3
<1>5. Ordered(w)
  <2>1. \A i \in 1 .. n : w[i].first < w[i].second
    BY <1>2, <1>4
  <2>2. ASSUME NEW i \in 1 .. n
        PROVE  /\ v[i].first <= w[i].first /\ w[i].second <= v[i].second
               /\ w[i].first \in 0 .. FullSize /\ w[i].second \in 0 .. FullSize
    <3>1. CASE i = k
      BY <3>1, <1>2, <1>4
    <3>2. CASE i # k
      <4>1. w[i] = v[i] /\ v[i].first \in 0 .. FullSize /\ v[i].second \in 0 .. FullSize
        BY <3>2, <1>2, <1>4
      <4>2. QED  BY <4>1
    <3>3. QED  BY <3>1, <3>2
  <2>3. ASSUME NEW i \in 1 .. n, NEW j \in 1 .. n, i < j
        PROVE  w[i].second < w[j].first
    <3>1. v[i].second < v[j].first /\ v[i].second \in 0 .. FullSize /\ v[j].first \in 0 .. FullSize
      BY <2>3, <1>2
    <3>2. /\ w[i].second <= v[i].second /\ v[j].first <= w[j].first
          /\ w[i].second \in 0 .. FullSize /\ w[j].first \in 0 .. FullSize
      BY <2>2
    <3>3. QED  BY <3>1, <3>2, SMTT(30)
  <2>4. QED  BY <2>1, <2>3, <1>3 DEF Ordered
<1> DEFINE cut(b) == (v[k].first <= b /\ b < p.first) \/ (p.second <= b /\ b < v[k].second)
<1>6. ASSUME NEW b \in Covered(w)
      PROVE  b \in Covered(v) /\ ~cut(b)
  <2>1. PICK i \in 1 .. n : w[i].first <= b /\ b < w[i].second
    BY <1>3 DEF Covered
  <2>2. b \in 0 .. FullSize - 1
    BY DEF Covered
  <2>3. CASE i = k
    <3>1. p.first <= b /\ b < p.second
      BY <2>1, <2>3, <1>4
    <3>2. v[k].first <= b /\ b < v[k].second
      BY <3>1, <2>2, <1>2
    <3>3. QED  BY <3>1, <3>2, <2>2, <1>1, <1>2, SMTT(30) DEF Covered
  <2>4. CASE i # k
    <3>1. v[i].first <= b /\ b < v[i].second
      BY <2>1, <2>4, <1>4
    <3>2. ~cut(b)
      BY <3>1, <2>2, <2>4, <1>2, SMTT(30)
    <3>3. b \in Covered(v)
      BY <3>1, <2>2, <1>1 DEF Covered
    <3>4. QED  BY <3>2, <3>3
  <2>5. QED  BY <2>3, <2>4
<1>7. ASSUME NEW b \in Covered(v), ~cut(b)
      PROVE  b \in Covered(w)
  <2>1. PICK i \in 1 .. n : v[i].first <= b /\ b < v[i].second
    BY <1>1 DEF Covered
  <2>2. b \in 0 .. FullSize - 1
    BY DEF Covered
  <2>3. w[i].first <= b /\ b < w[i].second
    BY <2>1, <2>2, <1>2, <1>4, <1>7, SMTT(30)
  <2>4. QED  BY <2>2, <2>3, <1>3 DEF Covered
<1>8. \A b : b \in Covered(w) <=> b \in Covered(v) /\ ~cut(b)
  BY <1>6, <1>7
<1>9. QED  BY <1>1, <1>3, <1>4, <1>5, <1>8 DEF IsCut

(* Inserting a part into the gap behind part k leaves the vector ordered   *)
(* and adds exactly the bytes of the part.                                 *)
LEMMA InsertOrdered ==
  ASSUME NEW v \in Seq(Part), Ordered(v), NEW k \in 1 .. Len(v),
         NEW p \in Part, v[k].second < p.first, p.first < p.second,
         \A i \in k + 1 .. Len(v) : p.second < v[i].first,
         NEW w, w = InsertAt(v, k + 1, p)
  PROVE  IsInserted(v, p, w)
<1> USE FullSizeAssumption
<1>1. PICK n : n = Len(v)
  OBVIOUS
<1>2. /\ n \in Nat /\ k \in 1 .. n /\ k + 1 \in 1 .. n + 1
      /\ \A i \in 1 .. n : /\ v[i].first \in 0 .. FullSize
                           /\ v[i].second \in 0 .. FullSize
                           /\ v[i].first < v[i].second
      /\ \A i, j \in 1 .. n : i < j => v[i].second < v[j].first
      /\ p.first \in 0 .. FullSize /\ p.second \in 0 .. FullSize
  <2>1. p.first \in 0 .. FullSize /\ p.second \in 0 .. FullSize
    BY DEF Part
  <2>2. /\ n \in Nat
        /\ \A i \in 1 .. n : /\ v[i].first \in 0 .. FullSize
                             /\ v[i].second \in 0 .. FullSize
    BY <1>1, PartTypes
  <2>3. QED  BY <1>1, <2>1, <2>2 DEF Ordered
<1>3. /\ w \in Seq(Part) /\ Len(w) = n + 1
      /\ \A j \in 1 .. n + 1 : w[j] = IF j < k + 1 THEN v[j]
                                      ELSE IF j = k + 1 THEN p ELSE v[j - 1]
  <2>1. k + 1 \in 1 .. Len(v) + 1
    BY <1>1, <1>2
  <2>2. IsInsertion(Part, v, k + 1, p, w)
    BY <2>1, InsertProperties
  <2>3. QED  BY <2>2, <1>1 DEF IsInsertion
<1>4. /\ w[k + 1] = p
      /\ \A j \in 1 .. k : w[j] = v[j]
      /\ \A j \in k + 2 .. n + 1 : w[j] = v[j - 1]
  BY <1>2, <1>3, SMTT(30)
<1>5. Ordered(w)
  <2>1. ASSUME NEW i \in 1 .. n + 1
        PROVE  w[i].first < w[i].second
    <3>1. CASE i <= k
      <4>1. i \in 1 .. n /\ w[i] = v[i]  BY <3>1, <1>2, <1>4
      <4>2. QED  BY <4>1, <1>2
    <3>2. CASE i = k + 1
      BY <3>2, <1>4
    <3>3. CASE i > k + 1
      <4>1. i - 1 \in 1 .. n /\ w[i] = v[i - 1]  BY <3>3, <1>2, <1>4
      <4>2. QED  BY <4>1, <1>2
    <3>4. QED  BY <3>1, <3>2, <3>3, <1>2
  <2>2. \A i \in 1 .. k : v[i].second < p.first
    <3>1. ASSUME NEW i \in 1 .. k
          PROVE  v[i].second < p.first
      <4>1. CASE i = k  BY <4>1
      <4>2. CASE i < k
        <5>1. i \in 1 .. n /\ k \in 1 .. n
          BY <1>2
        <5>2. v[i].second < v[k].first /\ v[k].first < v[k].second
          BY <5>1, <4>2, <1>2
        <5>3. QED  BY <5>1, <5>2, <1>2
      <4>3. QED  BY <4>1, <4>2, <1>2
    <3>2. QED  BY <3>1
  <2>3. ASSUME NEW i \in 1 .. n + 1, NEW j \in 1 .. n + 1, i < j
        PROVE  w[i].second < w[j].first
    <3>1. CASE j <= k
      <4>1. i \in 1 .. n /\ j \in 1 .. n /\ w[i] = v[i] /\ w[j] = v[j]
        BY <3>1, <2>3, <1>2, <1>4
      <4>2. QED  BY <4>1, <2>3, <1>2
    <3>2. CASE j = k + 1
      <4>1. i \in 1 .. k /\ w[i] = v[i] /\ w[j] = p
        BY <3>2, <2>3, <1>2, <1>4
      <4>2. QED  BY <4>1, <2>2
    <3>3. CASE j > k + 1
      <4>1. j - 1 \in k + 1 .. n /\ j - 1 \in 1 .. n /\ w[j] = v[j - 1]
        BY <3>3, <1>2, <1>4
      <4>2. CASE i <= k
        <5>1. i \in 1 .. n /\ w[i] = v[i] /\ i < j - 1
          BY <4>2, <3>3, <1>2, <1>4
        <5>2. QED  BY <4>1, <5>1, <1>2
      <4>3. CASE i = k + 1
        BY <4>1, <4>3, <1>1, <1>4
      <4>4. CASE i > k + 1
        <5>1. i - 1 \in 1 .. n /\ w[i] = v[i - 1] /\ i - 1 < j - 1
          BY <4>4, <2>3, <1>2, <1>4
        <5>2. QED  BY <4>1, <5>1, <1>2
      <4>5. QED  BY <4>2, <4>3, <4>4, <1>2
    <3>4. QED  BY <3>1, <3>2, <3>3, <1>2
  <2>4. QED  BY <2>1, <2>3, <1>3 DEF Ordered
<1>6. ASSUME NEW b \in Covered(w), ~(p.first <= b /\ b < p.second)
      PROVE  b \in Covered(v)
  <2>1. PICK j \in 1 .. n + 1 : w[j].first <= b /\ b < w[j].second
    BY <1>3 DEF Covered
  <2>2. PICK i \in 1 .. n : w[j] = v[i]
    <3>1. j # k + 1
      BY <2>1, <1>4, <1>6
    <3>2. CASE j <= k
      <4>1. j \in 1 .. n /\ w[j] = v[j]  BY <3>2, <1>2, <1>4
      <4>2. QED  BY <4>1
    <3>3. CASE j > k + 1
      <4>1. j - 1 \in 1 .. n /\ w[j] = v[j - 1]  BY <3>3, <1>2, <1>4
      <4>2. QED  BY <4>1
    <3>4. QED  BY <3>1, <3>2, <3>3, <1>2
  <2>3. QED  BY <2>1, <2>2, <1>1 DEF Covered
<1>7. ASSUME NEW b \in Covered(v)
      PROVE  b \in Covered(w)
  <2>1. PICK i \in 1 .. n : v[i].first <= b /\ b < v[i].second
    BY <1>1 DEF Covered
  <2>2. PICK j \in 1 .. n + 1 : w[j] = v[i]
    <3>1. CASE i <= k
      <4>1. i \in 1 .. n + 1 /\ w[i] = v[i]  BY <3>1, <1>2, <1>4
      <4>2. QED  BY <4>1
    <3>2. CASE i > k
      <4>1. i + 1 \in k + 2 .. n + 1 /\ i + 1 \in 1 .. n + 1 /\ (i + 1) - 1 = i
        BY <3>2, <1>2
      <4>2. w[i + 1] = v[i]
        BY <4>1, <1>4
      <4>3. QED  BY <4>1, <4>2
    <3>3. QED  BY <3>1, <3>2, <1>2
  <2>3. QED  BY <2>1, <2>2, <1>3 DEF Covered
<1>8. ASSUME NEW b \in 0 .. FullSize - 1, p.first <= b, b < p.second
      PROVE  b \in Covered(w)
  BY <1>2, <1>3, <1>4, <1>8 DEF Covered
<1>10. \A b \in 0 .. FullSize - 1 :
          b \in Covered(w) <=> b \in Covered(v) \/ (p.first <= b /\ b < p.second)
  BY <1>6, <1>7, <1>8
<1>11. QED  BY <1>1, <1>3, <1>5, <1>10 DEF IsInserted

(* w is v with the bytes from s to e - 1 cut out of the inside of a part.  *)
IsSplit(v, s, e, w) ==
  /\ w \in Seq(Part)
  /\ Len(w) = Len(v) + 1
  /\ Ordered(w)
  /\ \A b : b \in Covered(w) <=> b \in Covered(v) /\ ~(s <= b /\ b < e)

(* Cutting a hole into part k: its front stays, a new part begins behind   *)
(* the hole, and exactly the bytes of the hole are gone.                   *)
LEMMA SplitOrdered ==
  ASSUME NEW v \in Seq(Part), Ordered(v), NEW k \in 1 .. Len(v),
         NEW s \in 0 .. FullSize, NEW e \in 0 .. FullSize,
         v[k].first < s, s < e, e < v[k].second,
         NEW cut, cut = ReplaceAt(v, k, [v[k] EXCEPT !.second = s]),
         NEW w, w = InsertAt(cut, k + 1, [first |-> e, second |-> v[k].second])
  PROVE  IsSplit(v, s, e, w)
<1> USE FullSizeAssumption
<1>1. PICK left, right : /\ left = [v[k] EXCEPT !.second = s]
                         /\ right = [first |-> e, second |-> v[k].second]
  OBVIOUS
<1>2. /\ v[k] \in Part
      /\ v[k].first \in 0 .. FullSize /\ v[k].second \in 0 .. FullSize
  BY PartTypes
<1>3. /\ left \in Part /\ left.first = v[k].first /\ left.second = s
      /\ right \in Part /\ right.first = e /\ right.second = v[k].second
  BY <1>1, <1>2 DEF Part
<1>4. /\ v[k].first <= left.first /\ left.first < left.second
      /\ left.second <= v[k].second
  BY <1>2, <1>3
<1>5. cut = ReplaceAt(v, k, left)
  BY <1>1
<1>6. /\ cut \in Seq(Part) /\ Len(cut) = Len(v) /\ cut[k] = left
      /\ \A i \in 1 .. Len(v) : i # k => cut[i] = v[i]
      /\ Ordered(cut)
      /\ \A b : b \in Covered(cut) <=>
            /\ b \in Covered(v)
            /\ ~(v[k].first <= b /\ b < left.first)
            /\ ~(left.second <= b /\ b < v[k].second)
  <2>1. IsCut(v, k, left, cut)
    BY <1>3, <1>4, <1>5, CutOrdered
  <2>2. QED  BY <2>1 DEF IsCut
<1>7. \A b : b \in Covered(cut) <=> b \in Covered(v) /\ ~(s <= b /\ b < v[k].second)
  <2>1. \A b \in Covered(v) : ~(v[k].first <= b /\ b < left.first)
    BY <1>2, <1>3 DEF Covered
  <2>2. QED  BY <2>1, <1>3, <1>6
<1>8. k \in 1 .. Len(cut) /\ cut[k].second < right.first /\ right.first < right.second
  BY <1>2, <1>3, <1>6
<1>9. \A i \in k + 1 .. Len(cut) : right.second < cut[i].first
  <2>1. Len(v) \in Nat
    BY PartTypes
  <2>2. ASSUME NEW i \in k + 1 .. Len(v)
        PROVE  v[k].second < cut[i].first
    <3>1. i \in 1 .. Len(v) /\ i # k /\ k < i
      BY <2>1
    <3>2. cut[i] = v[i]
      BY <3>1, <1>6
    <3>3. QED  BY <3>1, <3>2 DEF Ordered
  <2>3. QED  BY <2>2, <1>3, <1>6
<1>10. /\ w \in Seq(Part) /\ Len(w) = Len(cut) + 1 /\ Ordered(w)
       /\ \A b \in 0 .. FullSize - 1 : b \in Covered(w) <=>
             b \in Covered(cut) \/ (right.first <= b /\ b < right.second)
  <2>1. w = InsertAt(cut, k + 1, right)
    BY <1>1
  <2>2. cut \in Seq(Part) /\ Ordered(cut) /\ right \in Part
    BY <1>3, <1>6
  <2>3. IsInserted(cut, right, w)
    BY <2>1, <2>2, <1>8, <1>9, InsertOrdered
  <2>4. QED  BY <2>3 DEF IsInserted
<1>11. ASSUME NEW b \in 0 .. FullSize - 1
       PROVE  b \in Covered(w) <=> b \in Covered(v) /\ ~(s <= b /\ b < e)
  <2>1. b \in Covered(w) <=> \/ b \in Covered(v) /\ ~(s <= b /\ b < v[k].second)
                             \/ e <= b /\ b < v[k].second
    BY <1>3, <1>7, <1>10
  <2>2. v[k].first <= b /\ b < v[k].second => b \in Covered(v)
    BY DEF Covered
  <2>3. QED  BY <2>1, <2>2, <1>2
<1>12. \A b : b \in Covered(w) <=> b \in Covered(v) /\ ~(s <= b /\ b < e)
  <2>1. Covered(w) \subseteq 0 .. FullSize - 1 /\ Covered(v) \subseteq 0 .. FullSize - 1
    BY DEF Covered
  <2>2. QED  BY <2>1, <1>11
<1>13. QED  BY <1>6, <1>10, <1>12 DEF IsSplit

-----------------------------------------------------------------------------
(* What every branch that looks at the current part knows about it.        *)
LEMMA CurrentFacts ==
  ASSUME Inv, in_loop, it <= Len(part_vect)
  PROVE  /\ part_vect \in Seq(Part) /\ Ordered(part_vect)
         /\ it \in 1 .. Len(part_vect)
         /\ CurrentPart \in Part
         /\ CurrentPart.first \in 0 .. FullSize
         /\ CurrentPart.second \in 0 .. FullSize
         /\ CurrentPart.first < CurrentPart.second
         /\ new_part_start \in 0 .. FullSize /\ new_part_end \in 0 .. FullSize
         /\ new_part_start < new_part_end
<1>1. part_vect \in Seq(Part) /\ it \in 1 .. Len(part_vect) + 1 /\ Ordered(part_vect)
  BY DEF Inv, TypeOK, PartsOrdered
<1>2. Len(part_vect) \in Nat
  BY <1>1, PartTypes
<1>3. it \in 1 .. Len(part_vect)
  BY <1>1, <1>2
<1>4. /\ CurrentPart \in Part /\ CurrentPart.first \in 0 .. FullSize
      /\ CurrentPart.second \in 0 .. FullSize
  BY <1>1, <1>3, PartTypes DEF CurrentPart
<1>5. CurrentPart.first < CurrentPart.second
  BY <1>1, <1>3 DEF Ordered, CurrentPart
<1>6. /\ new_part_start \in 0 .. FullSize /\ new_part_end \in 0 .. FullSize
      /\ new_part_start < new_part_end
  BY DEF Inv, TypeOK, PassedBefore
<1>7. QED  BY <1>1, <1>3, <1>4, <1>5, <1>6

(* No part lies between the start of the new part and the current part:    *)
(* the parts passed end before the new one starts, the others come later.  *)
LEMMA NoPartBetween ==
  ASSUME Inv, in_loop, NEW b \in Covered(part_vect), new_part_start <= b
  PROVE  it <= Len(part_vect) /\ CurrentPart.first <= b
<1> USE FullSizeAssumption
<1>1. PICK n : n = Len(part_vect)
  OBVIOUS
<1>2. /\ n \in Nat /\ it \in 1 .. n + 1
      /\ \A i \in 1 .. n : /\ part_vect[i].first \in 0 .. FullSize
                           /\ part_vect[i].second \in 0 .. FullSize
                           /\ part_vect[i].first < part_vect[i].second
      /\ \A i, j \in 1 .. n : i < j => part_vect[i].second < part_vect[j].first
      /\ new_part_start \in 0 .. FullSize
      /\ \A i \in 1 .. it - 1 : part_vect[i].second <= new_part_start
  <2>1. part_vect \in Seq(Part) /\ it \in 1 .. Len(part_vect) + 1
    BY DEF Inv, TypeOK
  <2>2. QED
    BY <1>1, <2>1, PartTypes DEF Inv, TypeOK, PartsOrdered, Ordered, PassedBefore
<1>3. b \in 0 .. FullSize - 1
  BY DEF Covered
<1>4. PICK i \in 1 .. n : part_vect[i].first <= b /\ b < part_vect[i].second
  BY <1>1 DEF Covered
<1>5. ~(i < it)
  <2>1. SUFFICES ASSUME i < it PROVE FALSE
    OBVIOUS
  <2>2. part_vect[i].second <= new_part_start
    BY <2>1, <1>2
  <2>3. QED  BY <2>2, <1>2, <1>3, <1>4
<1>6. it \in 1 .. n
  BY <1>2, <1>5
<1>7. part_vect[it].first <= b
  <2>1. CASE i = it
    BY <2>1, <1>4
  <2>2. CASE it < i
    <3>1. part_vect[it].second < part_vect[i].first
      BY <2>2, <1>2, <1>6
    <3>2. QED  BY <3>1, <1>2, <1>3, <1>4, <1>6
  <2>3. QED  BY <2>1, <2>2, <1>2, <1>5
<1>8. QED  BY <1>1, <1>2, <1>6, <1>7 DEF CurrentPart

(* A step inside the loop keeps the invariant when it keeps these parts of *)
(* it, and changes nothing the abstract specification sees when it removes *)
(* from the vector only what it also takes off the new part.               *)
LEMMA LoopStep ==
  ASSUME Inv, in_loop, in_loop' \in BOOLEAN, asked' = asked,
         part_vect' \in Seq(Part), Ordered(part_vect'),
         it' \in 1 .. Len(part_vect') + 1,
         new_part_start' \in 0 .. FullSize, new_part_end' = new_part_end,
         PassedBefore',
         \A b \in 0 .. FullSize - 1 :
            (b \in Covered(part_vect) /\ ~(new_part_start <= b /\ b < new_part_end))
            <=> (/\ b \in Covered(part_vect')
                 /\ in_loop' => ~(new_part_start' <= b /\ b < new_part_end))
  PROVE  Inv' /\ missing' = missing
<1> USE FullSizeAssumption
<1>1. asked = NoPart /\ asked' = NoPart
  BY DEF Inv
<1>2. TypeOK'
  BY DEF TypeOK, Inv
<1>3. PartsOrdered'
  BY DEF PartsOrdered
<1>4. AskedIsMissing'
  BY <1>1 DEF AskedIsMissing
<1>5. Inv'
  BY <1>1, <1>2, <1>3, <1>4 DEF Inv
<1>6. /\ new_part_start \in Nat /\ new_part_end \in Nat
      /\ new_part_start' \in Nat /\ new_part_end' \in Nat
  BY DEF Inv, TypeOK
<1>7. ASSUME NEW b \in 0 .. FullSize - 1
      PROVE  b \in missing' <=> b \in missing
  <2>1. b \in missing <=> b \in Covered(part_vect) /\ ~(new_part_start <= b /\ b < new_part_end)
    BY <1>6 DEF missing
  <2>2. CASE in_loop'
    <3>1. b \in missing' <=> b \in Covered(part_vect') /\ ~(new_part_start' <= b /\ b < new_part_end')
      BY <2>2, <1>6 DEF missing
    <3>2. QED  BY <2>1, <2>2, <3>1
  <2>3. CASE ~in_loop'
    <3>1. b \in missing' <=> b \in Covered(part_vect')
      BY <2>3 DEF missing
    <3>2. QED  BY <2>1, <2>3, <3>1
  <2>4. QED  BY <2>2, <2>3
<1>8. missing \subseteq 0 .. FullSize - 1 /\ missing' \subseteq 0 .. FullSize - 1
  BY DEF missing, Covered
<1>9. QED  BY <1>5, <1>7, <1>8

(* The turn that finds no part left keeps the invariant and the missing    *)
(* bytes: nothing of the new part lies behind the last part.               *)
LEMMA AtEndStep ==
  ASSUME Inv, AtEnd
  PROVE  Inv' /\ missing' = missing
<1>1. /\ in_loop /\ in_loop' = FALSE /\ it > Len(part_vect)
      /\ UNCHANGED <<part_vect, it, new_part_start, new_part_end, asked>>
  BY DEF AtEnd, Break
<1>2. PassedBefore'
  BY <1>1 DEF PassedBefore
<1>3. ASSUME NEW b \in Covered(part_vect), new_part_start <= b
      PROVE  FALSE
  <2>1. Len(part_vect) \in Nat /\ it \in 1 .. Len(part_vect) + 1
    BY PartTypes DEF Inv, TypeOK
  <2>2. QED  BY <2>1, <1>1, <1>3, NoPartBetween
<1>4. QED  BY <1>1, <1>2, <1>3, LoopStep DEF Inv, TypeOK, PartsOrdered

(* So does the turn that breaks before the current part: every later part  *)
(* lies behind the new one too.                                            *)
LEMMA BeforeCurrentStep ==
  ASSUME Inv, BeforeCurrent
  PROVE  Inv' /\ missing' = missing
<1>1. /\ in_loop /\ in_loop' = FALSE /\ it <= Len(part_vect)
      /\ new_part_end <= CurrentPart.first
      /\ UNCHANGED <<part_vect, it, new_part_start, new_part_end, asked>>
  BY DEF BeforeCurrent, Break
<1>2. PassedBefore'
  BY <1>1 DEF PassedBefore
<1>3. ASSUME NEW b \in Covered(part_vect), new_part_start <= b
      PROVE  ~(b < new_part_end)
  <2>1. CurrentPart.first <= b
    BY <1>1, <1>3, NoPartBetween
  <2>2. b \in Nat
    BY FullSizeAssumption DEF Covered
  <2>3. QED  BY <2>1, <2>2, <1>1, CurrentFacts
<1>4. QED  BY <1>1, <1>2, <1>3, LoopStep DEF Inv, TypeOK, PartsOrdered

(* So does the turn that skips a part ending before the new one.           *)
LEMMA AfterCurrentStep ==
  ASSUME Inv, AfterCurrent
  PROVE  Inv' /\ missing' = missing
<1>1. /\ in_loop /\ in_loop' = TRUE /\ it <= Len(part_vect) /\ it' = it + 1
      /\ new_part_start > CurrentPart.second
      /\ UNCHANGED <<part_vect, new_part_start, new_part_end, asked>>
  BY DEF AfterCurrent, Continue
<1>2. it \in 1 .. Len(part_vect) /\ it' \in 1 .. Len(part_vect') + 1
  <2>1. Len(part_vect) \in Nat
    BY PartTypes DEF Inv, TypeOK
  <2>2. QED  BY <2>1, <1>1, CurrentFacts
<1>3. PassedBefore'
  <2>1. ASSUME NEW i \in 1 .. it' - 1
        PROVE  part_vect'[i].second <= new_part_start'
    <3>1. CASE i = it
      BY <3>1, <1>1, CurrentFacts DEF CurrentPart
    <3>2. CASE i # it
      <4>1. i \in 1 .. it - 1
        BY <3>2, <1>1, <1>2
      <4>2. QED  BY <4>1, <1>1 DEF Inv, PassedBefore
    <3>3. QED  BY <3>1, <3>2
  <2>2. QED  BY <2>1, <1>1 DEF Inv, PassedBefore
<1>4. QED  BY <1>1, <1>2, <1>3, LoopStep DEF Inv, TypeOK, PartsOrdered

(* The turn that erases a covered part takes off the vector exactly what it*)
(* takes off the new part.                                                 *)
LEMMA CoversAndPassesStep ==
  ASSUME Inv, CoversAndPasses
  PROVE  Inv' /\ missing' = missing
<1> USE FullSizeAssumption
<1>1. /\ in_loop /\ in_loop' = TRUE /\ it <= Len(part_vect)
      /\ new_part_start <= CurrentPart.first /\ new_part_end > CurrentPart.second
      /\ new_part_start' = CurrentPart.second
      /\ part_vect' = RemoveAt(part_vect, it)
      /\ UNCHANGED <<it, new_part_end, asked>>
  BY DEF CoversAndPasses, Overlaps, Continue
<1>2. /\ part_vect \in Seq(Part) /\ Ordered(part_vect) /\ it \in 1 .. Len(part_vect)
      /\ CurrentPart.first \in 0 .. FullSize /\ CurrentPart.second \in 0 .. FullSize
      /\ CurrentPart.first < CurrentPart.second
      /\ new_part_start \in 0 .. FullSize /\ new_part_end \in 0 .. FullSize
      /\ new_part_start < new_part_end
  BY <1>1, CurrentFacts
<1>3. Len(part_vect) \in Nat
  BY <1>2, PartTypes
<1>4. IsErased(part_vect, it, part_vect')
  BY <1>1, <1>2, EraseOrdered
<1>5. /\ part_vect' \in Seq(Part) /\ Ordered(part_vect')
      /\ it' \in 1 .. Len(part_vect') + 1 /\ new_part_start' \in 0 .. FullSize
  BY <1>1, <1>2, <1>3, <1>4 DEF IsErased
<1>6. PassedBefore'
  <2>1. ASSUME NEW i \in 1 .. it - 1
        PROVE  part_vect'[i].second <= CurrentPart.second
    <3>1. part_vect'[i] = part_vect[i]
      BY <1>4 DEF IsErased
    <3>2. i \in 1 .. Len(part_vect) /\ part_vect[i].second \in 0 .. FullSize
      BY <1>2, <1>3, PartTypes
    <3>3. part_vect[i].second <= new_part_start
      BY <1>1 DEF Inv, PassedBefore
    <3>4. QED  BY <3>1, <3>2, <3>3, <1>1, <1>2
  <2>2. new_part_start' < new_part_end'
    BY <1>1, <1>2
  <2>3. QED  BY <2>1, <2>2, <1>1 DEF PassedBefore
<1>7. ASSUME NEW b \in 0 .. FullSize - 1
      PROVE  (b \in Covered(part_vect) /\ ~(new_part_start <= b /\ b < new_part_end))
             <=> (/\ b \in Covered(part_vect')
                  /\ ~(CurrentPart.second <= b /\ b < new_part_end))
  <2>1. b \in Covered(part_vect') <=>
          b \in Covered(part_vect) /\ (b < CurrentPart.first \/ CurrentPart.second <= b)
    BY <1>4 DEF IsErased, CurrentPart
  <2>2. b \in Covered(part_vect) /\ new_part_start <= b => CurrentPart.first <= b
    BY <1>1, NoPartBetween
  <2>3. QED  BY <2>1, <2>2, <1>1, <1>2
<1>8. QED  BY <1>1, <1>5, <1>6, <1>7, LoopStep

(* The turn that cuts the front off a part, or erases it when nothing is   *)
(* left, removes exactly the rest of the new part.                         *)
LEMMA CutsFrontStep ==
  ASSUME Inv, CutsFront
  PROVE  Inv' /\ missing' = missing
<1> USE FullSizeAssumption
<1> DEFINE rest == [CurrentPart EXCEPT !.first = new_part_end]
<1>1. /\ in_loop /\ in_loop' = FALSE /\ it <= Len(part_vect)
      /\ new_part_end > CurrentPart.first
      /\ new_part_start <= CurrentPart.first /\ new_part_end <= CurrentPart.second
      /\ part_vect' = IF new_part_end = CurrentPart.second
                        THEN RemoveAt(part_vect, it)
                        ELSE ReplaceAt(part_vect, it, rest)
      /\ UNCHANGED <<it, new_part_start, new_part_end, asked>>
  BY DEF CutsFront, Overlaps, Break
<1>2. /\ part_vect \in Seq(Part) /\ Ordered(part_vect) /\ it \in 1 .. Len(part_vect)
      /\ CurrentPart \in Part
      /\ CurrentPart.first \in 0 .. FullSize /\ CurrentPart.second \in 0 .. FullSize
      /\ CurrentPart.first < CurrentPart.second
      /\ new_part_start \in 0 .. FullSize /\ new_part_end \in 0 .. FullSize
  BY <1>1, CurrentFacts
<1>3. Len(part_vect) \in Nat
  BY <1>2, PartTypes
<1>4. PassedBefore'
  BY <1>1 DEF PassedBefore
<1>5. /\ part_vect' \in Seq(Part) /\ Ordered(part_vect')
      /\ it \in 1 .. Len(part_vect') + 1
      /\ \A b \in 0 .. FullSize - 1 : b \in Covered(part_vect') <=>
            b \in Covered(part_vect) /\ ~(CurrentPart.first <= b /\ b < new_part_end)
  <2>1. CASE new_part_end = CurrentPart.second
    <3>1. IsErased(part_vect, it, part_vect')
      BY <2>1, <1>1, <1>2, EraseOrdered
    <3>2. QED  BY <3>1, <2>1, <1>2, <1>3 DEF IsErased, CurrentPart
  <2>2. CASE new_part_end # CurrentPart.second
    <3>1. rest \in Part /\ rest.first = new_part_end /\ rest.second = CurrentPart.second
      BY <1>2 DEF Part
    <3> HIDE DEF rest
    <3>2. IsCut(part_vect, it, rest, part_vect')
      <4>1. /\ part_vect[it].first <= rest.first /\ rest.first < rest.second
            /\ rest.second <= part_vect[it].second
        BY <3>1, <2>2, <1>1, <1>2 DEF CurrentPart
      <4>2. part_vect' = ReplaceAt(part_vect, it, rest)
        BY <2>2, <1>1
      <4>3. QED  BY <3>1, <4>1, <4>2, <1>2, CutOrdered
    <3>3. \A b \in 0 .. FullSize - 1 : ~(rest.second <= b /\ b < CurrentPart.second)
      BY <3>1, <1>2
    <3>4. QED  BY <3>1, <3>2, <3>3, <1>2, <1>3 DEF IsCut, CurrentPart
  <2>3. QED  BY <2>1, <2>2
<1>6. ASSUME NEW b \in 0 .. FullSize - 1
      PROVE  (b \in Covered(part_vect) /\ ~(new_part_start <= b /\ b < new_part_end))
             <=> b \in Covered(part_vect')
  <2>1. b \in Covered(part_vect) /\ new_part_start <= b => CurrentPart.first <= b
    BY <1>1, NoPartBetween
  <2>2. b \in Covered(part_vect') <=>
          b \in Covered(part_vect) /\ ~(CurrentPart.first <= b /\ b < new_part_end)
    BY <1>5
  <2>3. new_part_start <= CurrentPart.first
    BY <1>1
  <2>4. QED  BY <2>1, <2>2, <2>3, <1>2
<1>7. QED  BY <1>1, <1>2, <1>4, <1>5, <1>6, LoopStep

(* The turn that cuts the tail off a part takes off the vector exactly what*)
(* it takes off the new part.                                              *)
LEMMA CutsTailStep ==
  ASSUME Inv, CutsTail
  PROVE  Inv' /\ missing' = missing
<1> USE FullSizeAssumption
<1> DEFINE head == [CurrentPart EXCEPT !.second = new_part_start]
<1>1. /\ in_loop /\ in_loop' = TRUE /\ it <= Len(part_vect) /\ it' = it + 1
      /\ new_part_start > CurrentPart.first /\ new_part_start <= CurrentPart.second
      /\ new_part_end > CurrentPart.second
      /\ new_part_start' = CurrentPart.second
      /\ part_vect' = ReplaceAt(part_vect, it, head)
      /\ UNCHANGED <<new_part_end, asked>>
  BY DEF CutsTail, Overlaps, Continue, HeadOf
<1>2. /\ part_vect \in Seq(Part) /\ Ordered(part_vect) /\ it \in 1 .. Len(part_vect)
      /\ CurrentPart \in Part
      /\ CurrentPart.first \in 0 .. FullSize /\ CurrentPart.second \in 0 .. FullSize
      /\ CurrentPart.first < CurrentPart.second
      /\ new_part_start \in 0 .. FullSize /\ new_part_end \in 0 .. FullSize
  BY <1>1, CurrentFacts
<1>3. Len(part_vect) \in Nat
  BY <1>2, PartTypes
<1>4. head \in Part /\ head.first = CurrentPart.first /\ head.second = new_part_start
  BY <1>2 DEF Part
<1> HIDE DEF head
<1>5. IsCut(part_vect, it, head, part_vect')
  <2>1. /\ part_vect[it].first <= head.first /\ head.first < head.second
        /\ head.second <= part_vect[it].second
    BY <1>1, <1>2, <1>4 DEF CurrentPart
  <2>2. QED  BY <2>1, <1>1, <1>2, <1>4, CutOrdered
<1>6. /\ part_vect' \in Seq(Part) /\ Ordered(part_vect')
      /\ it' \in 1 .. Len(part_vect') + 1 /\ new_part_start' \in 0 .. FullSize
  BY <1>1, <1>2, <1>3, <1>5 DEF IsCut
<1>7. PassedBefore'
  <2>1. ASSUME NEW i \in 1 .. it
        PROVE  part_vect'[i].second <= CurrentPart.second
    <3>1. CASE i = it
      BY <3>1, <1>1, <1>2, <1>4, <1>5 DEF IsCut
    <3>2. CASE i # it
      <4>1. i \in 1 .. Len(part_vect) /\ i \in 1 .. it - 1
        BY <3>2, <1>2, <1>3
      <4>2. part_vect'[i] = part_vect[i] /\ part_vect[i].second \in 0 .. FullSize
        BY <4>1, <3>2, <1>2, <1>5, PartTypes DEF IsCut
      <4>3. part_vect[i].second <= new_part_start
        BY <4>1, <1>1 DEF Inv, PassedBefore
      <4>4. QED  BY <4>2, <4>3, <1>1, <1>2
    <3>3. QED  BY <3>1, <3>2
  <2>2. new_part_start' < new_part_end' /\ it' - 1 = it
    BY <1>1, <1>2
  <2>3. QED  BY <2>1, <2>2, <1>1 DEF PassedBefore
<1>8. ASSUME NEW b \in 0 .. FullSize - 1
      PROVE  (b \in Covered(part_vect) /\ ~(new_part_start <= b /\ b < new_part_end))
             <=> (/\ b \in Covered(part_vect')
                  /\ ~(CurrentPart.second <= b /\ b < new_part_end))
  <2>1. b \in Covered(part_vect') <=>
          /\ b \in Covered(part_vect)
          /\ ~(CurrentPart.first <= b /\ b < head.first)
          /\ ~(head.second <= b /\ b < CurrentPart.second)
    BY <1>5 DEF IsCut, CurrentPart
  <2>2. QED  BY <2>1, <1>1, <1>2, <1>4
<1>9. QED  BY <1>1, <1>6, <1>7, <1>8, LoopStep

(* The turn that splits a part in two removes exactly the new part.        *)
LEMMA SplitsStep ==
  ASSUME Inv, Splits
  PROVE  Inv' /\ missing' = missing
<1> USE FullSizeAssumption
<1> DEFINE head == [CurrentPart EXCEPT !.second = new_part_start]
           tail == [first |-> new_part_end, second |-> CurrentPart.second]
           cut == ReplaceAt(part_vect, it, head)
<1>1. /\ in_loop /\ in_loop' = FALSE /\ it <= Len(part_vect)
      /\ new_part_start > CurrentPart.first /\ new_part_end <= CurrentPart.second
      /\ part_vect' = IF new_part_end < CurrentPart.second
                        THEN InsertAt(cut, it + 1, tail) ELSE cut
      /\ UNCHANGED <<it, new_part_start, new_part_end, asked>>
  BY DEF Splits, Overlaps, Break, HeadOf
<1>2. /\ part_vect \in Seq(Part) /\ Ordered(part_vect) /\ it \in 1 .. Len(part_vect)
      /\ CurrentPart \in Part
      /\ CurrentPart.first \in 0 .. FullSize /\ CurrentPart.second \in 0 .. FullSize
      /\ CurrentPart.first < CurrentPart.second
      /\ new_part_start \in 0 .. FullSize /\ new_part_end \in 0 .. FullSize
      /\ new_part_start < new_part_end
  BY <1>1, CurrentFacts
<1>3. Len(part_vect) \in Nat
  BY <1>2, PartTypes
<1>4. PassedBefore'
  BY <1>1 DEF PassedBefore
<1>5. /\ part_vect' \in Seq(Part) /\ Ordered(part_vect')
      /\ it \in 1 .. Len(part_vect') + 1
      /\ \A b \in 0 .. FullSize - 1 : b \in Covered(part_vect') <=>
            b \in Covered(part_vect) /\ ~(new_part_start <= b /\ b < new_part_end)
  <2>1. CASE new_part_end < CurrentPart.second
    <3>1. IsSplit(part_vect, new_part_start, new_part_end, part_vect')
      <4>1. part_vect' = InsertAt(cut, it + 1, tail)
        BY <2>1, <1>1
      <4>2. /\ part_vect[it].first < new_part_start
            /\ new_part_end < part_vect[it].second
        BY <2>1, <1>1, <1>2 DEF CurrentPart
      <4>3. QED  BY <4>1, <4>2, <1>2, SplitOrdered DEF CurrentPart
    <3>2. QED  BY <3>1, <1>2, <1>3 DEF IsSplit
  <2>2. CASE ~(new_part_end < CurrentPart.second)
    <3>1. head \in Part /\ head.first = CurrentPart.first /\ head.second = new_part_start
      BY <1>2 DEF Part
    <3>2. part_vect' = ReplaceAt(part_vect, it, head)
      BY <2>2, <1>1
    <3>3. new_part_end = CurrentPart.second /\ new_part_start > CurrentPart.first
      BY <2>2, <1>1, <1>2
    <3> HIDE DEF head
    <3>4. IsCut(part_vect, it, head, part_vect')
      <4>1. /\ part_vect[it].first <= head.first /\ head.first < head.second
            /\ head.second <= part_vect[it].second
        BY <3>1, <3>3, <1>2 DEF CurrentPart
      <4>2. QED  BY <3>1, <3>2, <4>1, <1>2, CutOrdered
    <3>5. \A b \in 0 .. FullSize - 1 : ~(CurrentPart.first <= b /\ b < head.first)
      BY <3>1, <1>2
    <3>6. QED  BY <3>1, <3>3, <3>4, <3>5, <1>2, <1>3 DEF IsCut, CurrentPart
  <2>3. QED  BY <2>1, <2>2
<1>6. \A b \in 0 .. FullSize - 1 :
         (b \in Covered(part_vect) /\ ~(new_part_start <= b /\ b < new_part_end))
         <=> b \in Covered(part_vect')
  BY <1>5
<1>7. QED  BY <1>1, <1>2, <1>4, <1>5, <1>6, LoopStep

-----------------------------------------------------------------------------
(* A fresh message misses all of its bytes.                                *)
LEMMA InitStep == Init => Inv /\ missing = 0 .. FullSize - 1
<1> SUFFICES ASSUME Init PROVE Inv /\ missing = 0 .. FullSize - 1
  OBVIOUS
<1> USE FullSizeAssumption DEF Init
<1>1. [first |-> 0, second |-> FullSize] \in Part
  BY DEF Part
<1>2. /\ part_vect \in Seq(Part) /\ Len(part_vect) = 1
      /\ part_vect[1].first = 0 /\ part_vect[1].second = FullSize
  BY <1>1
<1>3. TypeOK
  <2>1. it \in 1 .. Len(part_vect) + 1
    BY <1>2
  <2>2. new_part_start \in 0 .. FullSize /\ new_part_end \in 0 .. FullSize
    OBVIOUS
  <2>3. in_loop \in BOOLEAN /\ asked \in Asked
    BY Zenon DEF Asked
  <2>4. QED  BY <2>1, <2>2, <2>3, <1>2, Zenon DEF TypeOK
<1>4. PartsOrdered
  BY <1>2 DEF PartsOrdered, Ordered
<1>5. Inv
  BY <1>3, <1>4 DEF Inv, PassedBefore, AskedIsMissing
<1>6. \A b \in 0 .. FullSize - 1 : b \in Covered(part_vect)
  BY <1>2 DEF Covered
<1>7. QED  BY <1>5, <1>6 DEF missing, Covered

(* Calling add_data starts the loop with the fragment still to be cut.     *)
LEMMA AddDataStep ==
  ASSUME Inv, NEW pos \in 0 .. FullSize - 1, NEW len \in 1 .. FullSize - pos,
         add_data(pos, len)
  PROVE  Inv' /\ Abstract!Add(pos, len)
<1> USE FullSizeAssumption DEF add_data
<1>1. TypeOK'
  <2>1. Len(part_vect) \in Nat
    BY PartTypes DEF Inv, TypeOK
  <2>2. QED  BY <2>1 DEF Inv, TypeOK, Asked
<1>2. PartsOrdered'
  BY DEF Inv, PartsOrdered
<1>3. PassedBefore'
  BY DEF PassedBefore
<1>4. AskedIsMissing' /\ (in_loop' => asked' = NoPart)
  BY DEF AskedIsMissing
<1>5. missing' = missing \ (pos .. pos + len - 1)
  BY DEF missing
<1>6. QED  BY <1>1, <1>2, <1>3, <1>4, <1>5 DEF Inv, Abstract!Add

(* get_next_part asks for the head of the first missing run.               *)
LEMMA GetNextPartStep ==
  ASSUME Inv, NEW size \in FragmentSizes, get_next_part(size)
  PROVE  Inv' /\ Abstract!Ask(size)
<1> USE FullSizeAssumption
<1>1. PICK part : part = part_vect[1]
  OBVIOUS
<1>2. PICK len : len = IF part.second - part.first > size
                         THEN size ELSE part.second - part.first
  OBVIOUS
<1>3. /\ ~in_loop /\ part_vect # <<>>
      /\ asked' = [first |-> part.first, len |-> len]
      /\ UNCHANGED <<part_vect, it, new_part_start, new_part_end, in_loop>>
  BY <1>1, <1>2 DEF get_next_part, is_parts_empty
<1>4. PICK n : n = Len(part_vect)
  OBVIOUS
<1>5. /\ n \in Nat \ {0}
      /\ \A i \in 1 .. n : /\ part_vect[i].first \in 0 .. FullSize
                           /\ part_vect[i].second \in 0 .. FullSize
                           /\ part_vect[i].first < part_vect[i].second
      /\ \A i, j \in 1 .. n : i < j => part_vect[i].second < part_vect[j].first
  <2>1. part_vect \in Seq(Part) /\ Ordered(part_vect)
    BY DEF Inv, TypeOK, PartsOrdered
  <2>2. n \in Nat \ {0}
    BY <2>1, <1>3, <1>4, EmptySeq
  <2>3. QED  BY <2>1, <2>2, <1>4, PartTypes DEF Ordered
<1>6. /\ 1 \in 1 .. n
      /\ part.first \in 0 .. FullSize /\ part.second \in 0 .. FullSize
      /\ part.first < part.second
  BY <1>1, <1>5
<1>7. size \in Nat \ {0} /\ len \in 1 .. size /\ len \in 1 .. FullSize
      /\ part.first + len <= part.second
      /\ (len < size => part.first + len = part.second)
  BY <1>2, <1>6, FragmentSizesAssumption
<1>8. \A b \in part.first .. part.second - 1 : b \in Covered(part_vect)
  BY <1>1, <1>4, <1>6 DEF Covered
<1>9. part.first .. part.first + len - 1 \subseteq Covered(part_vect)
  BY <1>6, <1>7, <1>8
<1>10. ASSUME NEW b \in Covered(part_vect)
       PROVE  part.first <= b /\ b # part.second
  <2>1. PICK i \in 1 .. n : part_vect[i].first <= b /\ b < part_vect[i].second
    BY <1>4 DEF Covered
  <2>2. b \in 0 .. FullSize - 1
    BY DEF Covered
  <2>3. CASE i = 1
    BY <2>1, <2>2, <2>3, <1>1, <1>6
  <2>4. CASE 1 < i
    <3>1. part.second < part_vect[i].first /\ part_vect[i].first \in 0 .. FullSize
      BY <2>4, <1>1, <1>5, <1>6
    <3>2. QED  BY <3>1, <2>1, <2>2, <1>6
  <2>5. QED  BY <2>3, <2>4, <1>5
<1>11. missing = Covered(part_vect) /\ missing' = missing
  BY <1>3 DEF missing, Covered
<1>12. TypeOK'
  BY <1>3, <1>6, <1>7 DEF Inv, TypeOK, Asked
<1>13. AskedIsMissing'
  BY <1>3, <1>6, <1>7, <1>9 DEF AskedIsMissing, Covered
<1>14. Inv'
  BY <1>3, <1>12, <1>13 DEF Inv, PartsOrdered, PassedBefore
<1>15. part.first \in missing
  BY <1>6, <1>8, <1>11
<1>16. Abstract!Ask(size)
  <2>1. \A b \in missing : part.first <= b
    BY <1>10, <1>11
  <2>2. part.first .. part.first + len - 1 \subseteq missing
    BY <1>9, <1>11
  <2>3. len < size => part.first + len \notin missing
    BY <1>7, <1>10, <1>11
  <2>4. QED  BY <2>1, <2>2, <2>3, <1>3, <1>7, <1>11, <1>15 DEF Abstract!Ask
<1>17. QED  BY <1>14, <1>16

(* Every step keeps the invariant and is a step of the abstract            *)
(* specification or invisible to it.                                       *)
LEMMA NextStep ==
  ASSUME Inv, [Next]_vars
  PROVE  Inv' /\ [Abstract!Next]_<<missing, asked, in_loop>>
<1>1. ASSUME NEW pos \in 0 .. FullSize - 1, NEW len \in 1 .. FullSize - pos,
             add_data(pos, len)
      PROVE  Inv' /\ Abstract!Next
  BY <1>1, AddDataStep DEF Abstract!Next, Abstract!Bytes
<1>2. ASSUME NEW size \in FragmentSizes, get_next_part(size)
      PROVE  Inv' /\ Abstract!Next
  BY <1>2, GetNextPartStep DEF Abstract!Next
<1>3. ASSUME LoopTurn
      PROVE  Inv' /\ [Abstract!Next]_<<missing, asked, in_loop>>
  <2>1. asked' = asked /\ in_loop /\ (in_loop' = in_loop \/ in_loop' = FALSE)
    BY <1>3 DEF LoopTurn, AtEnd, BeforeCurrent, AfterCurrent, CoversAndPasses,
                CutsFront, CutsTail, Splits, Overlaps, Break, Continue, Inv, TypeOK
  <2>2. Inv' /\ missing' = missing
    BY <1>3, AtEndStep, BeforeCurrentStep, AfterCurrentStep,
       CoversAndPassesStep, CutsFrontStep, CutsTailStep, SplitsStep DEF LoopTurn
  <2>3. QED  BY <2>1, <2>2 DEF Abstract!Next, Abstract!Return
<1>4. ASSUME UNCHANGED vars
      PROVE  Inv' /\ missing' = missing /\ asked' = asked /\ in_loop' = in_loop
  BY <1>4 DEF vars, Inv, TypeOK, PartsOrdered, PassedBefore, AskedIsMissing,
              missing, Covered
<1>5. QED  BY <1>1, <1>2, <1>3, <1>4 DEF Next

(* remove_from_part_vect keeps part_vect_ well formed: the type invariant, *)
(* the order of the parts and the loop invariant hold in every state, for  *)
(* every message size.                                                     *)
THEOREM InvHolds == Spec => []Inv
<1>1. Init => Inv
  BY InitStep
<1>2. Inv /\ [Next]_vars => Inv'
  BY NextStep
<1>3. QED  BY <1>1, <1>2, PTL DEF Spec

(* In particular the parts of part_vect_ are never empty, out of order or  *)
(* touching.                                                               *)
THEOREM PartsAlwaysOrdered == Spec => []PartsOrdered
<1>1. Inv => PartsOrdered
  BY DEF Inv
<1>2. QED  BY <1>1, InvHolds, PTL

(* And a fragment query never asks for bytes that have already arrived.    *)
THEOREM QueriesAskForMissing == Spec => []AskedIsMissing
<1>1. Inv => AskedIsMissing
  BY DEF Inv
<1>2. QED  BY <1>1, InvHolds, PTL

(* Fragmented_Message implements the set of missing bytes: add_data removes*)
(* exactly the bytes of the fragment, whatever order, overlap or           *)
(* duplication the fragments arrive in.                                    *)
THEOREM RefinesMissingBytes == Spec => ExactSubtraction
<1>1. Init => Abstract!Init
  BY InitStep DEF Abstract!Init, Abstract!Bytes, Init
<1>2. Inv /\ [Next]_vars => [Abstract!Next]_<<missing, asked, in_loop>>
  BY NextStep
<1>3. QED  BY <1>1, <1>2, InvHolds, PTL DEF Spec, ExactSubtraction, Abstract!Spec
=============================================================================
