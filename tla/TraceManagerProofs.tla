------------------------- MODULE TraceManagerProofs -------------------------
(***************************************************************************)
(* Theorems about TraceManager, for all items, modifications and bounds    *)
(* and any width of the two parts of an id, as long as the tables do not   *)
(* outgrow the low part (Addressable).                                     *)
(***************************************************************************)
EXTENDS TraceManager, FiniteSetTheorems, SequenceTheorems, TLAPS

-----------------------------------------------------------------------------
(* SparseVector.                                                           *)

(* SetToSeq enumerates a finite set without repetition. *)
LEMMA SetToSeqEnumerates ==
  ASSUME NEW S, IsFiniteSet(S)
  PROVE  /\ SetToSeq(S) \in Seq(S)
         /\ IsInjective(SetToSeq(S))
         /\ \A x \in S : \E i \in 1 .. Len(SetToSeq(S)) : SetToSeq(S)[i] = x
<1>1. Cardinality(S) \in Nat /\ ExistsBijection(1 .. Cardinality(S), S)
  BY FS_CardinalityType
<1>2. PICK f \in [1 .. Cardinality(S) -> S] :
        IsInjective(f) /\ \A x \in S : \E i \in 1 .. Cardinality(S) : f[i] = x
  BY <1>1 DEF ExistsBijection, Bijection, Injection, Surjection, IsInjective
<1>3. SetToSeq(S) \in [1 .. Cardinality(S) -> S] /\ IsInjective(SetToSeq(S))
  BY <1>2 DEF SetToSeq
<1>4. SetToSeq(S) \in Seq(S) /\ Len(SetToSeq(S)) = Cardinality(S)
  BY <1>1, <1>3
<1>5. IsFiniteSet(1 .. Cardinality(S)) /\ Cardinality(1 .. Cardinality(S)) = Cardinality(S)
  BY <1>1, FS_Interval
<1>6. SetToSeq(S) \in Injection(1 .. Cardinality(S), S)
  BY <1>3 DEF Injection, IsInjective
<1>7. SetToSeq(S) \in Surjection(1 .. Cardinality(S), S)
  BY <1>5, <1>6, FS_Injection
<1> QED BY <1>3, <1>4, <1>7 DEF Surjection

(* A vector whose free list is exactly its unused positions. *)
Vector(v, Value) ==
  /\ VectorOK(v, Value)
  /\ IsInjective(v.free)
  /\ ToSet(v.free) = Slots(v) \ Used(v)

(* What the three arrays of a vector of n positions are, k of them free. *)
Parts(it, us, fr, n, k, Value) ==
  /\ n \in Nat /\ k \in Nat
  /\ it \in [1 .. n -> Value \cup {None}]
  /\ us \in [1 .. n -> BOOLEAN]
  /\ fr \in [1 .. k -> 1 .. n]
  /\ \A i, j \in 1 .. k : fr[i] = fr[j] => i = j
  /\ \A i \in 1 .. k : ~us[fr[i]]
  /\ \A p \in 1 .. n : ~us[p] => \E i \in 1 .. k : fr[i] = p

(* A vector, taken apart and put together. *)
LEMMA VectorParts ==
  ASSUME NEW Value, NEW v, Vector(v, Value)
  PROVE  /\ Parts(v.items, v.used, v.free, Len(v.items), Len(v.free), Value)
         /\ Slots(v) = 1 .. Len(v.items)
         /\ Used(v) = {p \in 1 .. Len(v.items) : v.used[p]}
<1> DEFINE it == v.items
           us == v.used
           fr == v.free
<1>1. /\ it \in Seq(Value \cup {None}) /\ us \in Seq(BOOLEAN) /\ Len(us) = Len(it)
      /\ fr \in Seq(1 .. Len(it)) /\ IsInjective(fr)
      /\ ToSet(fr) = (1 .. Len(it)) \ {p \in 1 .. Len(it) : us[p]}
  BY Zenon DEF Vector, VectorOK, Slots, Used
<1> HIDE DEF it, us, fr
<1>2. /\ Len(it) \in Nat /\ Len(fr) \in Nat
      /\ it \in [1 .. Len(it) -> Value \cup {None}]
      /\ us \in [1 .. Len(it) -> BOOLEAN]
      /\ fr \in [1 .. Len(fr) -> 1 .. Len(it)]
  BY <1>1
<1>3. DOMAIN fr = 1 .. Len(fr)
  BY <1>2
<1>4. \A i, j \in 1 .. Len(fr) : fr[i] = fr[j] => i = j
  BY <1>1, <1>3 DEF IsInjective
<1>5. {fr[i] : i \in 1 .. Len(fr)} = (1 .. Len(it)) \ {p \in 1 .. Len(it) : us[p]}
  BY <1>1, <1>3 DEF ToSet
<1>6. \A i \in 1 .. Len(fr) : ~us[fr[i]]
  BY <1>2, <1>5
<1>7. \A p \in 1 .. Len(it) : ~us[p] => \E i \in 1 .. Len(fr) : fr[i] = p
  BY <1>5
<1>8. Parts(it, us, fr, Len(it), Len(fr), Value)
  BY <1>2, <1>4, <1>6, <1>7 DEF Parts
<1> QED BY <1>8 DEF it, us, fr, Slots, Used

LEMMA VectorWhole ==
  ASSUME NEW Value, NEW n, NEW k, NEW it, NEW us, NEW fr,
         Parts(it, us, fr, n, k, Value)
  PROVE  LET v == [items |-> it, used |-> us, free |-> fr] IN
         /\ Vector(v, Value)
         /\ Slots(v) = 1 .. n
         /\ Used(v) = {p \in 1 .. n : us[p]}
<1> DEFINE v == [items |-> it, used |-> us, free |-> fr]
<1> USE DEF Parts
<1>1. v.items = it /\ v.used = us /\ v.free = fr
  OBVIOUS
<1>2. it \in Seq(Value \cup {None}) /\ us \in Seq(BOOLEAN) /\ fr \in Seq(1 .. n)
      /\ Len(it) = n /\ Len(us) = n /\ Len(fr) = k
  OBVIOUS
<1> HIDE DEF v
<1>3. Slots(v) = 1 .. n
  BY <1>1, <1>2 DEF Slots
<1>4. Used(v) = {p \in 1 .. n : us[p]}
  BY <1>1, <1>3 DEF Used
<1>5. VectorOK(v, Value)
  BY <1>1, <1>2, <1>3 DEF VectorOK
<1>6. IsInjective(fr)
  BY DEF IsInjective
<1>7. ToSet(fr) = (1 .. n) \ {p \in 1 .. n : us[p]}
  <2>1. DOMAIN fr = 1 .. k OBVIOUS
  <2>2. \A i \in 1 .. k : fr[i] \in 1 .. n OBVIOUS
  <2> QED BY <2>1, <2>2 DEF ToSet
<1> QED BY <1>1, <1>3, <1>4, <1>5, <1>6, <1>7 DEF Vector, v

(* insert() takes a position that was not in use, and disturbs no other. *)
LEMMA InsertedVector ==
  ASSUME NEW Value, NEW v, Vector(v, Value), NEW x \in Value
  PROVE  /\ Vector(Inserted(v, x), Value)
         /\ Slot(v) \in Slots(Inserted(v, x)) \ Used(v)
         /\ Used(Inserted(v, x)) = Used(v) \cup {Slot(v)}
         /\ Inserted(v, x).items[Slot(v)] = x
         /\ \A p \in Used(v) : Inserted(v, x).items[p] = v.items[p]
<1> DEFINE it == v.items
           us == v.used
           fr == v.free
           n  == Len(v.items)
           k  == Len(v.free)
           w  == Inserted(v, x)
<1>0. /\ Parts(it, us, fr, n, k, Value)
      /\ Slots(v) = 1 .. n /\ Used(v) = {p \in 1 .. n : us[p]}
  BY VectorParts
<1>1. /\ n \in Nat /\ k \in Nat /\ Len(it) = n /\ Len(fr) = k
      /\ it \in [1 .. n -> Value \cup {None}]
      /\ us \in [1 .. n -> BOOLEAN]
      /\ fr \in [1 .. k -> 1 .. n]
      /\ \A i, j \in 1 .. k : fr[i] = fr[j] => i = j
      /\ \A i \in 1 .. k : ~us[fr[i]]
      /\ \A p \in 1 .. n : ~us[p] => \E i \in 1 .. k : fr[i] = p
      /\ Slots(v) = 1 .. n
      /\ Used(v) = {p \in 1 .. n : us[p]}
  BY <1>0 DEF Parts
<1>a. n \in Nat /\ k \in Nat
  BY <1>1
<1> HIDE DEF n, k
<1> USE <1>a
<1>2. fr = <<>> <=> k = 0
  <2> HIDE DEF it, us, fr
  <2> QED BY <1>1
<1>3. CASE k = 0
  <2>1. Slot(v) = n + 1
    BY <1>1, <1>2, <1>3 DEF Slot
  <2>2. w = [items |-> Append(it, x), used |-> Append(us, TRUE), free |-> <<>>]
    BY <1>2, <1>3 DEF Inserted
  <2> HIDE DEF it, us, fr, w
  <2>3. it \in Seq(Value \cup {None}) /\ us \in Seq(BOOLEAN) /\ Len(us) = n
    BY <1>1
  <2>4. /\ Append(it, x) \in [1 .. n + 1 -> Value \cup {None}]
        /\ \A p \in 1 .. n : Append(it, x)[p] = it[p]
        /\ Append(it, x)[n + 1] = x
    <3>1. x \in Value \cup {None} OBVIOUS
    <3>2. /\ Append(it, x) \in Seq(Value \cup {None}) /\ Len(Append(it, x)) = n + 1
          /\ \A p \in 1 .. n : Append(it, x)[p] = it[p]
          /\ Append(it, x)[n + 1] = x
      BY <1>1, <2>3, <3>1, AppendProperties
    <3> QED BY <3>2, LenProperties
  <2>5. /\ Append(us, TRUE) \in [1 .. n + 1 -> BOOLEAN]
        /\ \A p \in 1 .. n : Append(us, TRUE)[p] = us[p]
        /\ Append(us, TRUE)[n + 1] = TRUE
    <3>1. TRUE \in BOOLEAN OBVIOUS
    <3>2. /\ Append(us, TRUE) \in Seq(BOOLEAN) /\ Len(Append(us, TRUE)) = n + 1
          /\ \A p \in 1 .. n : Append(us, TRUE)[p] = us[p]
          /\ Append(us, TRUE)[n + 1] = TRUE
      BY <2>3, <3>1, AppendProperties
    <3> QED BY <3>2, LenProperties
  <2>6. \A p \in 1 .. n : us[p]
    BY <1>1, <1>3
  <2>7. <<>> \in [1 .. k -> 1 .. n + 1]
    BY <1>3
  <2>8. \A p \in 1 .. n + 1 : Append(us, TRUE)[p]
    BY <2>5, <2>6
  <2>9. /\ Vector(w, Value) /\ Slots(w) = 1 .. n + 1
        /\ Used(w) = {p \in 1 .. n + 1 : Append(us, TRUE)[p]}
    <3> DEFINE it2 == Append(it, x)
               us2 == Append(us, TRUE)
    <3>1. n + 1 \in Nat /\ 1 .. k = {} BY <1>3
    <3>2. it2 \in [1 .. n + 1 -> Value \cup {None}] /\ us2 \in [1 .. n + 1 -> BOOLEAN]
          /\ \A p \in 1 .. n + 1 : us2[p]
      BY <2>4, <2>5, <2>8
    <3>3. w = [items |-> it2, used |-> us2, free |-> <<>>] BY <2>2
    <3> HIDE DEF it2, us2
    <3>4. Parts(it2, us2, <<>>, n + 1, k, Value) BY <2>7, <3>1, <3>2 DEF Parts
    <3>5. Vector(w, Value) /\ Slots(w) = 1 .. n + 1 /\ Used(w) = {p \in 1 .. n + 1 : us2[p]}
      BY <3>3, <3>4, VectorWhole
    <3> QED BY <3>5 DEF us2
  <2>10. Used(w) = 1 .. n + 1 /\ Used(v) = 1 .. n
    BY <1>1, <2>6, <2>8, <2>9
  <2>11. w.items = Append(it, x)
    BY <2>2
  <2>12. /\ n + 1 \in 1 .. n + 1 /\ n + 1 \notin 1 .. n
         /\ 1 .. n + 1 = (1 .. n) \cup {n + 1}
    BY <1>1
  <2> QED BY <2>1, <2>4, <2>9, <2>10, <2>11, <2>12 DEF w, it
<1>4. CASE k # 0
  <2>1. Slot(v) = fr[k]
    BY <1>1, <1>2, <1>4 DEF Slot, Last
  <2>2. w = [items |-> [it EXCEPT ![fr[k]] = x], used |-> [us EXCEPT ![fr[k]] = TRUE],
             free |-> Front(fr)]
    BY <1>2, <1>4, <2>1 DEF Inserted
  <2> HIDE DEF it, us, fr, w
  <2>3. fr[k] \in 1 .. n /\ k \in 1 .. k /\ k - 1 \in Nat /\ ~us[fr[k]]
    BY <1>1, <1>4
  <2>4. Front(fr) \in [1 .. k - 1 -> 1 .. n] /\ \A i \in 1 .. k - 1 : Front(fr)[i] = fr[i]
    <3>1. fr \in Seq(1 .. n) /\ Len(fr) = k BY <1>1
    <3>2. SubSeq(fr, 1, k - 1) \in [1 .. k - 1 -> 1 .. n]
          /\ \A i \in 1 .. k - 1 : SubSeq(fr, 1, k - 1)[i] = fr[i]
      <4>1. 1 \in Int /\ k - 1 \in Int /\ \A i \in 1 .. k - 1 : fr[i] \in 1 .. n
        BY <1>1, <2>3
      <4>2. /\ SubSeq(fr, 1, k - 1) \in Seq(1 .. n)
            /\ Len(SubSeq(fr, 1, k - 1)) = IF 1 <= k - 1 THEN (k - 1) - 1 + 1 ELSE 0
            /\ \A i \in 1 .. (k - 1) - 1 + 1 : SubSeq(fr, 1, k - 1)[i] = fr[1 + i - 1]
        BY <4>1, SubSeqProperties
      <4>3. Len(SubSeq(fr, 1, k - 1)) = k - 1 BY <2>3, <4>2
      <4>4. \A i \in 1 .. k - 1 : SubSeq(fr, 1, k - 1)[i] = fr[i] BY <2>3, <4>2
      <4> QED BY <4>2, <4>3, <4>4, LenProperties
    <3> QED BY <3>1, <3>2 DEF Front
  <2> DEFINE it2 == [it EXCEPT ![fr[k]] = x]
             us2 == [us EXCEPT ![fr[k]] = TRUE]
             fr2 == Front(fr)
  <2>5. /\ it2 \in [1 .. n -> Value \cup {None}]
        /\ it2[fr[k]] = x
        /\ \A p \in 1 .. n : p # fr[k] => it2[p] = it[p]
    BY <1>1, <2>3
  <2>6. /\ us2 \in [1 .. n -> BOOLEAN]
        /\ us2[fr[k]] = TRUE
        /\ \A p \in 1 .. n : p # fr[k] => us2[p] = us[p]
    BY <1>1, <2>3
  <2> HIDE DEF it2, us2, fr2
  <2>7. \A i, j \in 1 .. k - 1 : fr2[i] = fr2[j] => i = j
    BY <1>1, <2>3, <2>4 DEF fr2
  <2>8. \A i \in 1 .. k - 1 : ~us2[fr2[i]]
    <3> SUFFICES ASSUME NEW i \in 1 .. k - 1 PROVE ~us2[fr2[i]] OBVIOUS
    <3>1. i \in 1 .. k /\ i # k /\ fr2[i] = fr[i] BY <2>4 DEF fr2
    <3>2. fr[i] # fr[k] /\ fr[i] \in 1 .. n BY <1>1, <2>3, <3>1
    <3> QED BY <1>1, <2>6, <3>1, <3>2
  <2>9. \A p \in 1 .. n : ~us2[p] => \E i \in 1 .. k - 1 : fr2[i] = p
    <3> SUFFICES ASSUME NEW p \in 1 .. n, ~us2[p] PROVE \E i \in 1 .. k - 1 : fr2[i] = p OBVIOUS
    <3>1. p # fr[k] /\ ~us[p] BY <2>6
    <3>2. PICK i \in 1 .. k : fr[i] = p BY <1>1, <3>1
    <3>3. i \in 1 .. k - 1 BY <3>1, <3>2
    <3> QED BY <2>4, <3>2, <3>3 DEF fr2
  <2>10. w = [items |-> it2, used |-> us2, free |-> fr2]
    BY <2>2 DEF it2, us2, fr2
  <2>11. fr2 \in [1 .. k - 1 -> 1 .. n]
    BY <2>4 DEF fr2
  <2>12. Vector(w, Value) /\ Slots(w) = 1 .. n /\ Used(w) = {p \in 1 .. n : us2[p]}
    <3>1. Parts(it2, us2, fr2, n, k - 1, Value)
      BY <1>1, <2>3, <2>5, <2>6, <2>7, <2>8, <2>9, <2>11 DEF Parts
    <3> QED BY <2>10, <3>1, VectorWhole
  <2>13. Used(w) = Used(v) \cup {fr[k]} /\ fr[k] \notin Used(v)
    BY <1>1, <2>3, <2>6, <2>12
  <2>14. w.items = it2
    BY <2>10
  <2>15. \A p \in Used(v) : p \in 1 .. n /\ p # fr[k]
    BY <1>1, <2>13
  <2> QED BY <2>1, <2>3, <2>5, <2>12, <2>13, <2>14, <2>15 DEF w, it
<1> QED BY <1>3, <1>4

(* filter() leaves in use what was in use and is kept, where it was. *)
LEMMA FilteredVector ==
  ASSUME NEW Value, NEW v, Vector(v, Value), NEW keep
  PROVE  /\ Vector(Filtered(v, keep), Value)
         /\ Used(Filtered(v, keep)) = Used(v) \cap keep
         /\ \A p \in Used(v) \cap keep : Filtered(v, keep).items[p] = v.items[p]
<1> DEFINE it == v.items
           us == v.used
           fr == v.free
           n  == Len(v.items)
           k  == Len(v.free)
           w  == Filtered(v, keep)
           gone == Used(v) \ keep
           s  == SetToSeq(gone)
           m  == Len(s)
<1>0. /\ Parts(it, us, fr, n, k, Value)
      /\ Slots(v) = 1 .. n /\ Used(v) = {p \in 1 .. n : us[p]}
  BY VectorParts
<1>1. /\ n \in Nat /\ k \in Nat /\ Len(it) = n /\ Len(fr) = k
      /\ it \in [1 .. n -> Value \cup {None}]
      /\ us \in [1 .. n -> BOOLEAN]
      /\ fr \in [1 .. k -> 1 .. n]
      /\ \A i, j \in 1 .. k : fr[i] = fr[j] => i = j
      /\ \A i \in 1 .. k : ~us[fr[i]]
      /\ \A p \in 1 .. n : ~us[p] => \E i \in 1 .. k : fr[i] = p
      /\ Slots(v) = 1 .. n
      /\ Used(v) = {p \in 1 .. n : us[p]}
  BY <1>0 DEF Parts
<1>a. n \in Nat /\ k \in Nat
  BY <1>1
<1> HIDE DEF n, k
<1> USE <1>a
<1>2. gone \subseteq 1 .. n /\ \A p \in gone : us[p]
  BY <1>1
<1>3. IsFiniteSet(gone)
  <2>1. 1 \in Int /\ n \in Int BY <1>1
  <2>2. IsFiniteSet(1 .. n) BY <2>1, FS_Interval
  <2> QED BY <1>2, <2>2, FS_Subset
<1>4. s \in Seq(gone) /\ IsInjective(s) /\ \A p \in gone : \E i \in 1 .. Len(s) : s[i] = p
  BY <1>3, SetToSeqEnumerates
<1>5. w = [items |-> [p \in 1 .. n |-> IF p \in gone THEN None ELSE it[p]],
           used  |-> [p \in 1 .. n |-> us[p] /\ p \notin gone],
           free  |-> fr \o s]
  BY <1>1 DEF Filtered
<1>6. \A p \in 1 .. n : p \in gone <=> us[p] /\ p \notin keep
  BY <1>1
<1> HIDE DEF it, us, fr, w, s, gone
<1>7. /\ m \in Nat /\ s \in [1 .. m -> gone]
      /\ \A i, j \in 1 .. m : s[i] = s[j] => i = j
      /\ \A p \in gone : \E i \in 1 .. m : s[i] = p
  BY <1>4 DEF IsInjective
<1> DEFINE it2 == [p \in 1 .. n |-> IF p \in gone THEN None ELSE it[p]]
           us2 == [p \in 1 .. n |-> us[p] /\ p \notin gone]
           fr2 == fr \o s
<1>8. fr2 = [i \in 1 .. k + m |-> IF i <= k THEN fr[i] ELSE s[i - k]]
  <2>1. Len(s) = m /\ Len(fr) = k BY <1>1
  <2>a. fr \in Seq(1 .. n) BY <1>1
  <2>b. s \in Seq(1 .. n)
    <3>1. s \in [1 .. m -> gone] /\ m \in Nat BY <1>7
    <3>2. s \in [1 .. m -> 1 .. n] BY <1>2, <3>1
    <3> QED BY <3>1, <3>2
  <2>2. fr \in Seq(1 .. n) /\ s \in Seq(1 .. n) BY <2>a, <2>b
  <2>3. /\ fr2 \in Seq(1 .. n) /\ Len(fr2) = k + m
        /\ \A i \in 1 .. k + m : fr2[i] = IF i <= k THEN fr[i] ELSE s[i - k]
    BY <2>1, <2>2, ConcatProperties
  <2> HIDE DEF fr2, m
  <2>4. fr2 \in [1 .. k + m -> 1 .. n] BY <2>3, LenProperties
  <2> QED BY <2>3, <2>4
<1>9. it2 \in [1 .. n -> Value \cup {None}] /\ \A p \in 1 .. n : p \notin gone => it2[p] = it[p]
  BY <1>1
<1>10. us2 \in [1 .. n -> BOOLEAN] /\ \A p \in 1 .. n : us2[p] <=> us[p] /\ p \notin gone
  BY <1>1
<1>11. w = [items |-> it2, used |-> us2, free |-> fr2]
  BY <1>5
<1> HIDE DEF it2, us2, fr2, m
<1>12. k + m \in Nat /\ fr2 \in [1 .. k + m -> 1 .. n]
  <2>1. k + m \in Nat BY <1>7
  <2>2. \A i \in 1 .. k + m : i <= k => i \in 1 .. k BY <1>7
  <2>3. \A i \in 1 .. k + m : ~(i <= k) => i - k \in 1 .. m BY <1>7
  <2>4. \A i \in 1 .. k + m : fr2[i] \in 1 .. n BY <1>1, <1>2, <1>7, <1>8, <2>2, <2>3
  <2> QED BY <1>8, <2>1, <2>4
<1>13. \A i \in 1 .. k : i \in 1 .. k + m /\ fr2[i] = fr[i]
  BY <1>7, <1>8
<1>14. \A i \in 1 .. m : i + k \in 1 .. k + m /\ fr2[i + k] = s[i]
  BY <1>7, <1>8
<1>15. \A i \in 1 .. k + m : \/ i \in 1 .. k /\ ~us[fr2[i]]
                             \/ i - k \in 1 .. m /\ fr2[i] = s[i - k] /\ fr2[i] \in gone /\ us[fr2[i]]
  <2> SUFFICES ASSUME NEW i \in 1 .. k + m
               PROVE  \/ i \in 1 .. k /\ ~us[fr2[i]]
                      \/ i - k \in 1 .. m /\ fr2[i] = s[i - k] /\ fr2[i] \in gone /\ us[fr2[i]]
    OBVIOUS
  <2>1. CASE i <= k
    <3>1. i \in 1 .. k BY <2>1
    <3> QED BY <1>1, <1>13, <3>1
  <2>2. CASE ~(i <= k)
    <3>1. i - k \in 1 .. m BY <1>7, <2>2
    <3>2. fr2[i] = s[i - k] BY <1>8, <2>2
    <3> QED BY <1>2, <1>7, <3>1, <3>2
  <2> QED BY <2>1, <2>2
<1>16. \A i, j \in 1 .. k + m : fr2[i] = fr2[j] => i = j
  <2> SUFFICES ASSUME NEW i \in 1 .. k + m, NEW j \in 1 .. k + m, fr2[i] = fr2[j] PROVE i = j
    OBVIOUS
  <2>1. CASE ~us[fr2[i]]
    <3>1. i \in 1 .. k /\ j \in 1 .. k BY <1>15, <2>1
    <3> QED BY <1>1, <1>13, <3>1
  <2>2. CASE us[fr2[i]]
    <3>1. i - k \in 1 .. m /\ j - k \in 1 .. m /\ s[i - k] = s[j - k] BY <1>15, <2>2
    <3>2. i - k = j - k BY <1>7, <3>1
    <3> QED BY <1>7, <3>2
  <2> QED BY <2>1, <2>2
<1>17. \A i \in 1 .. k + m : ~us2[fr2[i]]
  BY <1>10, <1>12, <1>15
<1>18. \A p \in 1 .. n : ~us2[p] => \E i \in 1 .. k + m : fr2[i] = p
  <2> SUFFICES ASSUME NEW p \in 1 .. n, ~us2[p] PROVE \E i \in 1 .. k + m : fr2[i] = p
    OBVIOUS
  <2>1. CASE ~us[p]
    <3>1. PICK i \in 1 .. k : fr[i] = p BY <1>1, <2>1
    <3> QED BY <1>13, <3>1
  <2>2. CASE p \in gone
    <3>1. PICK i \in 1 .. m : s[i] = p BY <1>7, <2>2
    <3> QED BY <1>14, <3>1
  <2> QED BY <1>10, <2>1, <2>2
<1>19. Vector(w, Value) /\ Used(w) = {p \in 1 .. n : us2[p]}
  <2>1. Parts(it2, us2, fr2, n, k + m, Value)
    BY <1>1, <1>9, <1>10, <1>12, <1>16, <1>17, <1>18 DEF Parts
  <2> QED BY <1>11, <2>1, VectorWhole
<1>20. Used(w) = Used(v) \cap keep
  BY <1>1, <1>6, <1>10, <1>19
<1>21. \A p \in Used(v) \cap keep : p \in 1 .. n /\ p \notin gone
  BY <1>1, <1>6
<1>22. w.items = it2
  BY <1>11
<1> QED BY <1>9, <1>19, <1>20, <1>21, <1>22 DEF w, it

-----------------------------------------------------------------------------
(* Ids.                                                                    *)

(* A position that fits is an id without a modification. *)
LEMMA AsIdFits ==
  ASSUME NEW p \in 1 .. W
  PROVE  AsId(p) = [mod |-> 0, idx |-> p]
<1>1. W \in Nat /\ W > 0 /\ p - 1 \in Nat /\ p - 1 < W
  BY WidthsOK
<1>2. (p - 1) \div W = 0 /\ (p - 1) % W = p - 1
  BY <1>1
<1> QED BY <1>2 DEF AsId

Plain(id) == [id EXCEPT !.mod = 0]

(* An id without a modification that leads to the item x. *)
Leads(id, x) ==
  /\ id \in Id /\ id.mod = 0
  /\ id.idx \in Used(items) /\ items.items[id.idx] = x

(* The id of a hypothesis leads to its item, and holds its modification:   *)
(* none, one in the id itself, or one in the table.                        *)
Own(h) ==
  /\ h \in Hypothesis
  /\ \/ /\ h.trace.mod = 0 /\ h.m = None
        /\ Leads(h.trace, h.item)
     \/ /\ h.trace.mod \in 1 .. Full - 1
        /\ h.m # None /\ h.m.first + 1 = h.trace.mod /\ h.m.second = 0
        /\ Leads(Plain(h.trace), h.item)
     \/ /\ h.trace.mod = Full
        /\ h.m # None /\ h.trace.idx \in Used(mods)
        /\ LET e == mods.items[h.trace.idx] IN
           /\ e \in ModEntry
           /\ e.m.first = h.m.first /\ e.m.second = h.m.second
           /\ Leads(e.trace, h.item)

(* What an id that is its hypothesis's own is for the operations. *)
LEMMA OwnResolves ==
  ASSUME NEW h, Own(h)
  PROVE  /\ Leads(GetUnmodified(h.trace), h.item)
         /\ AsPosition(GetUnmodified(h.trace)) = GetUnmodified(h.trace).idx
         /\ TraceItem(h.trace) = h.item
         /\ IsModified(h.trace) <=> h.m # None
         /\ h.m # None => /\ GetModification(h.trace).first = h.m.first
                          /\ GetModification(h.trace).second = h.m.second
         /\ h.trace.mod = Full => h.trace.idx \in Used(mods)
<1>1. h.trace \in Id /\ h.trace.mod \in Nat /\ h.trace.idx \in 1 .. W
  BY DEF Own, Hypothesis, Id
<1>2. Full \in Nat /\ Full > 0 /\ W \in Nat /\ None \notin Modification
  BY WidthsOK, ValuesOK
<1>3. h.m # None => h.m \in Modification /\ h.m.first \in Nat /\ h.m.second \in Nat
  BY ValuesOK DEF Own, Hypothesis
<1>4. Leads(GetUnmodified(h.trace), h.item)
  <2>1. CASE h.trace.mod = 0
    <3>1. GetUnmodified(h.trace) = h.trace BY <1>1, <1>2, <2>1 DEF GetUnmodified, Id
    <3> QED BY <1>2, <2>1, <3>1 DEF Own
  <2>2. CASE h.trace.mod \in 1 .. Full - 1
    <3>1. GetUnmodified(h.trace) = Plain(h.trace) BY <1>2, <2>2 DEF GetUnmodified, Plain
    <3> QED BY <1>2, <2>2, <3>1 DEF Own
  <2>3. CASE h.trace.mod = Full
    <3>1. GetUnmodified(h.trace) = mods.items[h.trace.idx].trace BY <2>3 DEF GetUnmodified
    <3> QED BY <1>2, <2>3, <3>1 DEF Own
  <2> QED BY <2>1, <2>2, <2>3 DEF Own
<1>5. AsPosition(GetUnmodified(h.trace)) = GetUnmodified(h.trace).idx
  BY <1>2, <1>4 DEF Leads, AsPosition, Id
<1>6. TraceItem(h.trace) = h.item
  BY <1>4, <1>5 DEF TraceItem, Leads
<1>7. IsModified(h.trace) <=> h.m # None
  BY <1>1, <1>2 DEF Own, IsModified
<1>8. ASSUME h.m # None
      PROVE  /\ GetModification(h.trace).first = h.m.first
             /\ GetModification(h.trace).second = h.m.second
  <2>1. CASE h.trace.mod = Full BY <1>2, <1>8, <2>1 DEF Own, GetModification
  <2>2. CASE h.trace.mod # Full
    <3>1. h.m.first + 1 = h.trace.mod /\ h.m.second = 0 BY <1>8, <2>2 DEF Own
    <3> QED BY <1>1, <1>3, <1>8, <2>2, <3>1 DEF GetModification
  <2> QED BY <2>1, <2>2
<1>9. h.trace.mod = Full => h.trace.idx \in Used(mods)
  BY <1>2 DEF Own
<1> QED BY <1>4, <1>5, <1>6, <1>7, <1>8, <1>9

(* A hypothesis keeps its own item and modification as long as the two     *)
(* positions it leads to stay in use and are not written.                  *)
LEMMA OwnKept ==
  ASSUME NEW h, Own(h),
         LET i == GetUnmodified(h.trace).idx IN
           i \in Used(items)' /\ items.items[i] = items'.items[i],
         h.trace.mod = Full =>
           h.trace.idx \in Used(mods)' /\ mods.items[h.trace.idx] = mods'.items[h.trace.idx]
  PROVE  Own(h)'
<1>1. h.trace \in Id /\ Full \in Nat /\ Full > 0
  BY WidthsOK DEF Own, Hypothesis
<1>2. h \in Hypothesis
  BY DEF Own
<1>3. CASE h.trace.mod = 0
  <2>1. GetUnmodified(h.trace) = h.trace BY <1>1, <1>3 DEF GetUnmodified, Id
  <2>2. Leads(h.trace, h.item)' BY <1>1, <1>3, <2>1 DEF Own, Leads
  <2>3. h.m = None BY <1>1, <1>3 DEF Own
  <2> QED BY <1>2, <1>3, <2>2, <2>3 DEF Own
<1>4. CASE h.trace.mod \in 1 .. Full - 1
  <2>1. GetUnmodified(h.trace) = Plain(h.trace) BY <1>1, <1>4 DEF GetUnmodified, Plain
  <2>2. Leads(Plain(h.trace), h.item) BY <1>1, <1>4 DEF Own
  <2>3. Leads(Plain(h.trace), h.item)' BY <2>1, <2>2 DEF Leads, Plain
  <2>4. h.m # None /\ h.m.first + 1 = h.trace.mod /\ h.m.second = 0 BY <1>1, <1>4 DEF Own
  <2> QED BY <1>2, <1>4, <2>3, <2>4 DEF Own
<1>5. CASE h.trace.mod = Full
  <2> DEFINE e == mods.items[h.trace.idx]
  <2>1. GetUnmodified(h.trace) = e.trace BY <1>5 DEF GetUnmodified
  <2>2. /\ e \in ModEntry /\ e.m.first = h.m.first /\ e.m.second = h.m.second
        /\ Leads(e.trace, h.item) /\ h.m # None
    BY <1>1, <1>5 DEF Own
  <2>3. mods'.items[h.trace.idx] = e BY <1>5
  <2>4. e.trace.idx \in Used(items)' /\ items'.items[e.trace.idx] = items.items[e.trace.idx]
    BY <2>1
  <2> HIDE DEF e
  <2>5. PICK c : c = e OBVIOUS
  <2>6. Leads(c.trace, h.item)' BY <2>2, <2>4, <2>5 DEF Leads
  <2>7. c \in ModEntry /\ c.m.first = h.m.first /\ c.m.second = h.m.second BY <2>2, <2>5
  <2>8. mods'.items[h.trace.idx] = c BY <2>3, <2>5
  <2> QED BY <1>2, <1>5, <2>2, <2>6, <2>7, <2>8 DEF Own
<1> QED BY <1>1, <1>3, <1>4, <1>5 DEF Own

(* modify() returns an id. *)
LEMMA ModifiedIdType ==
  ASSUME NEW id \in Id, NEW m \in [first : Nat, second : Nat, third : Nat],
         ~Fits(m) => m \in Modification,
         Vector(mods, ModEntry), mods' = ModifiedTable(id, m), Len(mods'.items) <= W
  PROVE  ModifiedId(id, m) \in Id
<1>1. CASE Fits(m)
  <2>1. id.mod + m.first + 1 \in Nat /\ id.idx \in 1 .. W BY DEF Id
  <2> QED BY <1>1, <2>1 DEF ModifiedId, Id
<1>2. CASE ~Fits(m)
  <2> DEFINE e == [trace |-> id, m |-> m]
  <2>1. e \in ModEntry BY <1>2 DEF ModEntry
  <2>2. mods' = Inserted(mods, e) BY <1>2 DEF ModifiedTable
  <2> HIDE DEF e
  <2>3. Vector(mods', ModEntry) /\ Slot(mods) \in Slots(mods')
    BY <2>1, <2>2, InsertedVector
  <2>4. Slot(mods) \in 1 .. W
    BY <2>3, WidthsOK DEF Slots, Vector, VectorOK
  <2> QED BY <1>2, <2>4, AsIdFits, WidthsOK DEF ModifiedId, Id
<1> QED BY <1>1, <1>2

(* modify() leaves the table a vector, disturbs nothing in it, and gives   *)
(* an id that is its hypothesis's own.                                     *)
LEMMA ModifiedOwn ==
  ASSUME NEW id, NEW x \in Item, NEW m \in [first : Nat, second : Nat, third : Nat],
         NEW h \in Hypothesis,
         ~Fits(m) => m \in Modification,
         Vector(mods, ModEntry), mods' = ModifiedTable(id, m), Len(mods'.items) <= W,
         Leads(id, x)',
         h.trace = ModifiedId(id, m), h.item = x,
         h.m # None, h.m.first = m.first, h.m.second = m.second
  PROVE  /\ Vector(mods', ModEntry)
         /\ \A p \in Used(mods) : p \in Used(mods)' /\ mods.items[p] = mods'.items[p]
         /\ Own(h)'
<1>1. id \in Id /\ id.mod = 0 /\ Full \in Nat /\ Full > 0 /\ W \in Nat
  BY WidthsOK DEF Leads
<1>2. CASE Fits(m)
  <2>1. mods' = mods BY <1>2 DEF ModifiedTable
  <2>2. h.trace = [id EXCEPT !.mod = @ + m.first + 1] BY <1>2 DEF ModifiedId
  <2>3. m.first + 1 \in 1 .. Full - 1 /\ m.second = 0 BY <1>1, <1>2 DEF Fits
  <2>4. h.trace.mod = m.first + 1 /\ Plain(h.trace) = id
    <3>1. id = [mod |-> 0, idx |-> id.idx] BY <1>1 DEF Id
    <3>2. h.trace = [mod |-> m.first + 1, idx |-> id.idx]
      <4>1. 0 + m.first + 1 = m.first + 1 OBVIOUS
      <4> QED BY <2>2, <3>1, <4>1
    <3> QED BY <3>1, <3>2 DEF Plain
  <2>5. Own(h)'
    <3>1. Leads(Plain(h.trace), h.item)' BY <2>4
    <3>2. h.trace.mod \in 1 .. Full - 1 /\ h.m # None /\ h.m.first + 1 = h.trace.mod /\ h.m.second = 0
      BY <2>3, <2>4
    <3> QED BY <3>1, <3>2 DEF Own
  <2>6. Used(mods)' = Used(mods) BY <2>1
  <2> QED BY <2>1, <2>5, <2>6
<1>3. CASE ~Fits(m)
  <2> DEFINE e == [trace |-> id, m |-> m]
  <2>1. mods' = Inserted(mods, e) BY <1>3 DEF ModifiedTable
  <2>2. e \in ModEntry BY <1>1, <1>3 DEF ModEntry
  <2>3. /\ Vector(Inserted(mods, e), ModEntry)
        /\ Slot(mods) \in Slots(Inserted(mods, e))
        /\ Used(Inserted(mods, e)) = Used(mods) \cup {Slot(mods)}
        /\ Inserted(mods, e).items[Slot(mods)] = e
        /\ \A p \in Used(mods) : Inserted(mods, e).items[p] = mods.items[p]
    BY <2>2, InsertedVector
  <2> HIDE DEF e
  <2>4. Used(mods') = Used(mods) \cup {Slot(mods)} /\ mods'.items[Slot(mods)] = e
    BY <2>1, <2>3
  <2>5. Slot(mods) \in 1 .. W
    <3>1. Slot(mods) \in 1 .. Len(mods'.items) BY <2>1, <2>3 DEF Slots
    <3>2. Len(mods'.items) \in Nat BY <2>1, <2>3 DEF Vector, VectorOK
    <3> QED BY <1>1, <3>1, <3>2
  <2>6. h.trace = [mod |-> Full, idx |-> Slot(mods)]
    BY <1>3, <2>5, AsIdFits DEF ModifiedId
  <2>7. h.trace.mod = Full /\ h.trace.idx \in Used(mods)' /\ mods'.items[h.trace.idx] = e
    BY <2>4, <2>6
  <2>8. e.trace = id /\ e.m = m BY DEF e
  <2>9. PICK c : c = e OBVIOUS
  <2>10. c \in ModEntry /\ c.m.first = h.m.first /\ c.m.second = h.m.second /\ c.trace = id
    BY <2>2, <2>8, <2>9
  <2>11. Leads(c.trace, h.item)' BY <2>10
  <2>12. mods'.items[h.trace.idx] = c BY <2>7, <2>9
  <2>13. Own(h)' BY <2>7, <2>10, <2>11, <2>12 DEF Own
  <2> QED BY <2>1, <2>3, <2>4, <2>13
<1> QED BY <1>2, <1>3

-----------------------------------------------------------------------------
(* The inductive invariant.                                                *)

Shape ==
  /\ DOMAIN states \subseteq Place
  /\ states = [p \in DOMAIN states |-> states[p]]
  /\ todo \subseteq DOMAIN states
  /\ phase \in {"start", "correct", "ends"}
  /\ phase # "ends" => early = {}
  /\ phase # "correct" => todo = {}
  /\ time \in 0 .. MaxFrames /\ news \in 0 .. FrameNew

IInv ==
  /\ Vector(items, Item) /\ Vector(mods, ModEntry)
  /\ Shape
  /\ \A h \in Live : Own(h)

LEMMA EmptyIsVector ==
  ASSUME NEW V
  PROVE  Vector(EmptyVector, V)
<1>1. Slots(EmptyVector) = {} /\ Used(EmptyVector) = {} BY DEF Slots, Used, EmptyVector
<1>2. VectorOK(EmptyVector, V) BY <1>1 DEF VectorOK, EmptyVector
<1>3. IsInjective(<<>>) /\ ToSet(<<>>) = {} BY DEF IsInjective, ToSet
<1> QED BY <1>1, <1>2, <1>3 DEF Vector, EmptyVector

LEMMA InitIInv == Init => IInv
<1> SUFFICES ASSUME Init PROVE IInv OBVIOUS
<1>1. Vector(items, Item) /\ Vector(mods, ModEntry) BY EmptyIsVector DEF Init
<1>2. DOMAIN states = {} /\ states = [p \in DOMAIN states |-> states[p]] BY DEF Init
<1>3. Live = {} BY <1>2 DEF Init, Live, Held
<1>4. Shape BY <1>2, BoundsOK DEF Init, Shape
<1> QED BY <1>1, <1>3, <1>4 DEF IInv

(* insert() of an item: the hypotheses keep theirs, the new id leads to it. *)
LEMMA InsertedItem ==
  ASSUME IInv, NEW x \in Item, items' = Inserted(items, x), Len(items'.items) <= W
  PROVE  /\ Vector(items', Item)
         /\ \A p \in Used(items) : p \in Used(items)' /\ items.items[p] = items'.items[p]
         /\ AsId(Slot(items)) = [mod |-> 0, idx |-> Slot(items)]
         /\ AsId(Slot(items)) \in Id
         /\ Slot(items) \in Used(items)' /\ items'.items[Slot(items)] = x
<1>1. /\ Vector(Inserted(items, x), Item)
      /\ Slot(items) \in Slots(Inserted(items, x))
      /\ Used(Inserted(items, x)) = Used(items) \cup {Slot(items)}
      /\ Inserted(items, x).items[Slot(items)] = x
      /\ \A p \in Used(items) : Inserted(items, x).items[p] = items.items[p]
  BY InsertedVector DEF IInv
<1>2. Slot(items) \in 1 .. Len(items'.items) /\ Len(items'.items) \in Nat
  BY <1>1 DEF Slots, Vector, VectorOK
<1>3. Slot(items) \in 1 .. W
  BY <1>2, WidthsOK
<1>4. AsId(Slot(items)) = [mod |-> 0, idx |-> Slot(items)]
  BY <1>3, AsIdFits
<1> QED BY <1>1, <1>3, <1>4 DEF Id

(* Hypotheses stay their own while the tables only grow. *)
LEMMA LiveKept ==
  ASSUME \A h \in Live : Own(h),
         \A p \in Used(items) : p \in Used(items)' /\ items.items[p] = items'.items[p],
         \A p \in Used(mods) : p \in Used(mods)' /\ mods.items[p] = mods'.items[p]
  PROVE  \A h \in Live : Own(h)'
<1> SUFFICES ASSUME NEW h \in Live PROVE Own(h)' OBVIOUS
<1>1. Own(h) OBVIOUS
<1>2. GetUnmodified(h.trace).idx \in Used(items) BY <1>1, OwnResolves DEF Leads
<1>3. h.trace.mod = Full => h.trace.idx \in Used(mods) BY <1>1, OwnResolves
<1> QED BY <1>1, <1>2, <1>3, OwnKept

-----------------------------------------------------------------------------
(* The steps.                                                              *)

LEMMA StartTreeIInv ==
  ASSUME IInv, Addressable', NEW x \in Item, StartTree(x)
  PROVE  IInv'
<1> DEFINE new == [trace |-> AsId(Slot(items)), item |-> x, m |-> None]
<1>1. /\ items' = Inserted(items, x) /\ Len(items'.items) <= W
      /\ roots' = roots \cup {new} /\ mods' = mods /\ states' = states /\ early' = early
      /\ todo' = todo /\ phase' = phase /\ time' = time /\ news' = news + 1 /\ news < FrameNew
      /\ phase = "start"
  BY DEF StartTree, Addressable
<1>2. /\ Vector(items', Item)
      /\ \A p \in Used(items) : p \in Used(items)' /\ items.items[p] = items'.items[p]
      /\ AsId(Slot(items)) = [mod |-> 0, idx |-> Slot(items)]
      /\ AsId(Slot(items)) \in Id
      /\ Slot(items) \in Used(items)' /\ items'.items[Slot(items)] = x
  BY <1>1, InsertedItem
<1>3. \A h \in Live : Own(h)'
  <2>1. Used(mods)' = Used(mods) BY <1>1
  <2> QED BY <1>1, <1>2, <2>1, LiveKept DEF IInv
<1>4. PICK c : c = new OBVIOUS
<1>5. Own(c)'
  <2>1. c.trace \in Id /\ c.trace.mod = 0 /\ c.trace.idx = Slot(items) /\ c.item = x /\ c.m = None
    BY <1>2, <1>4
  <2>2. c \in Hypothesis BY <1>2, <1>4 DEF Hypothesis
  <2>3. PICK i : i = Slot(items) OBVIOUS
  <2>4. i \in Used(items)' /\ items'.items[i] = x /\ c.trace.idx = i BY <1>2, <2>1, <2>3
  <2>5. Leads(c.trace, c.item)' BY <2>1, <2>4 DEF Leads
  <2> QED BY <2>1, <2>2, <2>5 DEF Own
<1>6. Live' = Live \cup {new} BY <1>1 DEF Live, Held
<1>7. \A h \in Live' : Own(h)' BY <1>3, <1>4, <1>5, <1>6
<1>8. Shape' BY <1>1, BoundsOK DEF IInv, Shape
<1> QED BY <1>1, <1>2, <1>7, <1>8 DEF IInv

LEMMA ExpandHmmIInv ==
  ASSUME IInv, ExpandHmm
  PROVE  IInv'
<1>1. PICK D \in SUBSET Place : states' \in [D -> Held \cup roots]
  BY DEF ExpandHmm
<1>2. /\ DOMAIN states' = D /\ states' = [p \in D |-> states'[p]]
      /\ \A p \in D : states'[p] \in Held \cup roots
  BY <1>1
<1>3. /\ roots' = {} /\ early' = early /\ items' = items /\ mods' = mods /\ news' = news
      /\ todo' \subseteq DOMAIN states' /\ time' = time + 1 /\ time < MaxFrames /\ phase = "start"
      /\ phase' = "correct"
  BY DEF ExpandHmm
<1>4. Live' \subseteq Live
  BY <1>2, <1>3 DEF Live, Held
<1>5. \A h \in Live : Own(h)'
  BY <1>3, LiveKept DEF IInv, Used, Slots
<1>6. Shape'
  BY <1>2, <1>3, BoundsOK DEF IInv, Shape
<1> QED BY <1>3, <1>4, <1>5, <1>6 DEF IInv

LEMMA CorrectIInv ==
  ASSUME IInv, Addressable', NEW p \in Place, NEW m \in Modification, Correct(p, m)
  PROVE  IInv'
<1>1. PICK id : id = GetUnmodified(states[p].trace) OBVIOUS
<1>2. PICK h : h = [states[p] EXCEPT !.trace = ModifiedId(id, m), !.m = m] OBVIOUS
<1>3. /\ states' = [states EXCEPT ![p] = h] /\ mods' = ModifiedTable(id, m)
      /\ todo' = todo \ {p} /\ p \in todo /\ phase = "correct"
      /\ items' = items /\ roots' = roots /\ early' = early
      /\ phase' = phase /\ time' = time /\ news' = news
  BY <1>1, <1>2 DEF Correct
<1>4. p \in DOMAIN states /\ Own(states[p])
  BY <1>3 DEF IInv, Shape, Live, Held
<1>5. Leads(id, states[p].item)
  BY <1>1, <1>4, OwnResolves
<1>6. PICK x : x = states[p].item OBVIOUS
<1>7. x \in Item /\ states[p] \in Hypothesis
  BY <1>4, <1>6 DEF Own, Hypothesis
<1>8. Leads(id, x)'
  BY <1>3, <1>5, <1>6 DEF Leads, Used, Slots
<1>9. m \in [first : Nat, second : Nat, third : Nat] /\ m # None
  BY ValuesOK
<1>10. Len(mods'.items) <= W
  BY DEF Addressable
<1>11. h.trace = ModifiedId(id, m) /\ h.item = x /\ h.m = m
  BY <1>2, <1>6, <1>7 DEF Hypothesis
<1>12. h \in Hypothesis
  <2>1. ModifiedId(id, m) \in Id BY <1>3, <1>5, <1>9, <1>10, ModifiedIdType DEF IInv, Leads
  <2> QED BY <1>2, <1>7, <2>1 DEF Hypothesis
<1>13. /\ Vector(mods', ModEntry)
       /\ \A i \in Used(mods) : i \in Used(mods)' /\ mods.items[i] = mods'.items[i]
       /\ Own(h)'
  BY <1>3, <1>7, <1>8, <1>9, <1>10, <1>11, <1>12, ModifiedOwn DEF IInv
<1>14. \A g \in Live : Own(g)'
  <2>1. Used(items)' = Used(items) BY <1>3
  <2> QED BY <1>3, <1>13, <2>1, LiveKept DEF IInv
<1>15. DOMAIN states' = DOMAIN states /\ \A q \in DOMAIN states : states'[q] = IF q = p THEN h ELSE states[q]
  BY <1>3, <1>4
<1>16. Live' \subseteq Live \cup {h}
  BY <1>3, <1>15 DEF Live, Held
<1>17. Shape'
  <2>1. states' = [q \in DOMAIN states' |-> states'[q]] BY <1>3
  <2> QED BY <1>3, <1>15, <2>1 DEF IInv, Shape
<1> QED BY <1>3, <1>13, <1>14, <1>16, <1>17 DEF IInv

(* What a cleanup keeps is what the hypotheses lead to. *)
LEMMA VisitedAll ==
  ASSUME IInv, NEW H, \A h \in H : Own(h)
  PROVE  /\ VisitedItems(H) = {GetUnmodified(h.trace).idx : h \in H}
         /\ Reached(H) = {GetUnmodified(h.trace).idx : h \in H}
         /\ VisitedItems(H) \subseteq Used(items)
         /\ VisitedMods(H) \subseteq Used(mods)
<1> DEFINE Item0(h) == GetUnmodified(h.trace).idx
           Under(h) == AsPosition(mods.items[h.trace.idx].trace)
           Pos(h)   == AsPosition(GetUnmodified(h.trace))
<1>1. ASSUME NEW h \in H
      PROVE  /\ Pos(h) = Item0(h)
             /\ Item0(h) \in Used(items)
             /\ h.trace.mod = Full => h.trace.idx \in Used(mods) /\ Item0(h) = Under(h)
             /\ h.trace.mod # Full => Item0(h) = h.trace.idx
  <2>1. Own(h) OBVIOUS
  <2>2. /\ AsPosition(GetUnmodified(h.trace)) = GetUnmodified(h.trace).idx
        /\ GetUnmodified(h.trace).idx \in Used(items)
        /\ h.trace.mod = Full => h.trace.idx \in Used(mods)
    BY <2>1, OwnResolves DEF Leads
  <2>3. h.trace.mod = Full => GetUnmodified(h.trace) = mods.items[h.trace.idx].trace
    BY DEF GetUnmodified
  <2>4. h.trace \in Id BY <2>1 DEF Own, Hypothesis
  <2>5. h.trace.mod # Full => GetUnmodified(h.trace).idx = h.trace.idx
    BY <2>4 DEF GetUnmodified, Id
  <2> QED BY <2>2, <2>3, <2>5
<1>2. VisitedMods(H) = {h.trace.idx : h \in {g \in H : g.trace.mod = Full}}
  BY DEF VisitedMods
<1>3. VisitedItems(H) = {h.trace.idx : h \in {g \in H : g.trace.mod # Full}}
                          \cup {AsPosition(mods.items[i].trace) : i \in VisitedMods(H)}
  BY DEF VisitedItems
<1>4. Reached(H) = {Pos(h) : h \in H}
  BY DEF Reached
<1> HIDE DEF Item0, Under, Pos
<1>5. Reached(H) = {Item0(h) : h \in H}
  BY <1>1, <1>4
<1>6. VisitedMods(H) \subseteq Used(mods)
  BY <1>1, <1>2
<1>7. {AsPosition(mods.items[i].trace) : i \in VisitedMods(H)}
        = {Under(h) : h \in {g \in H : g.trace.mod = Full}}
  BY <1>2 DEF Under
<1>8. VisitedItems(H) = {Item0(h) : h \in H}
  <2>1. VisitedItems(H) \subseteq {Item0(h) : h \in H} BY <1>1, <1>3, <1>7
  <2>2. ASSUME NEW h \in H PROVE Item0(h) \in VisitedItems(H)
    <3>1. CASE h.trace.mod = Full BY <1>1, <1>3, <1>7, <3>1
    <3>2. CASE h.trace.mod # Full BY <1>1, <1>3, <3>2
    <3> QED BY <3>1, <3>2
  <2> QED BY <2>1, <2>2
<1>9. VisitedItems(H) \subseteq Used(items)
  BY <1>1, <1>8
<1> QED BY <1>5, <1>6, <1>8, <1>9 DEF Item0

LEMMA CleanupIInv ==
  ASSUME IInv, Cleanup
  PROVE  /\ IInv'
         /\ Used(items)' = Reached(Held \cup roots)
         /\ Used(mods)' = VisitedMods(Held \cup roots)
<1> DEFINE H == Held \cup roots
<1>1. /\ items' = Filtered(items, VisitedItems(H)) /\ mods' = Filtered(mods, VisitedMods(H))
      /\ states' = states /\ roots' = roots /\ early' = early /\ todo' = todo
      /\ time' = time /\ news' = news /\ phase = "correct" /\ phase' = "ends" /\ todo = {}
  BY DEF Cleanup, Collect
<1>2. early = {} /\ Live = H BY <1>1 DEF IInv, Shape, Live
<1>3. \A h \in H : Own(h) BY <1>2 DEF IInv
<1> HIDE DEF H
<1>4. /\ VisitedItems(H) = {GetUnmodified(h.trace).idx : h \in H}
      /\ Reached(H) = {GetUnmodified(h.trace).idx : h \in H}
      /\ VisitedItems(H) \subseteq Used(items) /\ VisitedMods(H) \subseteq Used(mods)
  BY <1>3, VisitedAll
<1>5. /\ Vector(items', Item) /\ Used(items') = Used(items) \cap VisitedItems(H)
      /\ \A p \in Used(items) \cap VisitedItems(H) : items'.items[p] = items.items[p]
  BY <1>1, FilteredVector DEF IInv
<1>6. /\ Vector(mods', ModEntry) /\ Used(mods') = Used(mods) \cap VisitedMods(H)
      /\ \A p \in Used(mods) \cap VisitedMods(H) : mods'.items[p] = mods.items[p]
  BY <1>1, FilteredVector DEF IInv
<1>7. Used(items') = Reached(H) /\ Used(mods') = VisitedMods(H)
  BY <1>4, <1>5, <1>6
<1>8. \A h \in H : Own(h)'
  <2> SUFFICES ASSUME NEW h \in H PROVE Own(h)' OBVIOUS
  <2>1. GetUnmodified(h.trace).idx \in Used(items) \cap VisitedItems(H) BY <1>4
  <2>2. h.trace.mod = Full => h.trace.idx \in Used(mods) \cap VisitedMods(H)
    BY <1>4 DEF VisitedMods
  <2> QED BY <1>3, <1>5, <1>6, <2>1, <2>2, OwnKept
<1>9. Live' = H BY <1>1, <1>2 DEF Live, Held, H
<1>10. Shape' BY <1>1 DEF IInv, Shape
<1> QED BY <1>5, <1>6, <1>7, <1>8, <1>9, <1>10 DEF IInv, H

LEMMA RescoreIInv ==
  ASSUME IInv, Addressable', NEW p \in Place, NEW x \in Item, Rescore(p, x)
  PROVE  IInv'
<1> DEFINE new == AsId(Slot(items))
<1>1. PICK m : m = GetModification(states[p].trace) OBVIOUS
<1>2. /\ items' = Inserted(items, x) /\ Len(items'.items) <= W /\ Len(mods'.items) <= W
      /\ phase = "ends" /\ phase' = phase /\ states' = states /\ roots' = roots
      /\ todo' = todo /\ time' = time /\ news' = news + 1 /\ news < FrameNew /\ p \in DOMAIN states
  BY DEF Rescore, Addressable
<1>3. Own(states[p])
  BY <1>2 DEF IInv, Live, Held
<1>4. /\ Vector(items', Item)
      /\ \A i \in Used(items) : i \in Used(items)' /\ items.items[i] = items'.items[i]
      /\ new = [mod |-> 0, idx |-> Slot(items)] /\ new \in Id
      /\ Slot(items) \in Used(items)' /\ items'.items[Slot(items)] = x
  BY <1>2, InsertedItem
<1>5. PICK id : id = new OBVIOUS
<1> HIDE DEF new
<1>6. id \in Id /\ id.mod = 0 /\ [id EXCEPT !.mod = 0] = id
  BY <1>4, <1>5
<1>7. Leads(id, x)'
  <2>1. id.idx \in Used(items') /\ items'.items[id.idx] = x BY <1>4, <1>5
  <2> QED BY <1>6, <2>1 DEF Leads
<1>8. Shape'
  BY <1>2, BoundsOK DEF IInv, Shape
<1>9. CASE IsModified(states[p].trace)
  <2>1. PICK h : h = [trace |-> ModifiedId(id, m), item |-> x, m |-> states[p].m] OBVIOUS
  <2>2. early' = early \cup {h} /\ mods' = ModifiedTable(id, m)
    BY <1>1, <1>5, <1>6, <1>9, <2>1 DEF Rescore, new
  <2>3. states[p].m # None /\ m.first = states[p].m.first /\ m.second = states[p].m.second
    BY <1>1, <1>3, <1>9, OwnResolves
  <2>4. states[p].m \in Modification
    BY <1>3, <2>3 DEF Own, Hypothesis
  <2>5. m \in [first : Nat, second : Nat, third : Nat] /\ (~Fits(m) => m \in Modification)
    <3>1. states[p].trace.mod \in Nat \ {0} /\ Full \in Nat /\ Full > 0
      BY <1>3, <1>9, WidthsOK DEF IsModified, Own, Hypothesis, Id
    <3>2. CASE states[p].trace.mod = Full
      <4>1. m \in Modification BY <1>1, <1>3, <3>1, <3>2 DEF GetModification, Own, ModEntry
      <4> QED BY <4>1, ValuesOK
    <3>3. CASE states[p].trace.mod # Full
      <4>1. m = [first |-> states[p].trace.mod - 1, second |-> 0, third |-> 0]
        BY <1>1, <3>3 DEF GetModification
      <4>2. states[p].trace.mod \in 1 .. Full - 1 BY <1>3, <3>1, <3>3 DEF Own
      <4>3. Fits(m) BY <3>1, <4>1, <4>2 DEF Fits
      <4> QED BY <3>1, <4>1, <4>3
    <3> QED BY <3>2, <3>3
  <2>6. ModifiedId(id, m) \in Id
    BY <1>2, <1>6, <2>2, <2>5, ModifiedIdType DEF IInv
  <2>7. h \in Hypothesis BY <2>1, <2>4, <2>6 DEF Hypothesis
  <2>8. /\ Vector(mods', ModEntry)
        /\ \A i \in Used(mods) : i \in Used(mods)' /\ mods.items[i] = mods'.items[i]
        /\ Own(h)'
    BY <1>2, <1>7, <2>1, <2>2, <2>3, <2>5, <2>7, ModifiedOwn DEF IInv
  <2>9. \A g \in Live : Own(g)'
    BY <1>4, <2>8, LiveKept DEF IInv
  <2>10. Live' = Live \cup {h} BY <1>2, <2>2 DEF Live, Held
  <2> QED BY <1>4, <1>8, <2>8, <2>9, <2>10 DEF IInv
<1>10. CASE ~IsModified(states[p].trace)
  <2>1. PICK h : h = [trace |-> id, item |-> x, m |-> None] OBVIOUS
  <2>2. early' = early \cup {h} /\ mods' = mods
    BY <1>5, <1>10, <2>1 DEF Rescore, new
  <2>3. h \in Hypothesis BY <1>6, <2>1 DEF Hypothesis
  <2>4. Own(h)' BY <1>6, <1>7, <2>1, <2>3 DEF Own
  <2>5. \A g \in Live : Own(g)'
    <3>1. Used(mods)' = Used(mods) BY <2>2
    <3> QED BY <1>4, <2>2, <3>1, LiveKept DEF IInv
  <2>6. Live' = Live \cup {h} BY <1>2, <2>2 DEF Live, Held
  <2> QED BY <1>4, <1>8, <2>2, <2>4, <2>5, <2>6 DEF IInv
<1> QED BY <1>9, <1>10

(* The other steps create and collect nothing. *)
LEMMA QuietIInv ==
  ASSUME IInv, NoCleanup \/ EndFrame \/ ClearSpace \/ UNCHANGED vars
  PROVE  IInv'
<1>1. CASE NoCleanup
  <2>1. Live' = Live BY <1>1 DEF NoCleanup, Live, Held
  <2>2. /\ items' = items /\ mods' = mods /\ states' = states /\ early' = early
        /\ todo' = todo /\ time' = time /\ news' = news /\ phase = "correct" /\ phase' = "ends"
        /\ todo = {}
    BY <1>1 DEF NoCleanup
  <2>3. \A h \in Live : Own(h)' BY <2>2, LiveKept DEF IInv, Used, Slots
  <2>4. Shape' BY <2>2 DEF IInv, Shape
  <2> QED BY <2>1, <2>2, <2>3, <2>4 DEF IInv
<1>2. CASE EndFrame
  <2>1. /\ items' = items /\ mods' = mods /\ states' = states /\ roots' = roots /\ early' = {}
        /\ todo' = todo /\ time' = time /\ news' = 0 /\ phase' = "start"
        /\ phase = "ends"
    BY <1>2 DEF EndFrame
  <2>2. Live' \subseteq Live BY <2>1 DEF Live, Held
  <2>3. \A h \in Live : Own(h)' BY <2>1, LiveKept DEF IInv, Used, Slots
  <2>4. Shape' BY <2>1, BoundsOK DEF IInv, Shape
  <2> QED BY <2>1, <2>2, <2>3, <2>4 DEF IInv
<1>3. CASE ClearSpace
  <2>1. /\ items' = EmptyVector /\ mods' = EmptyVector /\ states' = <<>> /\ roots' = {}
        /\ early' = {} /\ todo' = todo /\ phase = "start" /\ phase' = phase
        /\ time' = 0 /\ news' = 0
    BY <1>3 DEF ClearSpace
  <2>2. DOMAIN states' = {} /\ states' = [p \in DOMAIN states' |-> states'[p]] BY <2>1
  <2>3. Live' = {} BY <2>1, <2>2 DEF Live, Held
  <2>4. todo = {} BY <2>1 DEF IInv, Shape
  <2>5. Shape' BY <2>1, <2>2, <2>4, BoundsOK DEF Shape
  <2>6. Vector(items', Item) /\ Vector(mods', ModEntry) BY <2>1, EmptyIsVector
  <2> QED BY <2>3, <2>5, <2>6 DEF IInv
<1>4. CASE UNCHANGED vars
  <2>1. Live' = Live BY <1>4 DEF vars, Live, Held
  <2>2. \A h \in Live : Own(h)' BY <1>4, LiveKept DEF vars, IInv, Used, Slots
  <2>3. Shape' BY <1>4 DEF vars, IInv, Shape
  <2> QED BY <1>4, <2>1, <2>2, <2>3 DEF vars, IInv
<1> QED BY <1>1, <1>2, <1>3, <1>4

LEMMA NextIInv ==
  ASSUME IInv, Addressable', [Next]_vars
  PROVE  IInv'
<1>1. CASE \E x \in Item : StartTree(x) BY <1>1, StartTreeIInv
<1>2. CASE ExpandHmm BY <1>2, ExpandHmmIInv
<1>3. CASE \E p \in Place, m \in Modification : Correct(p, m) BY <1>3, CorrectIInv
<1>4. CASE Cleanup BY <1>4, CleanupIInv
<1>5. CASE \E p \in Place, x \in Item : Rescore(p, x) BY <1>5, RescoreIInv
<1>6. CASE NoCleanup \/ EndFrame \/ ClearSpace \/ UNCHANGED vars BY <1>6, QuietIInv
<1> QED BY <1>1, <1>2, <1>3, <1>4, <1>5, <1>6 DEF Next

LEMMA Inductive == Spec /\ []Addressable => []IInv
<1>1. Init => IInv
  BY InitIInv
<1>2. IInv /\ Addressable' /\ [Next]_vars => IInv'
  BY NextIInv
<1> QED BY <1>1, <1>2, PTL DEF Spec

-----------------------------------------------------------------------------
(* The theorems.  All are about runs in which the tables do not outgrow    *)
(* the low part of an id: nothing in modify() or insert() prevents that.   *)

(* The tables and the hypotheses of the search have their types.           *)
THEOREM TypeCorrect == Spec /\ []Addressable => []TypeOK
<1>1. IInv => TypeOK
  BY DEF IInv, Vector, Shape, TypeOK, Own
<1> QED BY <1>1, Inductive, PTL

(* insert() never gives out a position that is in use, and erase() never   *)
(* loses or doubles one (TraceManager.hh, SparseVector).                   *)
THEOREM FreeListsExact == Spec /\ []Addressable => []FreeListExact
<1>1. IInv => FreeListExact
  BY DEF IInv, Vector, FreeListExact
<1> QED BY <1>1, Inductive, PTL

(* Whatever is copied, corrected, rescored and collected, the id of every  *)
(* hypothesis leads to the item it was created for (getUnmodified,         *)
(* traceItem).                                                             *)
THEOREM IdsResolve == Spec /\ []Addressable => []ResolvesOwn
<1>1. IInv => ResolvesOwn
  <2> SUFFICES ASSUME IInv, NEW h \in Live
               PROVE  /\ IsModified(h.trace) /\ h.trace.mod = Full => h.trace.idx \in Used(mods)
                      /\ AsPosition(GetUnmodified(h.trace)) \in Used(items)
                      /\ TraceItem(h.trace) = h.item
    BY DEF ResolvesOwn
  <2>1. Own(h) BY DEF IInv
  <2> QED BY <2>1, OwnResolves DEF Leads
<1> QED BY <1>1, Inductive, PTL

(* getModification() returns the time and the score difference the trace   *)
(* was corrected by, and a trace that was not corrected is not modified.   *)
THEOREM CorrectionsKept == Spec /\ []Addressable => []OwnCorrection
<1>1. IInv => OwnCorrection
  <2> SUFFICES ASSUME IInv, NEW h \in Live
               PROVE  /\ IsModified(h.trace) <=> h.m # None
                      /\ h.m # None => /\ GetModification(h.trace).first = h.m.first
                                       /\ GetModification(h.trace).second = h.m.second
    BY DEF OwnCorrection
  <2>1. Own(h) BY DEF IInv
  <2> QED BY <2>1, OwnResolves
<1> QED BY <1>1, Inductive, PTL

(* SearchSpace::cleanup leaves in use exactly what a hypothesis leads to:  *)
(* nothing reachable is collected, nothing unreachable is kept.            *)
THEOREM CleanupsExact == Spec /\ []Addressable => CleanupExact
<1>1. IInv /\ [Next]_vars
        => [Cleanup => /\ Used(items)' = Reached(Held \cup roots)
                       /\ Used(mods)' = VisitedMods(Held \cup roots)]_vars
  BY CleanupIInv
<1> QED BY <1>1, Inductive, PTL DEF Spec, CleanupExact
=============================================================================
