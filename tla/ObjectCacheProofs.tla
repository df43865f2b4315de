-------------------------- MODULE ObjectCacheProofs --------------------------
(***************************************************************************)
(* Theorems about ObjectCache, for any directories, keys, sizes and        *)
(* bounds, and whatever may fail: types, the bound on the memory, the      *)
(* client's reference, and that the cache implements WriteBackStore.       *)
(***************************************************************************)
EXTENDS ObjectCache, FiniteSetTheorems, SequenceTheorems, TLAPS

-----------------------------------------------------------------------------
(* The list                                                                *)

(* A list without repetition of the keys K. *)
Lists(s, K) == s \in Seq(Key) /\ IsInjective(s) /\ ToSet(s) = K

LEMMA ListSize ==
  ASSUME NEW s, NEW K, Lists(s, K)
  PROVE  /\ Len(s) \in Nat /\ s \in [1 .. Len(s) -> Key]
         /\ \A i \in 1 .. Len(s) : s[i] \in K
         /\ \A k \in K : \E i \in 1 .. Len(s) : s[i] = k
         /\ K \subseteq Key
         /\ IsFiniteSet(K) /\ Cardinality(K) = Len(s)
<1>1. /\ Len(s) \in Nat /\ s \in [1 .. Len(s) -> Key] /\ DOMAIN s = 1 .. Len(s)
  BY DEF Lists
<1>2. K = {s[i] : i \in 1 .. Len(s)}
  BY <1>1 DEF Lists, ToSet
<1>3. /\ \A i \in 1 .. Len(s) : s[i] \in K
      /\ \A k \in K : \E i \in 1 .. Len(s) : s[i] = k
      /\ K \subseteq Key
  BY <1>1, <1>2
<1>4. s \in Bijection(1 .. Len(s), K)
  BY <1>1, <1>3 DEF Lists, IsInjective, Bijection, Injection, Surjection
<1>5. IsFiniteSet(1 .. Len(s)) /\ Cardinality(1 .. Len(s)) = Len(s)
  BY <1>1, FS_Interval
<1>6. ExistsBijection(1 .. Len(s), K)
  BY <1>4 DEF ExistsBijection
<1>7. IsFiniteSet(K) /\ Cardinality(K) = Len(s)
  BY <1>5, <1>6, FS_Bijection
<1> QED BY <1>1, <1>3, <1>7

LEMMA ListMade ==
  ASSUME NEW n \in Nat, NEW s \in [1 .. n -> Key], NEW K,
         \A i, j \in 1 .. n : s[i] = s[j] => i = j,
         \A i \in 1 .. n : s[i] \in K,
         \A k \in K : \E i \in 1 .. n : s[i] = k
  PROVE  Lists(s, K)
<1>1. s \in Seq(Key) /\ DOMAIN s = 1 .. n
  OBVIOUS
<1>2. ToSet(s) = K
  BY <1>1 DEF ToSet
<1> QED BY <1>1, <1>2 DEF Lists, IsInjective

(* Erasing an item leaves the others in order. *)
LEMMA Erased ==
  ASSUME NEW s, NEW K, Lists(s, K), NEW k \in K
  PROVE  LET r == RemoveAt(s, Place(s, k)) IN
         /\ Lists(r, K \ {k})
         /\ s # <<>>
         /\ Head(s) # k => r # <<>> /\ Head(r) = Head(s)
<1> DEFINE i == Place(s, k)
           a == SubSeq(s, 1, i - 1)
           b == SubSeq(s, i + 1, Len(s))
           r == RemoveAt(s, i)
           n == Len(s)
<1>1. /\ n \in Nat /\ s \in [1 .. n -> Key] /\ s \in Seq(Key) /\ DOMAIN s = 1 .. n
      /\ \A j \in 1 .. n : s[j] \in K
      /\ \A x \in K : \E j \in 1 .. n : s[j] = x
      /\ \A j, l \in 1 .. n : s[j] = s[l] => j = l
  BY ListSize DEF Lists, IsInjective
<1>2. i \in 1 .. n /\ s[i] = k
  BY <1>1 DEF Place
<1>3. /\ a \in Seq(Key) /\ Len(a) = i - 1
      /\ \A j \in 1 .. i - 1 : a[j] = s[j]
  <2>1. \A j \in 1 .. i - 1 : s[j] \in Key
    BY <1>1, <1>2
  <2> QED BY <2>1, <1>1, <1>2, SubSeqProperties
<1>4. /\ b \in Seq(Key) /\ Len(b) = n - i
      /\ \A j \in 1 .. n - i : b[j] = s[i + j]
  <2>1. \A j \in i + 1 .. n : s[j] \in Key
    BY <1>1, <1>2
  <2>2. /\ b \in Seq(Key) /\ Len(b) = IF i + 1 <= n THEN n - (i + 1) + 1 ELSE 0
        /\ \A j \in 1 .. n - (i + 1) + 1 : b[j] = s[(i + 1) + j - 1]
    BY <2>1, <1>1, <1>2, SubSeqProperties
  <2> QED BY <2>2, <1>1, <1>2
<1>5. r = a \o b
  BY DEF RemoveAt
<1> HIDE DEF i, a, b, r, n
<1>6. /\ r \in Seq(Key) /\ Len(r) = n - 1
      /\ \A j \in 1 .. n - 1 : r[j] = IF j < i THEN s[j] ELSE s[j + 1]
  <2>1. /\ a \o b \in Seq(Key) /\ Len(a \o b) = Len(a) + Len(b)
        /\ \A j \in 1 .. Len(a) + Len(b) : (a \o b)[j] = IF j <= Len(a) THEN a[j] ELSE b[j - Len(a)]
    BY <1>3, <1>4, ConcatProperties
  <2>2. \A j \in 1 .. n - 1 : r[j] = IF j <= i - 1 THEN a[j] ELSE b[j - (i - 1)]
    <3>1. n \in Nat /\ i \in Int /\ Len(a) = i - 1 /\ Len(b) = n - i
      BY <1>1, <1>2, <1>3, <1>4
    <3>2. Len(a) + Len(b) = n - 1
      BY <3>1
    <3>3. \A j \in 1 .. n - 1 : (a \o b)[j] = IF j <= i - 1 THEN a[j] ELSE b[j - (i - 1)]
      BY <2>1, <3>1, <3>2
    <3> QED BY <3>3, <1>5
  <2>3. ASSUME NEW j \in 1 .. n - 1 PROVE r[j] = IF j < i THEN s[j] ELSE s[j + 1]
    <3>1. CASE j < i BY <3>1, <2>2, <1>1, <1>2, <1>3
    <3>2. CASE ~(j < i)
      <4>1. j - (i - 1) \in 1 .. n - i /\ i + (j - (i - 1)) = j + 1
        BY <3>2, <1>1, <1>2
      <4> QED BY <4>1, <3>2, <2>2, <1>1, <1>2, <1>4
    <3> QED BY <3>1, <3>2
  <2>4. r \in Seq(Key)
    BY <2>1, <1>5
  <2>5. Len(r) = n - 1
    <3>1. Len(r) = Len(a) + Len(b) BY <2>1, <1>5
    <3>2. Len(a) = i - 1 /\ Len(b) = n - i BY <1>3, <1>4
    <3>3. n \in Int /\ i \in Int BY <1>1, <1>2
    <3>4. (i - 1) + (n - i) = n - 1 BY <3>3
    <3> QED BY <3>1, <3>2, <3>4
  <2> QED BY <2>3, <2>4, <2>5
<1>7. n - 1 \in Nat /\ r \in [1 .. n - 1 -> Key]
  BY <1>1, <1>2, <1>6
<1>8. \A j, l \in 1 .. n - 1 : r[j] = r[l] => j = l
  <2> SUFFICES ASSUME NEW j \in 1 .. n - 1, NEW l \in 1 .. n - 1, r[j] = r[l] PROVE j = l
    OBVIOUS
  <2> DEFINE J == IF j < i THEN j ELSE j + 1
             L == IF l < i THEN l ELSE l + 1
  <2>1. J \in 1 .. n /\ L \in 1 .. n /\ r[j] = s[J] /\ r[l] = s[L]
    BY <1>1, <1>2, <1>6
  <2>2. J = L
    BY <2>1, <1>1
  <2> QED BY <2>2, <1>1, <1>2
<1>9. \A j \in 1 .. n - 1 : r[j] \in K \ {k}
  BY <1>1, <1>2, <1>6
<1>10. \A x \in K \ {k} : \E j \in 1 .. n - 1 : r[j] = x
  <2> SUFFICES ASSUME NEW x \in K \ {k} PROVE \E j \in 1 .. n - 1 : r[j] = x
    OBVIOUS
  <2>1. PICK l \in 1 .. n : s[l] = x
    BY <1>1
  <2>2. l # i BY <2>1, <1>2
  <2>3. CASE l < i
    <3>1. l \in 1 .. n - 1 BY <2>3, <1>1, <1>2
    <3> QED BY <3>1, <2>1, <2>3, <1>6
  <2>4. CASE l > i
    <3>1. l - 1 \in 1 .. n - 1 /\ ~(l - 1 < i) /\ (l - 1) + 1 = l BY <2>4, <1>1, <1>2
    <3>2. r[l - 1] = s[l] BY <3>1, <1>6
    <3> QED BY <3>1, <3>2, <2>1
  <2> QED BY <2>2, <2>3, <2>4, <1>1, <1>2
<1>11. Lists(r, K \ {k})
  BY <1>7, <1>8, <1>9, <1>10, ListMade
<1>12. s # <<>>
  BY <1>1, <1>2 DEF n
<1>13. ASSUME Head(s) # k PROVE r # <<>> /\ Head(r) = Head(s)
  <2>1. Head(s) = s[1] BY <1>1, <1>12
  <2>2. i # 1 BY <2>1, <1>2, <1>13
  <2>3. 1 \in 1 .. n - 1 /\ 1 < i BY <2>2, <1>1, <1>2
  <2>4. r # <<>> /\ r[1] = s[1] BY <2>3, <1>6, <1>7
  <2>5. Head(r) = r[1] BY <2>4, <1>6
  <2> QED BY <2>1, <2>4, <2>5
<1> QED BY <1>11, <1>12, <1>13 DEF r, i

(* A new item comes first. *)
LEMMA Inserted ==
  ASSUME NEW s, NEW K, Lists(s, K), NEW k \in Key \ K
  PROVE  LET t == <<k>> \o s IN Lists(t, K \cup {k}) /\ t # <<>> /\ Head(t) = k
<1> DEFINE t == <<k>> \o s
           n == Len(s)
<1>1. /\ n \in Nat /\ s \in [1 .. n -> Key] /\ s \in Seq(Key)
      /\ \A j \in 1 .. n : s[j] \in K
      /\ \A x \in K : \E j \in 1 .. n : s[j] = x
      /\ \A j, l \in 1 .. n : s[j] = s[l] => j = l
  BY ListSize DEF Lists, IsInjective
<1>2. /\ t \in Seq(Key) /\ Len(t) = n + 1
      /\ \A j \in 1 .. n + 1 : t[j] = IF j = 1 THEN k ELSE s[j - 1]
  <2>1. <<k>> \in Seq(Key) /\ Len(<<k>>) = 1 /\ <<k>>[1] = k
    OBVIOUS
  <2>2. /\ t \in Seq(Key) /\ Len(t) = 1 + n
        /\ \A j \in 1 .. 1 + n : t[j] = IF j <= 1 THEN <<k>>[j] ELSE s[j - 1]
    BY <2>1, <1>1, ConcatProperties
  <2> QED BY <2>1, <2>2, <1>1
<1> HIDE DEF t, n
<1>3. n + 1 \in Nat /\ t \in [1 .. n + 1 -> Key]
  BY <1>1, <1>2
<1>4. \A j \in 1 .. n + 1 : t[j] \in K \cup {k}
  BY <1>1, <1>2
<1>5. \A j, l \in 1 .. n + 1 : t[j] = t[l] => j = l
  <2> SUFFICES ASSUME NEW j \in 1 .. n + 1, NEW l \in 1 .. n + 1, t[j] = t[l] PROVE j = l
    OBVIOUS
  <2>1. CASE j = 1 /\ l = 1 BY <2>1
  <2>2. CASE j = 1 /\ l # 1
    <3>1. l - 1 \in 1 .. n BY <2>2, <1>1
    <3> QED BY <3>1, <2>2, <1>1, <1>2
  <2>3. CASE j # 1 /\ l = 1
    <3>1. j - 1 \in 1 .. n BY <2>3, <1>1
    <3> QED BY <3>1, <2>3, <1>1, <1>2
  <2>4. CASE j # 1 /\ l # 1
    <3>1. j - 1 \in 1 .. n /\ l - 1 \in 1 .. n BY <2>4, <1>1
    <3>2. s[j - 1] = s[l - 1] BY <2>4, <1>2
    <3>3. j - 1 = l - 1 BY <3>1, <3>2, <1>1
    <3> QED BY <3>3, <1>1
  <2> QED BY <2>1, <2>2, <2>3, <2>4
<1>6. \A x \in K \cup {k} : \E j \in 1 .. n + 1 : t[j] = x
  <2> SUFFICES ASSUME NEW x \in K \cup {k} PROVE \E j \in 1 .. n + 1 : t[j] = x
    OBVIOUS
  <2>1. CASE x = k BY <2>1, <1>1, <1>2
  <2>2. CASE x \in K
    <3>1. PICK j \in 1 .. n : s[j] = x BY <2>2, <1>1
    <3>2. j + 1 \in 1 .. n + 1 /\ j + 1 # 1 /\ (j + 1) - 1 = j BY <1>1
    <3>3. t[j + 1] = s[j] BY <3>2, <1>2
    <3> QED BY <3>1, <3>2, <3>3
  <2> QED BY <2>1, <2>2
<1>7. Lists(t, K \cup {k})
  BY <1>3, <1>4, <1>5, <1>6, ListMade
<1>8. t # <<>> /\ Head(t) = k
  BY <1>1, <1>2
<1> QED BY <1>7, <1>8 DEF t

LEMMA Moved ==
  ASSUME NEW s, NEW K, Lists(s, K), NEW k \in K
  PROVE  LET t == MovedToFront(s, k) IN Lists(t, K) /\ t # <<>> /\ Head(t) = k
<1>1. K \subseteq Key BY ListSize
<1>2. Lists(RemoveAt(s, Place(s, k)), K \ {k}) BY Erased
<1>3. k \in Key \ (K \ {k}) /\ (K \ {k}) \cup {k} = K BY <1>1
<1> QED BY <1>2, <1>3, Inserted DEF MovedToFront

-----------------------------------------------------------------------------
(* The invariant                                                           *)

Ops    == {"none", "read", "write", "reject", "insert", "save", "flush", "exit", "switch", "resize", "clear"}
Object == [val : Content \ {Absent}, dirty : BOOLEAN]

Types ==
  /\ files \in [Dir -> [Key -> Content]]
  /\ table \in [Listed -> Object]
  /\ dir \in Dir /\ mode \in Mode /\ maxSize \in MaxSize
  /\ call \in [op : Ops, key : Key \cup {None}, keep : Nat, dir : Dir \cup {None}]
  /\ ref \in [key : Key \cup {None}, write : BOOLEAN]
  /\ up \in BOOLEAN /\ writes \in 0 .. MaxWrites /\ crashes \in 0 .. MaxCrashes

(* List and table hold the same keys. *)
Listing == Lists(order, Listed)

(* What a call under way has established when it began. *)
CallOK ==
  /\ call.op = "none" => call = NoCall
  /\ call.op \in Loading => call.key \in Key /\ files[dir][call.key] # Absent
  /\ call.op \in Loading \cup {"insert"} => call.key \in Key \ Listed /\ call.keep = maxSize - 1
  /\ call.op = "insert" => writes < MaxWrites
  /\ call.op = "save" => call.key \in Listed
  /\ call.op = "resize" => call.keep = maxSize
  /\ call.op = "clear" => Listed = {}
  /\ call.op = "switch" => call.dir \in Dir
  /\ ~up => call = NoCall /\ Listed = {}

(* The object being written is one that a call makes room of. *)
WritingOK ==
  writing # None =>
    writing \in Listed /\ files[dir][writing] = Torn /\ Victim(writing)

(* The object the client refers to comes first, and is dirty if it was     *)
(* asked for to be changed; only setMaxSize leaves the reference valid.    *)
RefOK ==
  ref.key # None =>
    /\ call.op \in {"none", "resize"}
    /\ order # <<>> /\ Head(order) = ref.key
    /\ ref.write => table[ref.key].dirty

IInv == Types /\ Listing /\ CallOK /\ WritingOK /\ RefOK /\ MemoryBounded

LEMMA SizeOfList ==
  ASSUME Listing
  PROVE  /\ Size = Len(order) /\ Size \in Nat /\ Listed \subseteq Key
         /\ order # <<>> => Head(order) \in Listed /\ Last(order) \in Listed
         /\ Size > 0 => order # <<>>
         /\ Size > 1 => Last(order) # Head(order)
         /\ Size = 0 <=> Listed = {}
<1> DEFINE n == Len(order)
<1>1. /\ n \in Nat /\ order \in [1 .. n -> Key] /\ order \in Seq(Key)
      /\ \A i \in 1 .. n : order[i] \in Listed
      /\ \A k \in Listed : \E i \in 1 .. n : order[i] = k
      /\ Listed \subseteq Key /\ Cardinality(Listed) = n
  BY ListSize DEF Listing, Lists
<1>2. \A i, j \in 1 .. n : order[i] = order[j] => i = j
  BY <1>1 DEF Listing, Lists, IsInjective
<1>3. Size = n
  BY <1>1 DEF Size
<1>4. ASSUME order # <<>> PROVE n > 0 /\ Head(order) = order[1] /\ Last(order) = order[n]
  BY <1>1, <1>4 DEF Last
<1>5. n > 0 => order # <<>>
  BY <1>1
<1>6. ASSUME n > 1 PROVE Last(order) # Head(order)
  BY <1>1, <1>2, <1>4, <1>5, <1>6
<1>7. n = 0 <=> Listed = {}
  BY <1>1
<1>8. order # <<>> => Head(order) \in Listed /\ Last(order) \in Listed
  BY <1>1, <1>4
<1> QED BY <1>1, <1>3, <1>5, <1>6, <1>7, <1>8

(* What becomes of list and table when an item is erased, brought to the   *)
(* front or inserted. *)
LEMMA EraseList ==
  ASSUME IInv, NEW k \in Listed, EraseItem(k)
  PROVE  /\ Listing' /\ Listed' = Listed \ {k}
         /\ table' \in [Listed' -> Object]
         /\ \A x \in Listed' : table'[x] = table[x]
         /\ Size' = Size - 1
         /\ order # <<>> /\ (Head(order) # k => order' # <<>> /\ Head(order') = Head(order))
<1>1. Listed' = Listed \ {k}
  BY DEF EraseItem, Listed
<1>2. /\ table' \in [Listed' -> Object]
      /\ \A x \in Listed' : table'[x] = table[x]
  BY <1>1 DEF EraseItem, IInv, Types, Listed
<1>3. Lists(order', Listed \ {k}) /\ order # <<>> /\ (Head(order) # k => order' # <<>> /\ Head(order') = Head(order))
  BY Erased DEF IInv, Listing, EraseItem
<1>4. Listing'
  BY <1>1, <1>3 DEF Listing
<1>5. IsFiniteSet(Listed)
  BY ListSize DEF IInv, Listing
<1>6. Cardinality(Listed \ {k}) = Cardinality(Listed) - 1
  BY <1>5, FS_RemoveElement
<1> QED BY <1>1, <1>2, <1>3, <1>4, <1>6 DEF Size

LEMMA TouchList ==
  ASSUME IInv, NEW k \in Listed, NEW w \in BOOLEAN, Touch(k, w)
  PROVE  /\ Listing' /\ Listed' = Listed
         /\ table' \in [Listed' -> Object]
         /\ \A x \in Listed : table'[x].val = table[x].val
         /\ \A x \in Listed : table'[x].dirty = (table[x].dirty \/ (x = k /\ w))
         /\ Size' = Size /\ order' # <<>> /\ Head(order') = k
<1>1. Listed' = Listed
  BY DEF Touch, Listed
<1>2. /\ table' \in [Listed' -> Object]
      /\ \A x \in Listed : table'[x].val = table[x].val
      /\ \A x \in Listed : table'[x].dirty = (table[x].dirty \/ (x = k /\ w))
  BY <1>1 DEF Touch, IInv, Types, Listed, Object
<1>3. Lists(order', Listed) /\ order' # <<>> /\ Head(order') = k
  BY Moved DEF IInv, Listing, Touch
<1> QED BY <1>1, <1>2, <1>3 DEF Listing, Size

LEMMA InsertList ==
  ASSUME IInv, NEW k \in Key \ Listed, NEW v \in Content \ {Absent}, NEW d \in BOOLEAN, InsertItem(k, v, d)
  PROVE  /\ Listing' /\ Listed' = Listed \cup {k}
         /\ table' \in [Listed' -> Object]
         /\ \A x \in Listed : table'[x] = table[x]
         /\ table'[k] = [val |-> v, dirty |-> d]
         /\ Size' = Size + 1 /\ order' # <<>> /\ Head(order') = k
<1>1. Listed' = Listed \cup {k}
  BY DEF InsertItem, Listed
<1>2. /\ table' \in [Listed' -> Object]
      /\ \A x \in Listed : table'[x] = table[x]
      /\ table'[k] = [val |-> v, dirty |-> d]
  BY <1>1 DEF InsertItem, IInv, Types, Listed, Object
<1>3. Lists(order', Listed \cup {k}) /\ order' # <<>> /\ Head(order') = k
  BY Inserted DEF IInv, Listing, InsertItem
<1>4. Listing'
  BY <1>1, <1>3 DEF Listing
<1>5. IsFiniteSet(Listed)
  BY ListSize DEF IInv, Listing
<1>6. Cardinality(Listed \cup {k}) = Cardinality(Listed) + 1
  BY <1>5, FS_AddElement
<1> QED BY <1>1, <1>2, <1>3, <1>4, <1>6 DEF Size

-----------------------------------------------------------------------------
(* Steps                                                                   *)

LEMMA InitInvariant == Init => IInv
<1> SUFFICES ASSUME Init PROVE IInv
  OBVIOUS
<1> USE DEF Init
<1>1. Listed = {} /\ table \in [Listed -> Object]
  BY DEF Listed
<1>2. Listing
  <2>1. \A n \in {0} : <<>> \in [1 .. n -> Key]
    OBVIOUS
  <2> QED BY <1>1 DEF Listing, Lists, IsInjective, ToSet
<1>3. Types
  <2>1. files \in [Dir -> [Key -> Content]]
    BY DEF Content
  <2>2. call \in [op : Ops, key : Key \cup {None}, keep : Nat, dir : Dir \cup {None}]
    BY DEF NoCall, Ops
  <2>3. ref \in [key : Key \cup {None}, write : BOOLEAN]
    BY DEF NoRef
  <2>4. writes \in 0 .. MaxWrites /\ crashes \in 0 .. MaxCrashes
    BY BoundsOK
  <2> QED BY <1>1, <2>1, <2>2, <2>3, <2>4 DEF Types
<1>4. Size = 0
  BY <1>1, FS_EmptySet DEF Size
<1>5. CallOK /\ WritingOK /\ RefOK /\ MemoryBounded
  BY <1>1, <1>4, SizesOK DEF CallOK, WritingOK, RefOK, MemoryBounded, NoCall, NoRef, Loading
<1> QED BY <1>2, <1>3, <1>5 DEF IInv

(* Erasing the object that was written, or that is clean. *)
LEMMA EraseStep ==
  ASSUME IInv, NEW k \in Listed, EraseItem(k), AfterItem,
         Victim(k),
         UNCHANGED <<settings, ref, up, bounds>>, writing' = None,
         files' \in [Dir -> [Key -> Content]],
         \A d \in Dir, x \in Key : files[d][x] # Absent => files'[d][x] # Absent
  PROVE  IInv'
<1> USE DEF IInv
<1>1. /\ Listing' /\ Listed' = Listed \ {k} /\ table' \in [Listed' -> Object]
      /\ \A x \in Listed' : table'[x] = table[x]
      /\ Size' = Size - 1
      /\ order # <<>> /\ (Head(order) # k => order' # <<>> /\ Head(order') = Head(order))
  BY EraseList
<1>2. call' = IF call.op = "save" THEN NoCall ELSE call
  BY DEF AfterItem
<1>3. Types'
  BY <1>1, <1>2 DEF Types, settings, bounds, NoCall, Ops
<1>4. CallOK'
  BY <1>1, <1>2 DEF CallOK, Types, settings, bounds, NoCall, Loading, Victim, Flushing
<1>5. WritingOK'
  BY DEF WritingOK
<1>6. /\ Size \in Nat /\ maxSize \in Nat \ {0} /\ (Size > 1 => Last(order) # Head(order))
      /\ maxSize' = maxSize
  BY SizeOfList, SizesOK DEF Types, settings
<1>7. MemoryBounded'
  BY <1>1, <1>2, <1>6 DEF MemoryBounded, NoCall
<1>8. RefOK'
  <2> SUFFICES ASSUME ref.key # None PROVE RefOK'
    BY DEF RefOK
  <2>1. call.op = "resize"
    BY DEF RefOK, Victim, Loading, Flushing
  <2>2. k = Last(order) /\ Size > 1
    BY <2>1, <1>6 DEF Victim, CallOK, Loading, Flushing
  <2>3. Head(order) = ref.key /\ Head(order) # k
    BY <2>2, <1>6 DEF RefOK
  <2>4. ref.key \in Listed'
    BY <2>3, <1>1, SizeOfList
  <2> QED BY <2>1, <2>3, <2>4, <1>1, <1>2 DEF RefOK
<1> QED BY <1>1, <1>3, <1>4, <1>5, <1>7, <1>8

LEMMA DropCleanStep ==
  ASSUME IInv, NEW k \in Key, DropClean(k)
  PROVE  IInv' /\ k \in Listed
<1>1. k \in Listed
  BY SizeOfList DEF IInv, DropClean, Victim, CallOK, Types, SizesOK
<1> QED BY <1>1, EraseStep DEF DropClean, IInv, Types

(* A file opens: it is torn until the object is written. *)
LEMMA OpenFileStep ==
  ASSUME IInv, NEW k \in Key, OpenFile(k)
  PROVE  IInv' /\ k \in Listed
<1> USE DEF IInv, OpenFile
<1>1. k \in Listed
  BY SizeOfList DEF Victim, CallOK, Types
<1>2. /\ files' \in [Dir -> [Key -> Content]] /\ files'[dir][k] = Torn
      /\ \A x \in Key : files[dir][x] # Absent => files'[dir][x] # Absent
  BY DEF Types, Content, Absent, Torn
<1>3. Listed' = Listed /\ Size' = Size
  BY DEF Listed, Size
<1>4. Types' BY <1>2, <1>3 DEF Types, settings, bounds
<1>5. Listing' BY <1>3 DEF Listing
<1>6. CallOK' BY <1>2, <1>3 DEF CallOK, settings, bounds, Loading
<1>7. WritingOK'
  BY <1>1, <1>2, <1>3 DEF WritingOK, Victim, settings, Flushing, Loading
<1>8. RefOK' BY DEF RefOK
<1>9. MemoryBounded' BY <1>3 DEF MemoryBounded, settings
<1> QED BY <1>1, <1>4, <1>5, <1>6, <1>7, <1>8, <1>9

(* A file that does not open, an object that cannot be written: the item   *)
(* stays.                                                                  *)
LEMMA OpenFailsStep ==
  ASSUME IInv, NEW k \in Key, OpenFails(k)
  PROVE  IInv'
<1> USE DEF IInv, OpenFails
<1>1. Listed' = Listed /\ Size' = Size
  BY DEF Listed, Size
<1>2. call' = IF call.op = "save" THEN NoCall ELSE call
  BY DEF AfterItem
<1>3. Types' BY <1>1, <1>2 DEF Types, settings, bounds, NoCall, Ops
<1>4. Listing' BY <1>1 DEF Listing
<1>5. CallOK' BY <1>1, <1>2 DEF CallOK, settings, bounds, Loading, NoCall
<1>6. WritingOK' BY DEF WritingOK
<1>7. RefOK' BY <1>2 DEF RefOK
<1>8. MemoryBounded' BY <1>1, <1>2 DEF MemoryBounded, settings, NoCall
<1> QED BY <1>3, <1>4, <1>5, <1>6, <1>7, <1>8

LEMMA WriteItemStep ==
  ASSUME IInv, WriteItem
  PROVE  IInv' /\ writing \in Listed
<1> USE DEF WriteItem
<1>1. writing \in Listed /\ writing \in Key
  BY SizeOfList DEF IInv, WritingOK
<1>2. /\ files' \in [Dir -> [Key -> Content]]
      /\ \A d \in Dir, x \in Key : files[d][x] # Absent => files'[d][x] # Absent
  <2>1. table[writing].val \in Content \ {Absent}
    BY <1>1 DEF IInv, Types, Object
  <2> QED BY <1>1, <2>1 DEF IInv, Types
<1> QED BY <1>1, <1>2, EraseStep DEF IInv, WritingOK

LEMMA WriteFailsStep ==
  ASSUME IInv, WriteFails
  PROVE  IInv'
<1> USE DEF IInv, WriteFails
<1>1. writing \in Listed /\ Victim(writing) /\ writing \in Key
  BY SizeOfList DEF WritingOK
<1>2. /\ Listed' = Listed /\ Size' = Size /\ table' \in [Listed' -> Object]
      /\ \A x \in Listed \ {writing} : table'[x] = table[x]
  <2>1. Listed' = Listed BY DEF Listed
  <2> QED BY <1>1, <2>1 DEF Listed, Size, Types, Object
<1>3. call' = IF call.op = "save" THEN NoCall ELSE call
  BY DEF AfterItem
<1>4. Types' BY <1>2, <1>3 DEF Types, settings, bounds, NoCall, Ops
<1>5. Listing' BY <1>2 DEF Listing
<1>6. CallOK' BY <1>2, <1>3 DEF CallOK, settings, bounds, Loading, NoCall
<1>7. WritingOK' BY DEF WritingOK
<1>8. RefOK'
  <2> SUFFICES ASSUME ref.key # None PROVE RefOK'
    BY DEF RefOK
  <2>1. call.op = "resize"
    BY <1>1 DEF RefOK, Victim, Loading, Flushing
  <2>2. writing = Last(order) /\ Size > 1
    BY <1>1, <2>1, SizesOK, SizeOfList DEF Victim, CallOK, Types, Loading, Flushing
  <2>3. ref.key \in Listed \ {writing}
    BY <2>2, SizeOfList DEF RefOK
  <2> QED BY <1>2, <1>3, <2>1, <2>3 DEF RefOK
<1>9. MemoryBounded' BY <1>2, <1>3 DEF MemoryBounded, settings, NoCall
<1> QED BY <1>4, <1>5, <1>6, <1>7, <1>8, <1>9

(* Between calls nothing is being written. *)
LEMMA IdleState ==
  ASSUME IInv, Idle
  PROVE  call = NoCall /\ call.op = "none" /\ writing = None
<1>1. call = NoCall BY DEF Idle
<1>2. call.op = "none" BY <1>1 DEF NoCall
<1>3. \A k \in Listed : ~Victim(k)
  BY <1>2 DEF Victim, Loading, Flushing
<1> QED BY <1>1, <1>2, <1>3 DEF IInv, WritingOK

(* A call that finds the key in memory. *)
LEMMA TouchStep ==
  ASSUME IInv, NEW k \in Listed, NEW w \in BOOLEAN, Idle, Touch(k, w),
         ref' \in {NoRef, [key |-> k, write |-> w]},
         UNCHANGED <<files, settings, writing, up, bounds, call>>
  PROVE  IInv'
<1> USE DEF IInv
<1>1. /\ Listing' /\ Listed' = Listed /\ table' \in [Listed' -> Object]
      /\ \A x \in Listed : table'[x].dirty = (table[x].dirty \/ (x = k /\ w))
      /\ Size' = Size /\ order' # <<>> /\ Head(order') = k
  BY TouchList
<1>2. k \in Key /\ call = NoCall /\ writing = None
  BY SizeOfList, IdleState
<1>3. Types'
  <2>1. NoRef \in [key : Key \cup {None}, write : BOOLEAN] /\ [key |-> k, write |-> w] \in [key : Key \cup {None}, write : BOOLEAN]
    BY <1>2 DEF NoRef
  <2>2. ref' \in [key : Key \cup {None}, write : BOOLEAN]
    BY <2>1
  <2> QED BY <1>1, <1>2, <2>2 DEF Types, settings, bounds
<1>4. CallOK' BY <1>1, <1>2 DEF CallOK, settings, bounds, NoCall, Loading, Idle
<1>5. WritingOK' BY <1>2 DEF WritingOK
<1>6. RefOK' BY <1>1, <1>2 DEF RefOK, NoRef, NoCall
<1>7. MemoryBounded' BY <1>1, <1>2 DEF MemoryBounded, settings
<1> QED BY <1>1, <1>3, <1>4, <1>5, <1>6, <1>7

(* A call that begins: list, table and files are as they were. *)
LEMMA BeginStep ==
  ASSUME IInv, Idle,
         call' \in [op : Ops, key : Key \cup {None}, keep : Nat, dir : Dir \cup {None}],
         UNCHANGED <<files, order, table, dir, mode, writing, up, bounds>>,
         maxSize' \in MaxSize,
         ref' = NoRef \/ (ref' = ref /\ call'.op = "resize"),
         CallOK', call'.op = "resize" \/ maxSize' = maxSize
  PROVE  IInv'
<1> USE DEF IInv
<1>1. Listed' = Listed /\ Size' = Size
  BY DEF Listed, Size
<1>2. call = NoCall /\ writing = None
  BY IdleState
<1>3. Types'
  <2>1. NoRef \in [key : Key \cup {None}, write : BOOLEAN]
    BY DEF NoRef
  <2>2. ref' \in [key : Key \cup {None}, write : BOOLEAN]
    BY <2>1 DEF Types
  <2> QED BY <1>1, <2>2 DEF Types, bounds
<1>4. Listing' BY <1>1 DEF Listing
<1>5. WritingOK' BY <1>2 DEF WritingOK
<1>6. RefOK' BY <1>2 DEF RefOK, NoRef, NoCall
<1>7. MemoryBounded' BY <1>1, <1>2 DEF MemoryBounded, NoCall
<1> QED BY <1>3, <1>4, <1>5, <1>6, <1>7

LEMMA FindStep ==
  ASSUME IInv, NEW k \in Key, NEW w \in BOOLEAN, Find(k, w)
  PROVE  IInv'
<1>1. CASE k \in Listed /\ Touch(k, w) /\ ref' = [key |-> k, write |-> w] /\ UNCHANGED call
  BY <1>1, TouchStep DEF Find
<1>2. CASE k \notin Listed /\ files[dir][k] # Absent /\ Begin(IF w THEN "write" ELSE "read", k, Room, None)
           /\ ref' = NoRef /\ UNCHANGED <<order, table>>
  <2>1. maxSize - 1 \in Nat
    BY SizesOK DEF IInv, Types
  <2>2. call' = [op |-> IF w THEN "write" ELSE "read", key |-> k, keep |-> maxSize - 1, dir |-> None]
    BY <1>2 DEF Begin, Room
  <2>3. call' \in [op : Ops, key : Key \cup {None}, keep : Nat, dir : Dir \cup {None}]
    BY <2>1, <2>2 DEF Ops
  <2>4. CallOK'
    BY <1>2, <2>2 DEF Find, CallOK, Idle, NoCall, Loading, settings, Listed
  <2>5. maxSize' \in MaxSize
    BY DEF Find, settings, IInv, Types
  <2> QED BY <1>2, <2>3, <2>4, <2>5, BeginStep DEF Find, settings
<1> QED BY <1>1, <1>2 DEF Find

LEMMA InsertStep ==
  ASSUME IInv, NEW k \in Key, Insert(k)
  PROVE  IInv'
<1>1. CASE k \in Listed /\ Touch(k, FALSE) /\ UNCHANGED call
  BY <1>1, TouchStep DEF Insert
<1>2. CASE k \notin Listed /\ Begin(IF files[dir][k] # Absent THEN "reject" ELSE "insert", k, Room, None)
           /\ UNCHANGED <<order, table>>
  <2>1. maxSize - 1 \in Nat
    BY SizesOK DEF IInv, Types
  <2>2. call' = [op |-> IF files[dir][k] # Absent THEN "reject" ELSE "insert", key |-> k, keep |-> maxSize - 1, dir |-> None]
    BY <1>2 DEF Begin, Room
  <2>3. call' \in [op : Ops, key : Key \cup {None}, keep : Nat, dir : Dir \cup {None}]
    BY <2>1, <2>2 DEF Ops
  <2>4. CallOK'
    BY <1>2, <2>2 DEF Insert, CallOK, Idle, NoCall, Loading, settings, bounds, Listed
  <2>5. maxSize' \in MaxSize
    BY DEF Insert, settings, IInv, Types
  <2> QED BY <1>2, <2>3, <2>4, <2>5, BeginStep DEF Insert, settings
<1> QED BY <1>1, <1>2 DEF Insert

(* A call that ends with the object in memory, in front of the others. *)
LEMMA EnterStep ==
  ASSUME IInv, writing = None, call.op \in Loading \cup {"insert"}, Size <= call.keep,
         NEW v \in Content \ {Absent}, NEW d \in BOOLEAN, InsertItem(call.key, v, d),
         ref' = NoRef \/ (\E w \in BOOLEAN : ref' = [key |-> call.key, write |-> w] /\ (w => d)),
         call' = NoCall, writes' \in 0 .. MaxWrites,
         UNCHANGED <<files, settings, writing, up, crashes>>
  PROVE  IInv'
<1> USE DEF IInv
<1>1. call.key \in Key \ Listed /\ call.keep = maxSize - 1
  BY DEF CallOK
<1>a. IInv
  OBVIOUS
<1> DEFINE k == call.key
<1>b. /\ Listing' /\ Listed' = Listed \cup {k} /\ table' \in [Listed' -> Object]
      /\ table'[k] = [val |-> v, dirty |-> d]
      /\ Size' = Size + 1 /\ order' # <<>> /\ Head(order') = k
  <2>1. k \in Key \ Listed /\ InsertItem(k, v, d)
    BY <1>1
  <2> HIDE DEF k, IInv
  <2> QED BY <1>a, <2>1, InsertList
<1>2. /\ Listing' /\ Listed' = Listed \cup {call.key} /\ table' \in [Listed' -> Object]
      /\ table'[call.key].dirty = d
      /\ Size' = Size + 1 /\ order' # <<>> /\ Head(order') = call.key
  BY <1>b
<1>3. /\ maxSize \in Nat /\ Size \in Nat /\ up
  BY <1>1, SizesOK, SizeOfList DEF Types, CallOK, NoCall, Loading
<1>4. Types'
  <2>1. ref' \in [key : Key \cup {None}, write : BOOLEAN]
    <3>1. CASE ref' = NoRef BY <3>1 DEF NoRef
    <3>2. CASE \E w \in BOOLEAN : ref' = [key |-> call.key, write |-> w] /\ (w => d)
      BY <1>1, <3>2
    <3> QED BY <3>1, <3>2
  <2>2. call' \in [op : Ops, key : Key \cup {None}, keep : Nat, dir : Dir \cup {None}]
    BY DEF NoCall, Ops
  <2> QED BY <1>2, <2>1, <2>2 DEF Types, settings
<1>5. CallOK' BY <1>3 DEF CallOK, NoCall, Loading
<1>6. WritingOK' BY DEF WritingOK
<1>7. RefOK' BY <1>1, <1>2 DEF RefOK, NoRef, NoCall
<1>8. MemoryBounded' BY <1>1, <1>2, <1>3 DEF MemoryBounded, settings
<1> QED BY <1>2, <1>4, <1>5, <1>6, <1>7, <1>8

LEMMA LoadStep ==
  ASSUME IInv, Load
  PROVE  IInv'
<1> DEFINE k == call.key
           v == files[dir][k]
           d == call.op = "write"
<1>1. k \in Key /\ v \in Content \ {Absent} /\ d \in BOOLEAN
  BY DEF IInv, CallOK, Types, Load
<1>2. InsertItem(call.key, v, d)
  BY DEF Load
<1>3. ref' = NoRef \/ (\E w \in BOOLEAN : ref' = [key |-> call.key, write |-> w] /\ (w => d))
  BY DEF Load
<1>4. writes' \in 0 .. MaxWrites
  BY DEF Load, bounds, IInv, Types
<1> HIDE DEF v, d, k
<1> QED BY <1>1, <1>2, <1>3, <1>4, EnterStep DEF Load, bounds

LEMMA InsertNewStep ==
  ASSUME IInv, InsertNew
  PROVE  IInv' /\ writes' \in Value
<1>1. writes' \in Value /\ writes' \in 0 .. MaxWrites
  BY BoundsOK DEF IInv, CallOK, Types, InsertNew, Value
<1>2. writes' \in Content \ {Absent}
  BY <1>1, BoundsOK DEF Content, Value, Absent
<1>3. ref' = [key |-> call.key, write |-> TRUE] /\ InsertItem(call.key, writes', TRUE)
  BY DEF InsertNew
<1>4. \E w \in BOOLEAN : ref' = [key |-> call.key, write |-> w] /\ (w => TRUE)
  BY <1>3
<1> QED BY <1>1, <1>2, <1>3, <1>4, EnterStep DEF InsertNew

(* The client changes the object it has a reference to. *)
LEMMA AssignStep ==
  ASSUME IInv, Idle, ref.key \in Listed, NEW v \in Content \ {Absent},
         table' = [table EXCEPT ![ref.key].val = v], writes' \in 0 .. MaxWrites,
         UNCHANGED <<files, order, settings, call, writing, ref, up, crashes>>
  PROVE  /\ IInv' /\ Listed' = Listed /\ table'[ref.key].val = v
         /\ \A x \in Listed : table'[x].dirty = table[x].dirty
         /\ \A x \in Listed \ {ref.key} : table'[x] = table[x]
<1> USE DEF IInv
<1>1. Listed' = Listed /\ Size' = Size
  BY DEF Listed, Size
<1>2. /\ table' \in [Listed' -> Object] /\ table'[ref.key].val = v
      /\ \A x \in Listed : table'[x].dirty = table[x].dirty
      /\ \A x \in Listed \ {ref.key} : table'[x] = table[x]
  BY <1>1 DEF Types, Listed, Object
<1>3. call = NoCall /\ writing = None
  BY IdleState
<1>4. Types' BY <1>1, <1>2 DEF Types, settings
<1>5. Listing' BY <1>1 DEF Listing
<1>6. CallOK' BY <1>1, <1>3 DEF CallOK, settings, NoCall, Loading
<1>7. WritingOK' BY <1>3 DEF WritingOK
<1>8. RefOK' BY <1>2 DEF RefOK
<1>9. MemoryBounded' BY <1>1 DEF MemoryBounded, settings
<1> QED BY <1>1, <1>2, <1>4, <1>5, <1>6, <1>7, <1>8, <1>9

LEMMA ModifyStep ==
  ASSUME IInv, Modify
  PROVE  IInv' /\ writes' \in Value
<1>1. writes' \in Value /\ writes' \in 0 .. MaxWrites
  BY BoundsOK DEF IInv, Types, Modify, Value
<1>2. writes' \in Content \ {Absent}
  BY <1>1, BoundsOK DEF Content, Value, Absent
<1> QED BY <1>1, <1>2, AssignStep DEF Modify

LEMMA ScribbleOnStep ==
  ASSUME IInv, ScribbleOn
  PROVE  IInv'
<1>1. Scribble \in Content \ {Absent}
  BY DEF Content, Scribble, Absent
<1>2. writes' \in 0 .. MaxWrites
  BY DEF ScribbleOn, bounds, IInv, Types
<1> QED BY <1>1, <1>2, AssignStep DEF ScribbleOn, bounds

LEMMA SaveStep ==
  ASSUME IInv, NEW k \in Key, Save(k)
  PROVE  IInv'
<1>1. call' = [op |-> "save", key |-> k, keep |-> 0, dir |-> None]
  BY DEF Save, Begin
<1>2. call' \in [op : Ops, key : Key \cup {None}, keep : Nat, dir : Dir \cup {None}]
  BY <1>1 DEF Ops
<1>3. CallOK'
  BY <1>1 DEF Save, IInv, CallOK, Idle, Loading, settings, Listed
<1>4. maxSize' \in MaxSize
  BY DEF Save, settings, IInv, Types
<1> QED BY <1>2, <1>3, <1>4, BeginStep DEF Save, settings

LEMMA FlushStep ==
  ASSUME IInv, NEW op \in Flushing, NEW d \in Dir \cup {None}, op = "switch" => d \in Dir, Flush(op, d)
  PROVE  IInv'
<1>1. call' = [op |-> op, key |-> None, keep |-> 0, dir |-> d]
  BY DEF Flush, Begin
<1>2. call' \in [op : Ops, key : Key \cup {None}, keep : Nat, dir : Dir \cup {None}]
  BY <1>1 DEF Ops, Flushing
<1>3. CallOK'
  BY <1>1 DEF Flush, IInv, CallOK, Idle, Loading, Flushing, settings, Listed
<1>4. maxSize' \in MaxSize
  BY DEF Flush, settings, IInv, Types
<1> QED BY <1>2, <1>3, <1>4, BeginStep DEF Flush, settings

LEMMA ResizeStep ==
  ASSUME IInv, NEW n \in MaxSize, Resize(n)
  PROVE  IInv'
<1>1. call' = [op |-> "resize", key |-> None, keep |-> n, dir |-> None] /\ maxSize' = n
  BY DEF Resize, Begin
<1>2. call' \in [op : Ops, key : Key \cup {None}, keep : Nat, dir : Dir \cup {None}]
  BY <1>1, SizesOK DEF Ops
<1>3. CallOK'
  BY <1>1 DEF Resize, IInv, CallOK, Idle, Loading, Listed
<1> QED BY <1>1, <1>2, <1>3, BeginStep DEF Resize

(* A call returns, or goes on to clear the directory it switched to. *)
LEMMA DoneStep ==
  ASSUME IInv, writing = None,
         call' = NoCall \/ (up' /\ call' = [op |-> "clear", key |-> None, keep |-> 0, dir |-> None]),
         Size <= maxSize, call' # NoCall => Listed = {}, ~up' => Listed = {},
         ref.key # None => call' = NoCall,
         dir' \in Dir, mode' \in Mode, maxSize' \in MaxSize, Size <= maxSize', up' \in BOOLEAN,
         UNCHANGED <<files, order, table, writing, ref, bounds>>
  PROVE  IInv'
<1> USE DEF IInv
<1>1. Listed' = Listed /\ Size' = Size
  BY DEF Listed, Size
<1>2. Types'
  <2>1. call' \in [op : Ops, key : Key \cup {None}, keep : Nat, dir : Dir \cup {None}]
    BY DEF Ops, NoCall
  <2> QED BY <1>1, <2>1 DEF Types, bounds
<1>3. Listing' BY <1>1 DEF Listing
<1>4. CallOK' BY <1>1 DEF CallOK, NoCall, Loading
<1>5. WritingOK' BY DEF WritingOK
<1>6. RefOK' BY DEF RefOK, NoCall
<1>7. MemoryBounded' BY <1>1 DEF MemoryBounded
<1> QED BY <1>2, <1>3, <1>4, <1>5, <1>6, <1>7

LEMMA ResizedStep ==
  ASSUME IInv, Resized
  PROVE  IInv'
<1>1. Size <= maxSize /\ up
  BY DEF Resized, IInv, CallOK, NoCall
<1>2. ~up' => Listed = {}
  BY <1>1 DEF Resized
<1> QED BY <1>1, <1>2, DoneStep DEF Resized, settings, IInv, Types

LEMMA FlushedStep ==
  ASSUME IInv, Flushed
  PROVE  IInv' /\ Listed = {}
<1>1. Listed = {} /\ Size = 0
  BY SizeOfList DEF IInv, Flushed
<1>2. maxSize \in Nat /\ up
  BY SizesOK DEF IInv, Types, CallOK, NoCall, Flushed, Flushing
<1>3. ref.key = None
  BY DEF IInv, RefOK, Flushed, Flushing
<1>4. dir' \in Dir
  BY DEF Flushed, IInv, Types, CallOK
<1>5. call' = NoCall \/ (up' /\ call' = [op |-> "clear", key |-> None, keep |-> 0, dir |-> None])
  BY DEF Flushed, Begin
<1> QED BY <1>1, <1>2, <1>3, <1>4, <1>5, DoneStep DEF Flushed, IInv, Types

LEMMA ClearedStep ==
  ASSUME IInv, Cleared
  PROVE  IInv'
<1>1. Listed = {} /\ Size = 0
  BY SizeOfList DEF IInv, Cleared, CallOK
<1>2. maxSize \in Nat
  BY SizesOK DEF IInv, Types
<1>3. writing = None
  BY <1>1 DEF IInv, WritingOK
<1> QED BY <1>1, <1>2, <1>3, DoneStep DEF Cleared, settings, IInv, Types

LEMMA CreateStep ==
  ASSUME IInv, Create
  PROVE  IInv' /\ Listed = {} /\ call = NoCall
<1>1. Listed = {} /\ Size = 0 /\ call = NoCall
  BY SizeOfList DEF IInv, Create, CallOK
<1>2. maxSize \in Nat /\ maxSize' \in Nat
  BY SizesOK DEF IInv, Types, Create
<1>3. writing = None
  BY <1>1 DEF IInv, WritingOK
<1>4. ref.key = None
  BY <1>1, SizeOfList DEF IInv, RefOK
<1>5. call' = NoCall \/ (up' /\ call' = [op |-> "clear", key |-> None, keep |-> 0, dir |-> None])
  BY DEF Create, Begin
<1> QED BY <1>1, <1>2, <1>3, <1>4, <1>5, DoneStep DEF Create, IInv, Types

(* The memory is emptied. *)
LEMMA EmptyStep ==
  ASSUME IInv, order' = <<>>, table' = <<>>, ref' = NoRef, writing' = None,
         call' = NoCall \/ (up' /\ call' = [op |-> "clear", key |-> None, keep |-> 0, dir |-> None]),
         up' \in BOOLEAN, crashes' \in 0 .. MaxCrashes,
         UNCHANGED <<files, settings, writes>>
  PROVE  IInv' /\ Listed' = {}
<1> USE DEF IInv
<1>1. Listed' = {} /\ table' \in [Listed' -> Object]
  BY DEF Listed
<1>2. Size' = 0
  BY <1>1, FS_EmptySet DEF Size
<1>3. Listing'
  BY <1>1 DEF Listing, Lists, IsInjective, ToSet
<1>4. Types'
  <2>1. call' \in [op : Ops, key : Key \cup {None}, keep : Nat, dir : Dir \cup {None}]
    BY DEF Ops, NoCall
  <2> QED BY <1>1, <2>1 DEF Types, settings, NoRef
<1>5. CallOK' BY <1>1 DEF CallOK, NoCall, Loading
<1>6. WritingOK' BY DEF WritingOK
<1>7. RefOK' BY DEF RefOK, NoRef
<1>8. MemoryBounded' BY <1>2, SizesOK DEF MemoryBounded, settings, Types
<1> QED BY <1>1, <1>3, <1>4, <1>5, <1>6, <1>7, <1>8

LEMMA ClearListStep ==
  ASSUME IInv, ClearList
  PROVE  IInv' /\ Listed' = {}
<1>1. writing' = None /\ up' \in BOOLEAN /\ up'
  BY IdleState DEF ClearList, Idle
<1>2. call' = [op |-> "clear", key |-> None, keep |-> 0, dir |-> None]
  BY DEF ClearList, Begin
<1>3. crashes' \in 0 .. MaxCrashes
  BY DEF ClearList, bounds, IInv, Types
<1> QED BY <1>1, <1>2, <1>3, EmptyStep DEF ClearList, bounds

LEMMA CrashStep ==
  ASSUME IInv, Crash
  PROVE  IInv' /\ Listed' = {}
<1>1. crashes' \in 0 .. MaxCrashes
  BY BoundsOK DEF Crash, IInv, Types
<1> QED BY <1>1, EmptyStep DEF Crash

LEMMA UnlinkStep ==
  ASSUME IInv, NEW k \in Key, Unlink(k)
  PROVE  IInv'
<1> USE DEF IInv, Unlink
<1>1. Listed' = Listed /\ Size' = Size
  BY DEF Listed, Size
<1>2. files' \in [Dir -> [Key -> Content]]
  BY DEF Types, Content
<1>3. Listed = {} /\ writing = None
  BY DEF CallOK, WritingOK
<1>4. Types' BY <1>1, <1>2 DEF Types, settings, bounds
<1>5. Listing' BY <1>1 DEF Listing
<1>6. CallOK' BY <1>1, <1>3 DEF CallOK, settings, Loading
<1>7. WritingOK' BY <1>3 DEF WritingOK
<1>8. RefOK' BY DEF RefOK
<1>9. MemoryBounded' BY <1>1 DEF MemoryBounded, settings
<1> QED BY <1>4, <1>5, <1>6, <1>7, <1>8, <1>9

LEMMA StutterStep ==
  ASSUME IInv, UNCHANGED vars
  PROVE  IInv'
<1>1. Listed' = Listed /\ Size' = Size /\ (\A k : Victim(k)' = Victim(k))
  BY DEF vars, Listed, Size, Victim, settings, Loading, Flushing
<1> QED BY <1>1 DEF IInv, vars, settings, bounds, Types, Listing, CallOK, WritingOK, RefOK, MemoryBounded

LEMMA NextInvariant ==
  ASSUME IInv, [Next]_vars
  PROVE  IInv'
<1>1. CASE UNCHANGED vars BY <1>1, StutterStep
<1>2. CASE Create BY <1>2, CreateStep
<1>3. CASE Crash BY <1>3, CrashStep
<1>4. CASE WriteBackStep
  <2>1. CASE WriteItem BY <2>1, WriteItemStep
  <2>2. CASE WriteFails BY <2>2, WriteFailsStep
  <2>3. ASSUME NEW k \in Key, DropClean(k) PROVE IInv' BY <2>3, DropCleanStep
  <2>4. ASSUME NEW k \in Key, OpenFails(k) PROVE IInv' BY <2>4, OpenFailsStep
  <2>5. ASSUME NEW k \in Key, OpenFile(k) PROVE IInv' BY <2>5, OpenFileStep
  <2> QED BY <1>4, <2>1, <2>2, <2>3, <2>4, <2>5 DEF WriteBackStep
<1>5. CASE Return
  <2>1. CASE Load BY <2>1, LoadStep
  <2>2. CASE InsertNew BY <2>2, InsertNewStep
  <2>3. CASE Resized BY <2>3, ResizedStep
  <2>4. CASE Flushed BY <2>4, FlushedStep
  <2>5. CASE Cleared BY <2>5, ClearedStep
  <2>6. ASSUME NEW k \in Key, Unlink(k) PROVE IInv' BY <2>6, UnlinkStep
  <2> QED BY <1>5, <2>1, <2>2, <2>3, <2>4, <2>5, <2>6 DEF Return
<1>6. CASE Client
  <2>1. ASSUME NEW k \in Key, Insert(k) PROVE IInv' BY <2>1, InsertStep
  <2>2. ASSUME NEW k \in Key, Save(k) PROVE IInv' BY <2>2, SaveStep
  <2>3. ASSUME NEW k \in Key, NEW w \in BOOLEAN, Find(k, w) PROVE IInv' BY <2>3, FindStep
  <2>4. CASE Modify BY <2>4, ModifyStep
  <2>5. CASE ScribbleOn BY <2>5, ScribbleOnStep
  <2>6. CASE ClearList BY <2>6, ClearListStep
  <2>7. CASE Flush("flush", None) BY <2>7, FlushStep DEF Flushing
  <2>8. CASE Flush("exit", None) BY <2>8, FlushStep DEF Flushing
  <2>9. ASSUME NEW d \in Dir, Flush("switch", d) PROVE IInv' BY <2>9, FlushStep DEF Flushing
  <2>10. ASSUME NEW n \in MaxSize, Resize(n) PROVE IInv' BY <2>10, ResizeStep
  <2> QED BY <1>6, <2>1, <2>2, <2>3, <2>4, <2>5, <2>6, <2>7, <2>8, <2>9, <2>10 DEF Client
<1> QED BY <1>1, <1>2, <1>3, <1>4, <1>5, <1>6 DEF Next

LEMMA Invariant == Spec => []IInv
<1>1. IInv /\ [Next]_vars => IInv'
  BY NextInvariant
<1> QED BY InitInvariant, <1>1, PTL DEF Spec

LEMMA InvariantTypes == IInv => TypeOK
<1> SUFFICES ASSUME IInv PROVE TypeOK
  OBVIOUS
<1>1. order \in Seq(Key) /\ ToSet(order) = Listed /\ Len(order) = Cardinality(Listed) /\ Listed \subseteq Key
  BY SizeOfList DEF IInv, Listing, Lists, Size
<1>2. \A k \in Listed : table[k].val \in Content \ {Absent} /\ table[k].dirty \in BOOLEAN
  BY DEF IInv, Types, Object
<1>3. writing \in Listed \cup {None}
  BY DEF IInv, WritingOK
<1> QED BY <1>1, <1>2, <1>3 DEF TypeOK, IInv, Types

(* The types, and that list and table of the cache hold the same keys.     *)
THEOREM TypeCorrect == Spec => []TypeOK
BY Invariant, InvariantTypes, PTL

(* Also while files do not open or objects cannot be written, no more      *)
(* objects are in memory than maxSize_, but during a setMaxSize().         *)
THEOREM MemoryBound == Spec => []MemoryBounded
<1>1. IInv => MemoryBounded BY DEF IInv
<1> QED BY Invariant, <1>1, PTL

(* The object a client refers to is not removed before its next access.    *)
THEOREM ReferencesStay == Spec => []ReferenceValid
<1>1. IInv => ReferenceValid
  BY SizeOfList DEF IInv, RefOK, ReferenceValid
<1> QED BY Invariant, <1>1, PTL

-----------------------------------------------------------------------------
(* The cache implements WriteBackStore                                     *)

(* An object in memory that is not to be written differs from its file     *)
(* only if the file could not be written or the client changed what it had *)
(* found for reading.                                                      *)
CleanSaved ==
  \A k \in Listed :
    table[k].dirty \/ table[k].val \in {Scribble, files[dir][k]} \/ files[dir][k] = Torn

LEMMA CleanInit == Init => CleanSaved
BY DEF Init, CleanSaved, Listed

LEMMA CleanErase ==
  ASSUME IInv, CleanSaved, NEW k \in Listed, EraseItem(k), dir' = dir,
         \A x \in Listed \ {k} : files'[dir][x] = files[dir][x]
  PROVE  CleanSaved'
BY EraseList DEF CleanSaved

LEMMA CleanStep ==
  ASSUME IInv, CleanSaved, [Next]_vars
  PROVE  CleanSaved'
<1> DEFINE Same == UNCHANGED <<table, files, dir>>
<1>1. CASE Same
  <2>1. Listed' = Listed BY <1>1 DEF Listed
  <2> QED BY <1>1, <2>1 DEF CleanSaved
<1>2. CASE Listed' = {}
  BY <1>2 DEF CleanSaved
<1>3. ASSUME NEW k \in Listed, NEW w \in BOOLEAN, Touch(k, w), UNCHANGED <<files, dir>>
      PROVE  CleanSaved'
  BY <1>3, TouchList DEF CleanSaved
<1>4. CASE UNCHANGED vars BY <1>1, <1>4 DEF vars, settings
<1>5. CASE Create
  <2>1. Listed' = Listed /\ Listed = {} BY <1>5, CreateStep DEF Create, Listed
  <2> QED BY <1>2, <2>1
<1>6. CASE Crash BY <1>2, <1>6, CrashStep
<1>7. CASE WriteBackStep
  <2>1. CASE WriteItem
    <3>1. writing \in Listed /\ Listed \subseteq Key BY <2>1, WriteItemStep, SizeOfList DEF IInv
    <3>2. \A x \in Listed \ {writing} : files'[dir][x] = files[dir][x]
      BY <2>1, <3>1 DEF WriteItem, IInv, Types
    <3> QED BY <2>1, <3>1, <3>2, CleanErase DEF WriteItem, settings
  <2>2. CASE WriteFails
    <3>1. writing \in Listed /\ files[dir][writing] = Torn BY <2>2 DEF WriteFails, IInv, WritingOK
    <3>2. Listed' = Listed /\ (\A x \in Listed \ {writing} : table'[x] = table[x])
      BY <2>2 DEF WriteFails, Listed
    <3> QED BY <2>2, <3>1, <3>2 DEF WriteFails, settings, CleanSaved
  <2>3. ASSUME NEW k \in Key, DropClean(k) PROVE CleanSaved'
    BY <2>3, DropCleanStep, CleanErase DEF DropClean, settings
  <2>4. ASSUME NEW k \in Key, OpenFails(k) PROVE CleanSaved'
    BY <1>1, <2>4 DEF OpenFails, settings
  <2>5. ASSUME NEW k \in Key, OpenFile(k) PROVE CleanSaved'
    <3>1. Listed' = Listed /\ Listed \subseteq Key BY <2>5, SizeOfList DEF OpenFile, Listed, IInv
    <3>2. \A x \in Listed : files'[dir][x] = IF x = k THEN Torn ELSE files[dir][x]
      BY <2>5, <3>1 DEF OpenFile, IInv, Types
    <3> QED BY <2>5, <3>1, <3>2 DEF OpenFile, settings, CleanSaved
  <2> QED BY <1>7, <2>1, <2>2, <2>3, <2>4, <2>5 DEF WriteBackStep
<1>8. CASE Return
  <2>1. CASE Load
    <3> DEFINE k == call.key
               v == files[dir][k]
               d == call.op = "write"
    <3>1. k \in Key \ Listed /\ v \in Content \ {Absent} /\ d \in BOOLEAN
      BY <2>1 DEF Load, IInv, CallOK, Types
    <3>2. InsertItem(k, v, d) /\ UNCHANGED <<files, dir>>
      BY <2>1 DEF Load, settings
    <3>3. /\ Listed' = Listed \cup {k} /\ table'[k] = [val |-> v, dirty |-> d]
          /\ \A x \in Listed : table'[x] = table[x]
      <4> HIDE DEF k, v, d
      <4> QED BY <3>1, <3>2, InsertList
    <3> QED BY <3>2, <3>3 DEF CleanSaved
  <2>2. CASE InsertNew
    <3> DEFINE k == call.key
    <3>1. k \in Key \ Listed /\ writes' \in Content \ {Absent}
      <4>1. k \in Key \ Listed BY <2>2 DEF InsertNew, IInv, CallOK
      <4>2. writes' \in Value BY <2>2, InsertNewStep
      <4> QED BY <4>1, <4>2, BoundsOK DEF Content, Value, Absent
    <3>2. InsertItem(k, writes', TRUE) /\ UNCHANGED <<files, dir>>
      BY <2>2 DEF InsertNew, settings
    <3>3. /\ Listed' = Listed \cup {k} /\ table'[k] = [val |-> writes', dirty |-> TRUE]
          /\ \A x \in Listed : table'[x] = table[x]
      <4> HIDE DEF k
      <4> QED BY <3>1, <3>2, InsertList
    <3> QED BY <3>2, <3>3 DEF CleanSaved
  <2>3. CASE Resized BY <1>1, <2>3 DEF Resized, settings
  <2>4. CASE Flushed
    <3>1. Listed' = Listed /\ Listed = {} BY <2>4, FlushedStep DEF Flushed, Listed
    <3> QED BY <1>2, <3>1
  <2>5. CASE Cleared BY <1>1, <2>5 DEF Cleared, settings
  <2>6. ASSUME NEW k \in Key, Unlink(k) PROVE CleanSaved'
    <3>1. Listed' = Listed /\ Listed = {} BY <2>6 DEF Unlink, Listed, IInv, CallOK
    <3> QED BY <1>2, <3>1
  <2> QED BY <1>8, <2>1, <2>2, <2>3, <2>4, <2>5, <2>6 DEF Return
<1>9. CASE Client
  <2>1. ASSUME NEW k \in Key, Insert(k) PROVE CleanSaved'
    BY <1>1, <1>3, <2>1 DEF Insert, settings
  <2>2. ASSUME NEW k \in Key, Save(k) PROVE CleanSaved' BY <1>1, <2>2 DEF Save, settings
  <2>3. ASSUME NEW k \in Key, NEW w \in BOOLEAN, Find(k, w) PROVE CleanSaved'
    BY <1>1, <1>3, <2>3 DEF Find, settings
  <2>4. CASE Modify
    <3>1. writes' \in Content \ {Absent} /\ writes' \in 0 .. MaxWrites
      BY <2>4, ModifyStep, BoundsOK DEF Content, Value, Absent
    <3>2. /\ Listed' = Listed
          /\ \A x \in Listed : table'[x].dirty = table[x].dirty
          /\ \A x \in Listed \ {ref.key} : table'[x] = table[x]
      BY <2>4, <3>1, AssignStep DEF Modify
    <3>3. table[ref.key].dirty
      BY <2>4, SizeOfList, NoneOK DEF Modify, IInv, RefOK
    <3> QED BY <2>4, <3>2, <3>3 DEF Modify, settings, CleanSaved
  <2>5. CASE ScribbleOn
    <3>1. Scribble \in Content \ {Absent} /\ writes' \in 0 .. MaxWrites
      BY <2>5 DEF ScribbleOn, bounds, Content, Scribble, Absent, IInv, Types
    <3>2. /\ Listed' = Listed /\ table'[ref.key].val = Scribble
          /\ \A x \in Listed \ {ref.key} : table'[x] = table[x]
      BY <2>5, <3>1, AssignStep DEF ScribbleOn, bounds
    <3> QED BY <2>5, <3>2 DEF ScribbleOn, settings, CleanSaved
  <2>6. CASE ClearList BY <1>2, <2>6, ClearListStep
  <2>7. ASSUME NEW op, NEW d, Flush(op, d) PROVE CleanSaved' BY <1>1, <2>7 DEF Flush, settings
  <2>8. ASSUME NEW n \in MaxSize, Resize(n) PROVE CleanSaved' BY <1>1, <2>8 DEF Resize
  <2> QED BY <1>9, <2>1, <2>2, <2>3, <2>4, <2>5, <2>6, <2>7, <2>8 DEF Client
<1> QED BY <1>4, <1>5, <1>6, <1>7, <1>8, <1>9 DEF Next

(* A step of the store, from what becomes of each object. *)
LEMMA SameStep ==
  ASSUME \A d \in Dir, k \in Key : Found(d, k)' = Found(d, k),
         UNCHANGED <<files, writes, crashes>>
  PROVE  UNCHANGED <<Current, files, writes, crashes>>
BY DEF Current

LEMMA OneChanged ==
  ASSUME NEW d \in Dir, NEW k \in Key, NEW v, Found(d, k)' = v,
         \A e \in Dir, x \in Key : e # d \/ x # k => Found(e, x)' = Found(e, x)
  PROVE  Current' = [Current EXCEPT ![d][k] = v]
BY DEF Current

LEMMA DirCleared ==
  ASSUME NEW d \in Dir, \A x \in Key : Found(d, x)' = Absent,
         \A e \in Dir \ {d}, x \in Key : Found(e, x)' = Found(e, x),
         UNCHANGED <<files, writes, crashes>>
  PROVE  Store!Next
<1>1. Current' = [Current EXCEPT ![d] = [x \in Key |-> Absent]]
  BY DEF Current
<1> QED BY <1>1 DEF Store!Next, Store!Clear

(* A list and a table in which every object has the value it had. *)
LEMMA SameValues ==
  ASSUME Listed' = Listed, \A x \in Listed : table'[x].val = table[x].val,
         dir' = dir, call.op # "clear", call'.op # "clear", UNCHANGED <<files, writes, crashes>>
  PROVE  UNCHANGED <<Current, files, writes, crashes>>
<1>1. \A d \in Dir, k \in Key : Found(d, k)' = Found(d, k)
  BY DEF Found
<1> QED BY <1>1, SameStep

LEMMA StoreInit == Init => Store!Init
<1> SUFFICES ASSUME Init PROVE Store!Init
  OBVIOUS
<1>1. Current = [d \in Dir |-> [k \in Key |-> Absent]]
  BY DEF Init, Current, Found, Listed, NoCall
<1> QED BY <1>1 DEF Init, Store!Init

LEMMA StoreWriteBack ==
  ASSUME IInv, CleanSaved, WriteBackStep
  PROVE  [Store!Next]_<<Current, files, writes, crashes>>
<1>1. dir \in Dir /\ Listed \subseteq Key
  BY SizeOfList DEF IInv, Types
<1>2. CASE WriteItem
  <2>1. writing \in Listed /\ writing \in Key /\ call.op # "clear"
    BY <1>2, <1>1 DEF WriteItem, IInv, WritingOK, Victim, Loading, Flushing
  <2>2. Listed' = Listed \ {writing} /\ (\A x \in Listed' : table'[x] = table[x])
    BY <1>2, <2>1, EraseList DEF WriteItem
  <2>3. /\ files' = [files EXCEPT ![dir][writing] = table[writing].val]
        /\ UNCHANGED <<dir, writes, crashes>> /\ call'.op # "clear"
    BY <1>2, <2>1 DEF WriteItem, settings, bounds, AfterItem, NoCall
  <2>4. \A d \in Dir, k \in Key : files'[d][k] = IF d = dir /\ k = writing THEN table[writing].val ELSE files[d][k]
    BY <2>1, <2>3, <1>1 DEF IInv, Types
  <2>5. \A d \in Dir, k \in Key : Found(d, k)' = Found(d, k)
    BY <2>1, <2>2, <2>3, <2>4 DEF Found
  <2>6. Current' = Current
    BY <2>5 DEF Current
  <2>7. Current[dir][writing] = table[writing].val
    BY <2>1, <1>1 DEF Current, Found
  <2> QED BY <1>1, <2>1, <2>3, <2>6, <2>7 DEF Store!Next, Store!EndSave
<1>3. CASE WriteFails
  <2>1. writing \in Listed /\ call.op # "clear"
    BY <1>3 DEF WriteFails, IInv, WritingOK, Victim, Loading, Flushing
  <2>2. Listed' = Listed
    BY <1>3 DEF WriteFails, Listed
  <2>3. \A x \in Listed : table'[x].val = table[x].val
    BY <1>3, <2>1 DEF WriteFails, IInv, Types, Object
  <2>4. call'.op # "clear"
    BY <1>3, <2>1 DEF WriteFails, AfterItem, NoCall
  <2> QED BY <1>3, <2>1, <2>2, <2>3, <2>4, SameValues DEF WriteFails, settings, bounds
<1>4. ASSUME NEW k \in Key, DropClean(k)
      PROVE  [Store!Next]_<<Current, files, writes, crashes>>
  <2>1. k \in Listed /\ call.op # "clear" /\ call'.op # "clear"
    BY <1>4, DropCleanStep DEF DropClean, Victim, Loading, Flushing, AfterItem, NoCall
  <2>2. Listed' = Listed \ {k} /\ (\A x \in Listed' : table'[x] = table[x])
    BY <1>4, <2>1, EraseList DEF DropClean
  <2>3. UNCHANGED <<files, dir, writes, crashes>> /\ ~table[k].dirty
    BY <1>4 DEF DropClean, settings, bounds
  <2>4. PICK d \in Dir : d = dir
    BY <1>1
  <2>a. Found(d, k)' = files[d][k] /\ Found(d, k) = table[k].val
    BY <2>1, <2>2, <2>3, <2>4 DEF Found
  <2>5. \A e \in Dir, x \in Key : e # d \/ x # k => Found(e, x)' = Found(e, x)
    BY <2>1, <2>2, <2>3, <2>4 DEF Found
  <2>6. Current' = [Current EXCEPT ![d][k] = files[d][k]]
    BY <2>a, <2>5, OneChanged
  <2>b. Current[d][k] = table[k].val
    BY <2>a DEF Current
  <2>7. CASE table[k].val = files[dir][k]
    <3>1. \A e \in Dir, x \in Key : Found(e, x)' = Found(e, x)
      BY <2>4, <2>a, <2>5, <2>7
    <3> QED BY <2>3, <3>1, SameStep
  <2>8. CASE table[k].val = Scribble \/ files[dir][k] = Torn
    BY <2>3, <2>4, <2>6, <2>b, <2>8 DEF Store!Next, Store!Lose
  <2> QED BY <2>1, <2>3, <2>7, <2>8 DEF CleanSaved
<1>5. ASSUME NEW k \in Key, OpenFails(k)
      PROVE  UNCHANGED <<Current, files, writes, crashes>>
  <2>1. call.op # "clear" /\ call'.op # "clear" /\ Listed' = Listed
    BY <1>5 DEF OpenFails, Victim, Loading, Flushing, AfterItem, NoCall, Listed
  <2> QED BY <1>5, <2>1, SameValues DEF OpenFails, settings, bounds
<1>6. ASSUME NEW k \in Key, OpenFile(k)
      PROVE  Store!Next
  <2>1. k \in Listed /\ call.op # "clear" /\ call' = call
    BY <1>6, OpenFileStep DEF OpenFile, Victim, Loading, Flushing
  <2>2. /\ files' = [files EXCEPT ![dir][k] = Torn]
        /\ UNCHANGED <<dir, table, writes, crashes>> /\ Listed' = Listed
    BY <1>6 DEF OpenFile, settings, bounds, Listed
  <2>3. \A d \in Dir, x \in Key : d # dir \/ x # k => files'[d][x] = files[d][x]
    BY <2>2, <1>1 DEF IInv, Types
  <2>4. \A d \in Dir, x \in Key : Found(d, x)' = Found(d, x)
    BY <2>1, <2>2, <2>3 DEF Found
  <2>5. Current' = Current
    BY <2>4 DEF Current
  <2> QED BY <1>1, <2>2, <2>5 DEF Store!Next, Store!BeginSave
<1> QED BY <1>2, <1>3, <1>4, <1>5, <1>6 DEF WriteBackStep

LEMMA StoreReturn ==
  ASSUME IInv, Return
  PROVE  [Store!Next]_<<Current, files, writes, crashes>>
<1>1. dir \in Dir /\ Listed \subseteq Key
  BY SizeOfList DEF IInv, Types
<1>2. CASE Load
  <2> DEFINE k == call.key
             v == files[dir][k]
             w == call.op = "write"
  <2>1. k \in Key \ Listed /\ v \in Content \ {Absent} /\ w \in BOOLEAN /\ InsertItem(k, v, w)
    BY <1>2 DEF Load, IInv, CallOK, Types
  <2>2. /\ Listed' = Listed \cup {k} /\ table'[k] = [val |-> v, dirty |-> w]
        /\ \A x \in Listed : table'[x] = table[x]
    <3> HIDE DEF k, v, w
    <3> QED BY <2>1, InsertList
  <2>3. UNCHANGED <<files, dir, writes, crashes>> /\ call.op # "clear" /\ call'.op # "clear"
    BY <1>2 DEF Load, settings, bounds, Loading, NoCall
  <2>4. \A d \in Dir, x \in Key : Found(d, x)' = Found(d, x)
    BY <2>1, <2>2, <2>3 DEF Found
  <2> QED BY <2>3, <2>4, SameStep
<1>3. CASE InsertNew
  <2> DEFINE k == call.key
  <2>1. k \in Key \ Listed /\ InsertItem(k, writes', TRUE)
    BY <1>3 DEF InsertNew, IInv, CallOK
  <2>2. writes' \in Content \ {Absent}
    <3>1. writes' \in Value BY <1>3, InsertNewStep
    <3> QED BY <3>1, BoundsOK DEF Content, Value, Absent
  <2>3. /\ Listed' = Listed \cup {k} /\ table'[k] = [val |-> writes', dirty |-> TRUE]
        /\ \A x \in Listed : table'[x] = table[x]
    <3> HIDE DEF k
    <3> QED BY <2>1, <2>2, InsertList
  <2>4. UNCHANGED <<files, dir, crashes>> /\ call.op # "clear" /\ call'.op # "clear"
    BY <1>3 DEF InsertNew, settings, NoCall
  <2>5. PICK d \in Dir, x \in Key : d = dir /\ x = k
    BY <1>1, <2>1
  <2>6. Found(d, x)' = writes'
    BY <2>3, <2>4, <2>5 DEF Found
  <2>7. \A e \in Dir, y \in Key : e # d \/ y # x => Found(e, y)' = Found(e, y)
    BY <2>3, <2>4, <2>5 DEF Found
  <2>8. Current' = [Current EXCEPT ![d][x] = writes']
    <3> DEFINE v == writes'
    <3>1. Found(d, x)' = v BY <2>6
    <3> HIDE DEF v
    <3>2. Current' = [Current EXCEPT ![d][x] = v] BY <3>1, <2>7, OneChanged
    <3> QED BY <3>2 DEF v
  <2> QED BY <1>3, <2>4, <2>8 DEF InsertNew, Store!Next, Store!Change
<1>4. CASE Resized
  <2>1. call.op # "clear" /\ call'.op # "clear" /\ Listed' = Listed
    BY <1>4 DEF Resized, NoCall, Listed
  <2> QED BY <1>4, <2>1, SameValues DEF Resized, settings, bounds
<1>5. CASE Flushed
  <2>1. Listed = {} /\ Listed' = {} /\ call.op # "clear"
    BY <1>5, FlushedStep DEF Flushed, Listed, Flushing
  <2>2. UNCHANGED <<files, writes, crashes>> /\ dir' \in Dir
    BY <1>5, <1>1 DEF Flushed, bounds, IInv, CallOK
  <2>3. CASE call' = NoCall
    <3>1. \A d \in Dir, x \in Key : Found(d, x)' = Found(d, x)
      BY <2>1, <2>2, <2>3 DEF Found, NoCall
    <3> QED BY <2>2, <3>1, SameStep
  <2>4. CASE call'.op = "clear"
    <3>1. PICK d \in Dir : d = dir'
      BY <2>2
    <3>2. \A x \in Key : Found(d, x)' = Absent
      BY <2>4, <3>1 DEF Found
    <3>3. \A e \in Dir \ {d}, x \in Key : Found(e, x)' = Found(e, x)
      BY <2>1, <2>2, <3>1 DEF Found
    <3> QED BY <2>2, <3>2, <3>3, DirCleared
  <2> QED BY <1>5, <2>3, <2>4 DEF Flushed, Begin
<1>6. CASE Cleared
  <2>1. Listed = {} /\ Listed' = {} /\ call'.op # "clear"
    BY <1>6 DEF Cleared, Listed, IInv, CallOK, NoCall
  <2>2. UNCHANGED <<files, dir, writes, crashes>> /\ call.op = "clear" /\ \A k \in Key : files[dir][k] = Absent
    BY <1>6 DEF Cleared, settings, bounds
  <2>3. \A d \in Dir, x \in Key : Found(d, x)' = Found(d, x)
    BY <2>1, <2>2 DEF Found
  <2> QED BY <2>2, <2>3, SameStep
<1>7. ASSUME NEW k \in Key, Unlink(k)
      PROVE  Store!Next
  <2>1. /\ files' = [files EXCEPT ![dir][k] = Absent]
        /\ UNCHANGED <<dir, call, writes, crashes>> /\ call.op = "clear"
    BY <1>7 DEF Unlink, settings, bounds
  <2>2. Listed = {} /\ Listed' = {}
    BY <1>7 DEF Unlink, Listed, IInv, CallOK
  <2>3. \A d \in Dir \ {dir}, x \in Key : files'[d][x] = files[d][x]
    BY <2>1, <1>1 DEF IInv, Types
  <2>4. \A d \in Dir, x \in Key : Found(d, x)' = Found(d, x)
    BY <2>1, <2>2, <2>3 DEF Found
  <2>5. Current' = Current
    BY <2>4 DEF Current
  <2>6. Current[dir][k] = Absent
    BY <1>1, <2>1 DEF Current, Found
  <2> QED BY <1>1, <2>1, <2>5, <2>6 DEF Store!Next, Store!EndSave
<1> QED BY <1>2, <1>3, <1>4, <1>5, <1>6, <1>7 DEF Return

(* A call that only begins, or finds what is in memory. *)
LEMMA StoreClient ==
  ASSUME IInv, Client
  PROVE  [Store!Next]_<<Current, files, writes, crashes>>
<1>1. dir \in Dir /\ Listed \subseteq Key
  BY SizeOfList DEF IInv, Types
<1>2. Idle /\ call.op # "clear"
  BY IdleState DEF Client, Insert, Save, Find, Modify, ScribbleOn, ClearList, Flush, Resize
<1>3. ASSUME UNCHANGED <<table, files, dir, writes, crashes>>, call'.op # "clear"
      PROVE  UNCHANGED <<Current, files, writes, crashes>>
  <2>1. Listed' = Listed BY <1>3 DEF Listed
  <2> QED BY <1>2, <1>3, <2>1, SameValues
<1>4. ASSUME NEW k \in Listed, NEW w \in BOOLEAN, Touch(k, w), UNCHANGED <<files, dir, writes, crashes, call>>
      PROVE  UNCHANGED <<Current, files, writes, crashes>>
  <2>1. Listed' = Listed /\ \A x \in Listed : table'[x].val = table[x].val
    BY <1>4, TouchList
  <2> QED BY <1>2, <1>4, <2>1, SameValues
<1>5. ASSUME NEW k \in Key, Insert(k) PROVE UNCHANGED <<Current, files, writes, crashes>>
  <2>1. UNCHANGED <<files, dir, writes, crashes>>
    BY <1>5 DEF Insert, settings, bounds
  <2>2. CASE k \in Listed /\ Touch(k, FALSE) /\ UNCHANGED call
    BY <1>4, <2>1, <2>2
  <2>3. CASE UNCHANGED <<order, table>> /\ call'.op \in {"reject", "insert"}
    BY <1>3, <2>1, <2>3
  <2>4. Begin(IF files[dir][k] # Absent THEN "reject" ELSE "insert", k, Room, None)
        => call'.op \in {"reject", "insert"}
    BY DEF Begin
  <2> QED BY <1>5, <2>2, <2>3, <2>4 DEF Insert
<1>6. ASSUME NEW k \in Key, Save(k) PROVE UNCHANGED <<Current, files, writes, crashes>>
  BY <1>3, <1>6 DEF Save, settings, bounds, Begin
<1>7. ASSUME NEW k \in Key, NEW w \in BOOLEAN, Find(k, w) PROVE UNCHANGED <<Current, files, writes, crashes>>
  BY <1>3, <1>4, <1>7 DEF Find, settings, bounds, Begin
<1>8. ASSUME NEW op \in Flushing, NEW d, Flush(op, d) PROVE UNCHANGED <<Current, files, writes, crashes>>
  BY <1>3, <1>8 DEF Flush, settings, bounds, Begin, Flushing
<1>9. ASSUME NEW n \in MaxSize, Resize(n) PROVE UNCHANGED <<Current, files, writes, crashes>>
  BY <1>3, <1>9 DEF Resize, bounds, Begin
<1>10. ASSUME NEW v \in Content \ {Absent}, ref.key \in Listed, writes' \in 0 .. MaxWrites,
              table' = [table EXCEPT ![ref.key].val = v],
              UNCHANGED <<files, order, settings, call, writing, ref, up, crashes>>
       PROVE  Current' = [Current EXCEPT ![dir][ref.key] = v]
  <2>1. /\ Listed' = Listed /\ table'[ref.key].val = v
        /\ \A x \in Listed \ {ref.key} : table'[x] = table[x]
    BY <1>2, <1>10, AssignStep
  <2>2. PICK d \in Dir, k \in Key : d = dir /\ k = ref.key
    BY <1>1, <1>10
  <2>3. Found(d, k)' = v
    BY <1>2, <1>10, <2>1, <2>2 DEF Found, settings
  <2>4. \A e \in Dir, x \in Key : e # d \/ x # k => Found(e, x)' = Found(e, x)
    BY <1>2, <1>10, <2>1, <2>2 DEF Found, settings
  <2> QED BY <2>2, <2>3, <2>4, OneChanged
<1>11. CASE Modify
  <2>1. writes' \in Value BY <1>11, ModifyStep
  <2>2. writes' \in Content \ {Absent} /\ writes' \in 0 .. MaxWrites
    BY <2>1, BoundsOK DEF Content, Value, Absent
  <2>3. Current' = [Current EXCEPT ![dir][ref.key] = writes']
    BY <1>10, <1>11, <2>2 DEF Modify
  <2> QED BY <1>1, <1>11, <2>3 DEF Modify, Store!Next, Store!Change
<1>12. CASE ScribbleOn
  <2>1. Scribble \in Content \ {Absent} /\ writes' \in 0 .. MaxWrites
    BY <1>12 DEF ScribbleOn, bounds, Content, Scribble, Absent, IInv, Types
  <2>2. Current' = [Current EXCEPT ![dir][ref.key] = Scribble]
    BY <1>10, <1>12, <2>1 DEF ScribbleOn, bounds
  <2> QED BY <1>1, <1>12, <2>2 DEF ScribbleOn, bounds, Store!Next, Store!Scribble
<1>13. CASE ClearList
  <2>1. Listed' = {} /\ call'.op = "clear" /\ UNCHANGED <<files, dir, writes, crashes>>
    BY <1>13, ClearListStep DEF ClearList, settings, bounds, Begin
  <2>2. PICK d \in Dir : d = dir
    BY <1>1
  <2>3. \A x \in Key : Found(d, x)' = Absent
    BY <2>1, <2>2 DEF Found
  <2>4. \A e \in Dir \ {d}, x \in Key : Found(e, x)' = Found(e, x)
    BY <2>1, <2>2 DEF Found
  <2> QED BY <2>1, <2>3, <2>4, DirCleared
<1>14. \A op \in {"flush", "exit", "switch"} : op \in Flushing
  BY DEF Flushing
<1> QED BY <1>5, <1>6, <1>7, <1>8, <1>9, <1>11, <1>12, <1>13, <1>14 DEF Client

LEMMA StoreStep ==
  ASSUME IInv, CleanSaved, [Next]_vars
  PROVE  [Store!Next]_<<Current, files, writes, crashes>>
<1>1. CASE UNCHANGED vars
  <2>1. \A d \in Dir, k \in Key : Found(d, k)' = Found(d, k)
    BY <1>1 DEF vars, settings, Found, Listed
  <2> QED BY <1>1, <2>1, SameStep DEF vars, bounds
<1>2. CASE Create
  <2>1. Listed = {} /\ Listed' = {} /\ call.op # "clear" /\ dir' \in Dir
    BY <1>2, CreateStep DEF Create, Listed, NoCall
  <2>2. UNCHANGED <<files, writes, crashes>>
    BY <1>2 DEF Create, bounds
  <2>3. CASE call' = NoCall
    <3>1. \A d \in Dir, x \in Key : Found(d, x)' = Found(d, x)
      BY <2>1, <2>2, <2>3 DEF Found, NoCall
    <3> QED BY <2>2, <3>1, SameStep
  <2>4. CASE call'.op = "clear"
    <3>1. PICK d \in Dir : d = dir'
      BY <2>1
    <3>2. \A x \in Key : Found(d, x)' = Absent
      BY <2>4, <3>1 DEF Found
    <3>3. \A e \in Dir \ {d}, x \in Key : Found(e, x)' = Found(e, x)
      BY <2>1, <2>2, <3>1 DEF Found
    <3> QED BY <2>2, <3>2, <3>3, DirCleared
  <2> QED BY <1>2, <2>3, <2>4 DEF Create, Begin
<1>3. CASE Crash
  <2>1. Listed' = {} /\ call'.op # "clear" /\ UNCHANGED <<files, writes>> /\ crashes' = crashes + 1
    BY <1>3, CrashStep DEF Crash, NoCall
  <2>2. \A d \in Dir, k \in Key : Found(d, k)' = files[d][k]
    BY <2>1 DEF Found
  <2>3. Current' = files
    BY <2>2 DEF Current, IInv, Types
  <2> QED BY <2>1, <2>3 DEF Store!Next, Store!Crash
<1>4. CASE WriteBackStep BY <1>4, StoreWriteBack
<1>5. CASE Return BY <1>5, StoreReturn
<1>6. CASE Client BY <1>6, StoreClient
<1> QED BY <1>1, <1>2, <1>3, <1>4, <1>5, <1>6 DEF Next

(* Whatever is evicted, reloaded, or left behind by a failure, an object   *)
(* is found as it was last changed, and a crash costs what was not saved:  *)
(* the cache is a WriteBackStore.                                          *)
THEOREM CacheImplementsStore == Spec => StoreOK
<1>1. IInv /\ CleanSaved /\ [Next]_vars => CleanSaved'
  BY CleanStep
<1>2. IInv /\ CleanSaved /\ [Next]_vars => [Store!Next]_<<Current, files, writes, crashes>>
  BY StoreStep
<1> QED BY Invariant, CleanInit, StoreInit, <1>1, <1>2, PTL DEF Spec, StoreOK, Store!Spec
=============================================================================
