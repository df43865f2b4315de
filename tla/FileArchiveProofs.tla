------------------------- MODULE FileArchiveProofs -------------------------
(***************************************************************************)
(* Theorems about FileArchive, for all names, lengths and numbers of       *)
(* operations.                                                             *)
(*                                                                         *)
(* Without crashes (Orderly) an archive is never scanned: the segments the *)
(* archive knows tile the file up to endOfArchive_, whatever is written,   *)
(* removed and reused, and the table of a closed archive gives them back.  *)
(* With crashes the index may have gaps and overlaps; but the flag stays   *)
(* honest, whatever the index is.                                          *)
(***************************************************************************)
EXTENDS FileArchive, FiniteSetTheorems, SequenceTheorems, WellFoundedInduction, TLAPS

-----------------------------------------------------------------------------
(* The segments of an archive.                                             *)

(* A file is known by its name, an empty segment by its place in the list. *)
Ids(m) == {<<1, n>> : n \in DOMAIN m.files} \cup {<<2, i>> : i \in 1 .. Len(m.empties)}

Lo(m) == [k \in Ids(m) |-> IF k[1] = 1 THEN m.files[k[2]].pos - 3 ELSE m.empties[k[2]].pos - 2]
Hi(m) == [k \in Ids(m) |-> IF k[1] = 1 THEN m.files[k[2]].pos + m.files[k[2]].size + 1
                           ELSE m.empties[k[2]].pos + m.empties[k[2]].size + 1]

(* The intervals lo[k] .. hi[k] lie in 1 .. e - 1, apart from each other,  *)
(* and leave nothing out.                                                  *)
Tiling(I, lo, hi, e) ==
  /\ e \in Nat \ {0}
  /\ lo \in [I -> Nat] /\ hi \in [I -> Nat]
  /\ \A k \in I : 1 <= lo[k] /\ lo[k] <= hi[k] /\ hi[k] < e
  /\ \A k, l \in I : k # l => hi[k] < lo[l] \/ hi[l] < lo[k]
  /\ \A p \in 1 .. e - 1 : \E k \in I : lo[k] <= p /\ p <= hi[k]

Piece == [pos : Nat, size : Nat]

MemOK(m) ==
  /\ m = [files |-> m.files, empties |-> m.empties, eoa |-> m.eoa, changed |-> m.changed]
  /\ DOMAIN m.files \subseteq Name /\ IsFiniteSet(DOMAIN m.files)
  /\ m.files \in [DOMAIN m.files -> Piece]
  /\ m.empties \in Seq(Piece)
  /\ m.eoa \in Nat \ {0} /\ m.changed \in BOOLEAN

IsList(c) == Len(c) \in Nat /\ c = [i \in 1 .. Len(c) |-> c[i]]

(* The index m describes the cells c. *)
Described(m, c) ==
  /\ MemOK(m) /\ IsList(c) /\ m.eoa <= Len(c) + 1
  /\ Tiling(Ids(m), Lo(m), Hi(m), m.eoa)
  /\ \A k \in Ids(m) : c[Lo(m)[k]] = Start /\ c[Hi(m)[k]] = End

(* The file d ends with a table that gives m back. *)
Saved(d, m) == d.flag = 1 /\ HasTable(d) /\ TableIndex(d) = m

(* The table of m is written behind the segments. *)
Written(m, c) ==
  LET t == TableCells(m) IN
  /\ Len(c) >= m.eoa + Len(t) - 1
  /\ \A i \in 1 .. Len(t) : c[m.eoa + i - 1] = t[i]

DiskOK(d) == d = [flag |-> d.flag, cells |-> d.cells] /\ IsList(d.cells)

(* A stretch of writes that is waiting in the stream's buffer. *)
RunOK(r) == \/ "flag" \in DOMAIN r /\ r = FlagRun(r.flag)
            \/ r = Run(r.at, r.cells) /\ r.at \in Nat \ {0} /\ IsList(r.cells)

OInv ==
  /\ DiskOK(disk)
  /\ \/ pending = <<>>
     \/ /\ status = "open" /\ mem.changed
        /\ Len(pending) = 1 /\ pending = <<pending[1]>> /\ RunOK(pending[1])
  /\ ops \in Nat
  /\ \/ /\ status = "closed" /\ mem = Closed
        /\ \/ disk = NoFile
           \/ Saved(disk, TableIndex(disk)) /\ Described(TableIndex(disk), disk.cells)
     \/ /\ status = "open" /\ Described(mem, Image.cells)
        /\ mem.changed \/ Saved(disk, mem)
     \/ /\ status = "truncating" /\ Described(mem, disk.cells)
        /\ IF mem.changed THEN disk.flag = 1 /\ Written(mem, disk.cells) ELSE Saved(disk, mem)

-----------------------------------------------------------------------------
(* Runs.  An operation leaves at most four of them.                        *)

(* f[k] is what k runs make of d. *)
After(f, d, runs) == f = [k \in 0 .. Len(runs) |-> IF k = 0 THEN d ELSE Apply(f[k - 1], runs[k])]

(* ApplyAll applies them one after the other.                              *)
LEMMA AppliedSteps ==
  ASSUME NEW d, NEW runs, Len(runs) \in 0 .. 4
  PROVE  \E f : After(f, d, runs) /\ ApplyAll(d, runs) = f[Len(runs)]
<1> DEFINE n == Len(runs)
           a1 == Apply(d, runs[1])
           a2 == Apply(a1, runs[2])
           a3 == Apply(a2, runs[3])
           a4 == Apply(a3, runs[4])
           g  == [k \in 0 .. n |-> IF k = 0 THEN d ELSE IF k = 1 THEN a1 ELSE IF k = 2 THEN a2
                                   ELSE IF k = 3 THEN a3 ELSE a4]
<1>1. After(g, d, runs)
  <2>1. ASSUME NEW k \in 0 .. n
        PROVE  g[k] = IF k = 0 THEN d ELSE Apply(g[k - 1], runs[k])
    <3>1. CASE k = 0
      BY <3>1
    <3>2. CASE k = 1
      BY <3>2
    <3>3. CASE k = 2
      BY <3>3
    <3>4. CASE k = 3
      BY <3>4
    <3>5. CASE k = 4
      BY <3>5
    <3> QED BY <3>1, <3>2, <3>3, <3>4, <3>5
  <2>2. g = [k \in 0 .. n |-> g[k]]
    OBVIOUS
  <2> HIDE DEF g
  <2> QED BY <2>1, <2>2 DEF After
<1>2. ApplyAll(d, runs) = (CHOOSE f : After(f, d, runs))[n]
  BY DEF ApplyAll, After
<1>3. After(CHOOSE f : After(f, d, runs), d, runs)
  BY <1>1
<1> HIDE DEF g
<1> QED BY <1>2, <1>3

(* No run at all changes nothing.                                          *)
LEMMA ApplyNone == ASSUME NEW d PROVE ApplyAll(d, <<>>) = d
<1> DEFINE runs == <<>>
<1>1. Len(runs) = 0
  OBVIOUS
<1> HIDE DEF runs
<1>2. PICK f : After(f, d, runs) /\ ApplyAll(d, runs) = f[0]
  BY <1>1, AppliedSteps
<1>3. f[0] = d
  BY <1>1, <1>2 DEF After
<1> QED BY <1>2, <1>3 DEF runs

(* One run more is applied last.                                           *)
LEMMA ApplyLast ==
  ASSUME NEW d, NEW runs, NEW more, Len(runs) \in 0 .. 3, Len(more) = Len(runs) + 1,
         \A i \in 1 .. Len(runs) : more[i] = runs[i]
  PROVE  ApplyAll(d, more) = Apply(ApplyAll(d, runs), more[Len(more)])
<1> DEFINE n == Len(runs)
<1>1. PICK f : After(f, d, runs) /\ ApplyAll(d, runs) = f[n]
  BY AppliedSteps
<1>2. PICK g : After(g, d, more) /\ ApplyAll(d, more) = g[n + 1]
  <2>1. Len(more) \in 0 .. 4
    OBVIOUS
  <2> QED BY <2>1, AppliedSteps
<1> HIDE DEF n
<1>3. n \in 0 .. 3 /\ Len(more) = n + 1 /\ \A i \in 1 .. n : more[i] = runs[i]
  BY DEF n
<1>4. f[0] = d /\ \A k \in 1 .. n : f[k] = Apply(f[k - 1], runs[k])
  BY <1>1, <1>3 DEF After, n
<1>5. g[0] = d /\ \A k \in 1 .. n + 1 : g[k] = Apply(g[k - 1], more[k])
  BY <1>2, <1>3 DEF After
<1>6. g[n] = f[n]
  <2>1. CASE n = 0
    BY <1>4, <1>5, <2>1
  <2>2. n >= 1 => g[1] = f[1]
    BY <1>3, <1>4, <1>5
  <2>3. n >= 2 => g[2] = f[2]
    BY <1>3, <1>4, <1>5, <2>2
  <2>4. n >= 3 => g[3] = f[3]
    BY <1>3, <1>4, <1>5, <2>3
  <2> QED BY <1>3, <2>1, <2>2, <2>3, <2>4
<1>7. g[n + 1] = Apply(g[n], more[n + 1])
  BY <1>3, <1>5
<1> QED BY <1>1, <1>2, <1>3, <1>6, <1>7

(* Applying a list of runs is applying all but the last, then the last.    *)
LEMMA ApplyFront ==
  ASSUME NEW d, NEW R, NEW runs \in Seq(R), Len(runs) \in 1 .. 4
  PROVE  /\ ApplyAll(d, runs) = Apply(ApplyAll(d, Front(runs)), Last(runs))
         /\ Front(runs) \in Seq(R) /\ Len(Front(runs)) = Len(runs) - 1
         /\ \A i \in 1 .. Len(runs) - 1 : Front(runs)[i] = runs[i]
<1> DEFINE n == Len(runs)
<1>1. n \in 1 .. 4 /\ \A i \in 1 .. n : runs[i] \in R
  OBVIOUS
<1>2. /\ SubSeq(runs, 1, n - 1) \in Seq(R)
      /\ Len(SubSeq(runs, 1, n - 1)) = n - 1
      /\ \A i \in 1 .. n - 1 : SubSeq(runs, 1, n - 1)[i] = runs[i]
  <2> HIDE DEF n
  <2>1. 1 \in Int /\ n - 1 \in Int /\ \A i \in 1 .. n - 1 : runs[i] \in R
    BY <1>1
  <2>2. /\ SubSeq(runs, 1, n - 1) \in Seq(R)
        /\ Len(SubSeq(runs, 1, n - 1)) = IF 1 <= n - 1 THEN (n - 1) - 1 + 1 ELSE 0
        /\ \A i \in 1 .. (n - 1) - 1 + 1 : SubSeq(runs, 1, n - 1)[i] = runs[1 + i - 1]
    BY <2>1, SubSeqProperties
  <2> QED BY <1>1, <2>2
<1>3. Front(runs) = SubSeq(runs, 1, n - 1) /\ Last(runs) = runs[n]
  BY DEF Front, Last
<1> DEFINE f == Front(runs)
<1>4. f \in Seq(R) /\ Len(f) = n - 1 /\ \A i \in 1 .. n - 1 : f[i] = runs[i]
  BY <1>2, <1>3
<1> HIDE DEF f
<1>5. ApplyAll(d, runs) = Apply(ApplyAll(d, f), runs[n])
  <2>1. Len(f) \in 0 .. 3 /\ Len(runs) = Len(f) + 1 /\ \A i \in 1 .. Len(f) : runs[i] = f[i]
    BY <1>1, <1>4
  <2> QED BY <2>1, ApplyLast
<1> QED BY <1>3, <1>4, <1>5 DEF f

(* A single run is applied by itself.                                      *)
LEMMA ApplyOne ==
  ASSUME NEW d, NEW r
  PROVE  ApplyAll(d, <<r>>) = Apply(d, r)
<1> DEFINE runs == <<>>
           more == <<r>>
<1>1. Len(runs) = 0 /\ Len(more) = 1 /\ more[1] = r
  OBVIOUS
<1>2. ApplyAll(d, runs) = d
  BY ApplyNone
<1> HIDE DEF runs, more
<1>3. ApplyAll(d, more) = Apply(ApplyAll(d, runs), more[Len(more)])
  <2>1. Len(runs) \in 0 .. 3 /\ Len(more) = Len(runs) + 1 /\ \A i \in 1 .. Len(runs) : more[i] = runs[i]
    BY <1>1
  <2> QED BY <2>1, ApplyLast
<1> QED BY <1>1, <1>2, <1>3 DEF more

(* Runs that are written behind others.                                    *)
LEMMA ApplyBehind ==
  ASSUME NEW d, NEW R, NEW p \in Seq(R), NEW q \in Seq(R), NEW b \in R, Len(p) + Len(q) \in 0 .. 3,
         ApplyAll(d, p \o q) = ApplyAll(ApplyAll(d, p), q)
  PROVE  ApplyAll(d, p \o Append(q, b)) = ApplyAll(ApplyAll(d, p), Append(q, b))
<1> DEFINE n == Len(p)
           m == Len(q)
           e == ApplyAll(d, p)
           runs == p \o q
           more == p \o Append(q, b)
           q2 == Append(q, b)
<1>1. /\ n \in Nat /\ m \in Nat /\ n + m \in 0 .. 3
      /\ q2 \in Seq(R) /\ Len(q2) = m + 1 /\ q2[m + 1] = b /\ \A i \in 1 .. m : q2[i] = q[i]
  <2>1. /\ q2 \in Seq(R) /\ Len(q2) = m + 1
        /\ \A i \in 1 .. m : q2[i] = q[i]
        /\ q2[m + 1] = b
    BY AppendProperties
  <2> QED BY <2>1
<1> HIDE DEF q2
<1>2. /\ Len(runs) = n + m
      /\ \A i \in 1 .. n + m : runs[i] = IF i <= n THEN p[i] ELSE q[i - n]
  BY ConcatProperties
<1>3. /\ Len(p \o q2) = n + (m + 1)
      /\ \A i \in 1 .. n + (m + 1) : (p \o q2)[i] = IF i <= n THEN p[i] ELSE q2[i - n]
  BY <1>1, ConcatProperties
<1>4. /\ Len(more) = Len(runs) + 1 /\ Len(runs) \in 0 .. 3 /\ more[Len(more)] = b
      /\ \A i \in 1 .. Len(runs) : more[i] = runs[i]
  <2>1. more = p \o q2
    BY DEF q2
  <2> HIDE DEF more, runs, n, m
  <2> QED BY <1>1, <1>2, <1>3, <2>1
<1> HIDE DEF more, runs, e
<1>5. ApplyAll(d, more) = Apply(ApplyAll(d, runs), b)
  BY <1>4, ApplyLast
<1>6. ApplyAll(e, q2) = Apply(ApplyAll(e, q), b)
  <2>1. Len(q) \in 0 .. 3 /\ Len(q2) = Len(q) + 1 /\ q2[Len(q2)] = b
        /\ \A i \in 1 .. Len(q) : q2[i] = q[i]
    <3>1. Len(q) = m
      OBVIOUS
    <3> HIDE DEF m
    <3> QED BY <1>1, <3>1
  <2> QED BY <2>1, ApplyLast
<1>7. ApplyAll(d, runs) = ApplyAll(e, q)
  BY DEF runs, e
<1> QED BY <1>5, <1>6, <1>7 DEF more, q2, e

-----------------------------------------------------------------------------
(* Cells.                                                                  *)

(* A list of cells is a sequence over any set its cells are in.            *)
LEMMA CellsInSeq ==
  ASSUME NEW c, NEW S, IsList(c), \A i \in 1 .. Len(c) : c[i] \in S
  PROVE  c \in Seq(S)
<1> DEFINE n == Len(c)
<1>1. n \in Nat /\ c = [i \in 1 .. n |-> c[i]]
  BY DEF IsList
<1> HIDE DEF n
<1>2. c \in [1 .. n -> S]
  BY <1>1 DEF n
<1> QED BY <1>1, <1>2

(* Every sequence is a list of cells.                                      *)
LEMMA SeqCells ==
  ASSUME NEW S, NEW c \in Seq(S)
  PROVE  IsList(c)
BY DEF IsList

(* The concatenation of two lists of cells: its length, and its cells.     *)
LEMMA ConcatCells ==
  ASSUME NEW a, NEW b, IsList(a), IsList(b)
  PROVE  /\ IsList(a \o b) /\ Len(a) \in Nat /\ Len(b) \in Nat
         /\ Len(a \o b) = Len(a) + Len(b)
         /\ \A i \in 1 .. Len(a) : (a \o b)[i] = a[i]
         /\ \A i \in 1 .. Len(b) : (a \o b)[Len(a) + i] = b[i]
<1> DEFINE n == Len(a)
           m == Len(b)
           S == {a[i] : i \in 1 .. n} \cup {b[i] : i \in 1 .. m}
<1>1. n \in Nat /\ m \in Nat
  BY DEF IsList
<1>2. a \in Seq(S) /\ b \in Seq(S)
  <2>1. \A i \in 1 .. n : a[i] \in S
    OBVIOUS
  <2>2. \A i \in 1 .. m : b[i] \in S
    OBVIOUS
  <2> HIDE DEF S
  <2> QED BY <2>1, <2>2, CellsInSeq
<1> HIDE DEF S
<1>3. /\ a \o b \in Seq(S) /\ Len(a \o b) = n + m
      /\ \A i \in 1 .. n + m : (a \o b)[i] = IF i <= n THEN a[i] ELSE b[i - n]
  BY <1>2, ConcatProperties
<1>4. IsList(a \o b)
  BY <1>3, SeqCells
<1> HIDE DEF n, m
<1>5. \A i \in 1 .. n : (a \o b)[i] = a[i]
  BY <1>1, <1>3
<1>6. \A i \in 1 .. m : (a \o b)[n + i] = b[i]
  <2> SUFFICES ASSUME NEW i \in 1 .. m PROVE (a \o b)[n + i] = b[i]
    OBVIOUS
  <2>1. n + i \in 1 .. n + m /\ ~(n + i <= n) /\ (n + i) - n = i
    BY <1>1
  <2> QED BY <1>3, <2>1
<1> QED BY <1>1, <1>3, <1>4, <1>5, <1>6 DEF n, m

(* The greater of two numbers.                                             *)
LEMMA MaxOfTwo ==
  ASSUME NEW a \in Nat, NEW b \in Nat
  PROVE  Max({a, b}) = IF a >= b THEN a ELSE b
<1> DEFINE x == IF a >= b THEN a ELSE b
           Top(y) == y \in {a, b} /\ \A z \in {a, b} : y >= z
<1>1. Top(x)
  OBVIOUS
<1>2. \A y : Top(y) => y = x
  OBVIOUS
<1>3. Max({a, b}) = CHOOSE y \in {a, b} : \A z \in {a, b} : y >= z
  BY DEF Max
<1> QED BY <1>1, <1>2, <1>3

(* A set of numbers has a least one.                                       *)
LEMMA LeastIs ==
  ASSUME NEW S, S \subseteq Nat, S # {}
  PROVE  Min(S) \in S /\ \A y \in S : Min(S) <= y
<1>1. PICK x \in S : \A y \in S : <<y, x>> \notin OpToRel(<, Nat)
  BY WFMin, NatLessThanWellFounded
<1>2. \A y \in S : x <= y
  <2> SUFFICES ASSUME NEW y \in S, ~(x <= y) PROVE FALSE
    OBVIOUS
  <2>1. x \in Nat /\ y \in Nat /\ y < x
    OBVIOUS
  <2> DEFINE p == <<y, x>>
  <2>2. p \in Nat \X Nat /\ p[1] = y /\ p[2] = x
    BY <2>1
  <2>3. p \in OpToRel(<, Nat)
    <3> HIDE DEF p
    <3> QED BY <2>2 DEF OpToRel
  <2> QED BY <1>1, <2>3
<1>3. Min(S) = CHOOSE y \in S : \A z \in S : y <= z
  BY DEF Min
<1> QED BY <1>1, <1>2, <1>3

(* Induction up to N, for sets.                                            *)
LEMMA Counting ==
  ASSUME NEW N \in Nat, NEW T, 0 \in T, \A k \in 0 .. N - 1 : k \in T => k + 1 \in T
  PROVE  \A k \in 0 .. N : k \in T
<1> DEFINE S == {k \in 0 .. N : k \notin T}
           l == Min(S)
<1>1. SUFFICES ASSUME S # {} PROVE FALSE
  OBVIOUS
<1>2. l \in S /\ \A y \in S : l <= y
  <2>1. S \subseteq Nat
    OBVIOUS
  <2> HIDE DEF S
  <2> QED BY <1>1, <2>1, LeastIs
<1>3. l \in 0 .. N /\ l \notin T
  BY <1>2
<1>4. \A y \in 0 .. N : y < l => y \in T
  <2>1. \A y \in 0 .. N : y \notin T => l <= y
    BY <1>2
  <2> HIDE DEF l, S
  <2> QED BY <1>3, <2>1
<1> HIDE DEF l, S
<1>5. l # 0 /\ l - 1 \in 0 .. N - 1 /\ l - 1 \in 0 .. N /\ l - 1 < l /\ (l - 1) + 1 = l
  BY <1>3
<1>6. l - 1 \in T
  BY <1>4, <1>5
<1>7. (l - 1) + 1 \in T
  BY <1>5, <1>6
<1> QED BY <1>3, <1>5, <1>7

(* f starts with d and goes on by the step G.                              *)
Iterates(f, S, d, G, N) ==
  f \in [0 .. N -> S] /\ f = [k \in 0 .. N |-> IF k = 0 THEN d ELSE G[f[k - 1]]]

(* There is such a function for every d and G.                             *)
LEMMA Iteration ==
  ASSUME NEW S, NEW d \in S, NEW G \in [S -> S], NEW N \in Nat
  PROVE  \E f : Iterates(f, S, d, G, N)
<1> DEFINE Steps(f, n) == f \in [0 .. n -> S] /\ f = [k \in 0 .. n |-> IF k = 0 THEN d ELSE G[f[k - 1]]]
           T == {n \in 0 .. N : \E f : Steps(f, n)}
<1>1. 0 \in T
  <2> DEFINE f == [k \in 0 .. 0 |-> d]
  <2>1. f \in [0 .. 0 -> S] /\ f = [k \in 0 .. 0 |-> IF k = 0 THEN d ELSE G[f[k - 1]]]
    OBVIOUS
  <2> HIDE DEF f
  <2>2. Steps(f, 0) /\ 0 \in 0 .. N
    BY <2>1
  <2> QED BY <2>2
<1>2. ASSUME NEW n \in 0 .. N - 1, n \in T PROVE n + 1 \in T
  <2>1. n \in Nat /\ n + 1 \in 0 .. N
    OBVIOUS
  <2>2. PICK f : Steps(f, n)
    BY <1>2
  <2> DEFINE g == [k \in 0 .. n + 1 |-> IF k = n + 1 THEN G[f[n]] ELSE f[k]]
  <2>3. f \in [0 .. n -> S] /\ \A k \in 0 .. n : f[k] = IF k = 0 THEN d ELSE G[f[k - 1]]
    BY <2>2
  <2>4. g \in [0 .. n + 1 -> S]
    BY <2>1, <2>3
  <2>5. ASSUME NEW k \in 0 .. n + 1 PROVE g[k] = IF k = 0 THEN d ELSE G[g[k - 1]]
    <3>1. CASE k = n + 1
      <4>1. n \in 0 .. n + 1 /\ n # n + 1 /\ k - 1 = n /\ k # 0
        BY <2>1, <3>1
      <4>2. g[k] = G[f[n]] /\ g[n] = f[n]
        BY <3>1, <4>1
      <4> QED BY <4>1, <4>2
    <3>2. CASE k = 0
      BY <2>1, <2>3, <3>2
    <3>3. CASE k # n + 1 /\ k # 0
      <4>1. k \in 0 .. n /\ k - 1 \in 0 .. n + 1 /\ k - 1 # n + 1
        BY <2>1, <3>3
      <4>2. g[k] = f[k] /\ g[k - 1] = f[k - 1]
        BY <3>3, <4>1
      <4> QED BY <2>3, <3>3, <4>1, <4>2
    <3> QED BY <3>1, <3>2, <3>3
  <2>6. g = [k \in 0 .. n + 1 |-> g[k]]
    OBVIOUS
  <2> HIDE DEF g
  <2>7. Steps(g, n + 1)
    BY <2>4, <2>5, <2>6
  <2> QED BY <2>1, <2>7
<1> HIDE DEF T
<1>3. \A n \in 0 .. N : n \in T
  BY <1>1, <1>2, Counting
<1>4. N \in T
  BY <1>3
<1> QED BY <1>4 DEF T, Iterates

(* A write changes the cells it covers, and may make the file longer.      *)
LEMMA OverwrittenCells ==
  ASSUME NEW c, NEW new, NEW at \in Nat \ {0}, IsList(c), IsList(new),
         NEW o, o = Overwritten(c, at, new)
  PROVE  /\ IsList(o) /\ Len(o) \in Nat
         /\ Len(o) >= Len(c) /\ Len(o) >= at + Len(new) - 1
         /\ Len(o) = Len(c) \/ Len(o) = at + Len(new) - 1
         /\ \A i \in 1 .. Len(new) : o[at + i - 1] = new[i]
         /\ \A i \in 1 .. Len(c) : i < at \/ i > at + Len(new) - 1 => o[i] = c[i]
<1> DEFINE n == Len(c)
           m == Len(new)
           x == Max({n, at + m - 1})
<1>1. n \in Nat /\ m \in Nat /\ at + m - 1 \in Nat
  BY DEF IsList
<1>2. o = [i \in 1 .. x |-> IF i \in at .. at + m - 1 THEN new[i - at + 1]
                            ELSE IF i <= n THEN c[i] ELSE Hole]
  BY DEF Overwritten
<1> HIDE DEF n, m
<1>3. x \in Nat /\ x >= n /\ x >= at + m - 1 /\ (x = n \/ x = at + m - 1)
  BY <1>1, MaxOfTwo
<1> HIDE DEF x
<1>4. Len(o) = x /\ o = [i \in 1 .. x |-> o[i]]
  BY <1>2, <1>3
<1>5. ASSUME NEW i \in 1 .. m PROVE o[at + i - 1] = new[i]
  <2>1. at + i - 1 \in 1 .. x /\ at + i - 1 \in at .. at + m - 1 /\ (at + i - 1) - at + 1 = i
    BY <1>1, <1>3
  <2> QED BY <1>2, <2>1
<1>6. ASSUME NEW i \in 1 .. n, i < at \/ i > at + m - 1 PROVE o[i] = c[i]
  <2>1. i \in 1 .. x /\ i \notin at .. at + m - 1
    BY <1>1, <1>3, <1>6
  <2> QED BY <1>2, <2>1
<1>7. IsList(o)
  BY <1>3, <1>4 DEF IsList
<1> QED BY <1>3, <1>4, <1>5, <1>6, <1>7 DEF n, m

(* SetToSeq enumerates a finite set without repetition. *)
LEMMA SetToSeqEnumerates ==
  ASSUME NEW S, IsFiniteSet(S)
  PROVE  /\ SetToSeq(S) \in Seq(S)
         /\ \A i, j \in 1 .. Len(SetToSeq(S)) : SetToSeq(S)[i] = SetToSeq(S)[j] => i = j
         /\ \A x \in S : \E i \in 1 .. Len(SetToSeq(S)) : SetToSeq(S)[i] = x
<1>1. Cardinality(S) \in Nat /\ ExistsBijection(1 .. Cardinality(S), S)
  BY FS_CardinalityType
<1>2. PICK f \in [1 .. Cardinality(S) -> S] :
        IsInjective(f) /\ \A x \in S : \E i \in 1 .. Cardinality(S) : f[i] = x
  BY <1>1 DEF ExistsBijection, Bijection, Injection, Surjection, IsInjective
<1>3. SetToSeq(S) \in [1 .. Cardinality(S) -> S] /\ IsInjective(SetToSeq(S))
  BY <1>2 DEF SetToSeq
<1>4. SetToSeq(S) \in Seq(S) /\ Len(SetToSeq(S)) = Cardinality(S)
  BY <1>1, <1>3
<1>5. IsFiniteSet(1 .. Cardinality(S)) /\ Cardinality(1 .. Cardinality(S)) = Cardinality(S)
  BY <1>1, FS_Interval
<1>6. SetToSeq(S) \in Injection(1 .. Cardinality(S), S)
  BY <1>3 DEF Injection, IsInjective
<1>7. SetToSeq(S) \in Surjection(1 .. Cardinality(S), S)
  BY <1>5, <1>6, FS_Injection
<1>8. \A i, j \in 1 .. Cardinality(S) : SetToSeq(S)[i] = SetToSeq(S)[j] => i = j
  BY <1>3 DEF IsInjective
<1> QED BY <1>4, <1>7, <1>8 DEF Surjection

-----------------------------------------------------------------------------
(* The table.                                                              *)

(* Where the table of m has what.                                          *)
Layout(m, T) ==
  LET names == SetToSeq(DOMAIN m.files)
      f == Len(names)
      e == Len(m.empties)
  IN  /\ IsList(T) /\ f \in Nat /\ e \in Nat /\ Len(T) = f + e + 3
      /\ T[1] = [count |-> f]
      /\ \A i \in 1 .. f : T[1 + i] = [file |-> <<names[i], m.files[names[i]].pos, m.files[names[i]].size>>]
      /\ T[f + 2] = [ecount |-> e]
      /\ \A i \in 1 .. e : T[f + 2 + i] = [empty |-> m.empties[i]]
      /\ T[f + e + 3] = [table |-> m.eoa]

(* writeFileInfoTable() writes what Layout says: the table of an index has *)
(* this length and these cells.                                            *)
LEMMA TableLayout ==
  ASSUME NEW m, MemOK(m)
  PROVE  Layout(m, TableCells(m))
<1> DEFINE names == SetToSeq(DOMAIN m.files)
           f == Len(names)
           e == Len(m.empties)
           t1 == <<[count |-> f]>>
           t2 == [i \in 1 .. f |-> [file |-> <<names[i], m.files[names[i]].pos, m.files[names[i]].size>>]]
           t3 == <<[ecount |-> e]>>
           t4 == [i \in 1 .. e |-> [empty |-> m.empties[i]]]
           t5 == <<[table |-> m.eoa]>>
<1>1. f \in Nat /\ e \in Nat
  BY SetToSeqEnumerates DEF MemOK
<1>2. TableCells(m) = t1 \o t2 \o t3 \o t4 \o t5
  BY DEF TableCells
<1>3. /\ IsList(t1) /\ IsList(t2) /\ IsList(t3) /\ IsList(t4) /\ IsList(t5)
      /\ Len(t1) = 1 /\ Len(t2) = f /\ Len(t3) = 1 /\ Len(t4) = e /\ Len(t5) = 1
      /\ t1[1] = [count |-> f] /\ t3[1] = [ecount |-> e] /\ t5[1] = [table |-> m.eoa]
      /\ \A i \in 1 .. f : t2[i] = [file |-> <<names[i], m.files[names[i]].pos, m.files[names[i]].size>>]
      /\ \A i \in 1 .. e : t4[i] = [empty |-> m.empties[i]]
  <2> HIDE DEF f, e
  <2> QED BY <1>1 DEF IsList
<1> HIDE DEF t1, t2, t3, t4, t5
<1> DEFINE u2 == t1 \o t2
           u3 == u2 \o t3
           u4 == u3 \o t4
           u5 == u4 \o t5
<1>8. TableCells(m) = u5
  BY <1>2
<1>u. u2 = t1 \o t2 /\ u3 = u2 \o t3 /\ u4 = u3 \o t4 /\ u5 = u4 \o t5
  OBVIOUS
<1> HIDE DEF u2, u3, u4, u5, f, e
<1>4. /\ IsList(u2) /\ Len(u2) = 1 + f
      /\ \A i \in 1 .. 1 : u2[i] = t1[i]
      /\ \A i \in 1 .. f : u2[1 + i] = t2[i]
  <2>1. IsList(t1) /\ IsList(t2) /\ 1 = Len(t1) /\ f = Len(t2) /\ u2 = t1 \o t2
    BY <1>3, <1>u
  <2>2. /\ IsList(t1 \o t2) /\ Len(t1 \o t2) = Len(t1) + Len(t2)
        /\ \A i \in 1 .. Len(t1) : (t1 \o t2)[i] = t1[i]
        /\ \A i \in 1 .. Len(t2) : (t1 \o t2)[Len(t1) + i] = t2[i]
    BY <2>1, ConcatCells
  <2> QED BY <2>1, <2>2
<1>5. /\ IsList(u3) /\ Len(u3) = f + 2
      /\ \A i \in 1 .. 1 + f : u3[i] = u2[i]
      /\ u3[f + 2] = t3[1]
  <2>1. IsList(u2) /\ IsList(t3) /\ 1 + f = Len(u2) /\ 1 = Len(t3) /\ u3 = u2 \o t3
    BY <1>3, <1>4, <1>u
  <2>2. /\ IsList(u2 \o t3) /\ Len(u2 \o t3) = Len(u2) + Len(t3)
        /\ \A i \in 1 .. Len(u2) : (u2 \o t3)[i] = u2[i]
        /\ \A i \in 1 .. Len(t3) : (u2 \o t3)[Len(u2) + i] = t3[i]
    BY <2>1, ConcatCells
  <2>4. /\ IsList(u3) /\ Len(u3) = (1 + f) + 1
        /\ \A i \in 1 .. 1 + f : u3[i] = u2[i]
        /\ \A i \in 1 .. 1 : u3[(1 + f) + i] = t3[i]
    BY <2>1, <2>2
  <2>3. (1 + f) + 1 = f + 2
    BY <1>1
  <2> QED BY <2>3, <2>4
<1>6. /\ IsList(u4) /\ Len(u4) = f + 2 + e
      /\ \A i \in 1 .. f + 2 : u4[i] = u3[i]
      /\ \A i \in 1 .. e : u4[f + 2 + i] = t4[i]
  <2>1. IsList(u3) /\ IsList(t4) /\ f + 2 = Len(u3) /\ e = Len(t4) /\ u4 = u3 \o t4
    BY <1>3, <1>5, <1>u
  <2>2. /\ IsList(u3 \o t4) /\ Len(u3 \o t4) = Len(u3) + Len(t4)
        /\ \A i \in 1 .. Len(u3) : (u3 \o t4)[i] = u3[i]
        /\ \A i \in 1 .. Len(t4) : (u3 \o t4)[Len(u3) + i] = t4[i]
    BY <2>1, ConcatCells
  <2> QED BY <2>1, <2>2
<1>7. /\ IsList(u5) /\ Len(u5) = f + e + 3
      /\ \A i \in 1 .. f + 2 + e : u5[i] = u4[i]
      /\ u5[f + e + 3] = t5[1]
  <2>1. IsList(u4) /\ IsList(t5) /\ f + 2 + e = Len(u4) /\ 1 = Len(t5) /\ u5 = u4 \o t5
    BY <1>3, <1>6, <1>u
  <2>2. /\ IsList(u4 \o t5) /\ Len(u4 \o t5) = Len(u4) + Len(t5)
        /\ \A i \in 1 .. Len(u4) : (u4 \o t5)[i] = u4[i]
        /\ \A i \in 1 .. Len(t5) : (u4 \o t5)[Len(u4) + i] = t5[i]
    BY <2>1, ConcatCells
  <2>4. /\ IsList(u5) /\ Len(u5) = (f + 2 + e) + 1
        /\ \A i \in 1 .. f + 2 + e : u5[i] = u4[i]
        /\ \A i \in 1 .. 1 : u5[(f + 2 + e) + i] = t5[i]
    BY <2>1, <2>2
  <2>3. (f + 2 + e) + 1 = f + e + 3
    BY <1>1
  <2> QED BY <2>3, <2>4
<1>9. u5[1] = t1[1] /\ \A i \in 1 .. f : u5[1 + i] = t2[i]
  <2>1. \A i \in 1 .. 1 + f : i \in 1 .. f + 2 /\ i \in 1 .. f + 2 + e
    BY <1>1
  <2>2. \A i \in 1 .. 1 + f : u5[i] = u2[i]
    BY <1>5, <1>6, <1>7, <2>1
  <2>3. 1 \in 1 .. 1 + f /\ \A i \in 1 .. f : 1 + i \in 1 .. 1 + f
    BY <1>1
  <2> QED BY <1>4, <2>2, <2>3
<1>10. u5[f + 2] = t3[1] /\ \A i \in 1 .. e : u5[f + 2 + i] = t4[i]
  <2>1. f + 2 \in 1 .. f + 2 /\ f + 2 \in 1 .. f + 2 + e
        /\ \A i \in 1 .. e : f + 2 + i \in 1 .. f + 2 + e
    BY <1>1
  <2> QED BY <1>5, <1>6, <1>7, <2>1
<1> QED BY <1>1, <1>3, <1>7, <1>8, <1>9, <1>10 DEF Layout, f, e

-----------------------------------------------------------------------------
(* The stream.                                                             *)

(* A run at the end of a stretch of runs.                                  *)
LEMMA FrontAndLast ==
  ASSUME NEW R, NEW s \in Seq(R), s # <<>>
  PROVE  /\ Front(s) \in Seq(R) /\ Len(Front(s)) = Len(s) - 1
         /\ Last(s) \in R /\ Last(s) = s[Len(s)] /\ s = Append(Front(s), Last(s))
         /\ \A i \in 1 .. Len(s) - 1 : Front(s)[i] = s[i]
<1> DEFINE n == Len(s)
<1>1. n \in Nat \ {0} /\ \A i \in 1 .. n : s[i] \in R
  OBVIOUS
<1>2. /\ SubSeq(s, 1, n - 1) \in Seq(R)
      /\ Len(SubSeq(s, 1, n - 1)) = n - 1
      /\ \A i \in 1 .. n - 1 : SubSeq(s, 1, n - 1)[i] = s[i]
  <2> HIDE DEF n
  <2>1. 1 \in Int /\ n - 1 \in Int /\ \A i \in 1 .. n - 1 : s[i] \in R
    BY <1>1
  <2>2. /\ SubSeq(s, 1, n - 1) \in Seq(R)
        /\ Len(SubSeq(s, 1, n - 1)) = IF 1 <= n - 1 THEN (n - 1) - 1 + 1 ELSE 0
        /\ \A i \in 1 .. (n - 1) - 1 + 1 : SubSeq(s, 1, n - 1)[i] = s[1 + i - 1]
    BY <2>1, SubSeqProperties
  <2> QED BY <1>1, <2>2
<1>3. Front(s) = SubSeq(s, 1, n - 1) /\ Last(s) = s[n]
  BY DEF Front, Last
<1> DEFINE f == Front(s)
           t == Append(f, s[n])
<1>4. f \in Seq(R) /\ Len(f) = n - 1 /\ \A i \in 1 .. n - 1 : f[i] = s[i]
  BY <1>2, <1>3
<1> HIDE DEF f
<1>5. t \in Seq(R) /\ Len(t) = n /\ \A i \in 1 .. n : t[i] = s[i]
  <2>1. s[n] \in R
    BY <1>1
  <2>2. /\ t \in Seq(R) /\ Len(t) = Len(f) + 1
        /\ \A i \in 1 .. Len(f) : t[i] = f[i]
        /\ t[Len(f) + 1] = s[n]
    BY <1>4, <2>1, AppendProperties
  <2> QED BY <1>1, <1>4, <2>2
<1> HIDE DEF t
<1>6. t = s
  BY <1>5, SeqEqual
<1> QED BY <1>1, <1>3, <1>4, <1>6 DEF t, f

(* Runs after others make what they make of what the others have made.     *)
LEMMA ApplyConcat ==
  ASSUME NEW d, NEW p, NEW q, IsList(p), IsList(q), Len(p) + Len(q) \in 0 .. 4
  PROVE  ApplyAll(d, p \o q) = ApplyAll(ApplyAll(d, p), q)
<1> DEFINE R == {p[i] : i \in 1 .. Len(p)} \cup {q[i] : i \in 1 .. Len(q)}
           Same(k) == \A s \in Seq(R) : Len(s) = k /\ Len(p) + k \in 0 .. 4
                        => ApplyAll(d, p \o s) = ApplyAll(ApplyAll(d, p), s)
<1>1. p \in Seq(R) /\ q \in Seq(R)
  <2>1. (\A i \in 1 .. Len(p) : p[i] \in R) /\ (\A i \in 1 .. Len(q) : q[i] \in R)
    OBVIOUS
  <2> HIDE DEF R
  <2> QED BY <2>1, CellsInSeq
<1> HIDE DEF R
<1>2. Same(0)
  <2> SUFFICES ASSUME NEW s \in Seq(R), Len(s) = 0
               PROVE  ApplyAll(d, p \o s) = ApplyAll(ApplyAll(d, p), s)
    OBVIOUS
  <2>1. s = <<>>
    OBVIOUS
  <2>2. p \o <<>> = p
    BY <1>1
  <2>3. ApplyAll(ApplyAll(d, p), <<>>) = ApplyAll(d, p)
    BY ApplyNone
  <2> QED BY <2>1, <2>2, <2>3
<1>3. ASSUME NEW k \in 0 .. 3, Same(k) PROVE Same(k + 1)
  <2> SUFFICES ASSUME NEW s \in Seq(R), Len(s) = k + 1, Len(p) + (k + 1) \in 0 .. 4
               PROVE  ApplyAll(d, p \o s) = ApplyAll(ApplyAll(d, p), s)
    OBVIOUS
  <2> DEFINE f == Front(s)
             b == Last(s)
  <2>1. s # <<>>
    OBVIOUS
  <2>2. f \in Seq(R) /\ Len(f) = k /\ b \in R /\ s = Append(f, b)
    BY <2>1, FrontAndLast
  <2> HIDE DEF f, b
  <2>3. Len(p) \in Nat
    BY <1>1
  <2>4. Len(p) + Len(f) \in 0 .. 3 /\ Len(p) + k \in 0 .. 4
    BY <2>2, <2>3
  <2>5. ApplyAll(d, p \o f) = ApplyAll(ApplyAll(d, p), f)
    BY <1>3, <2>2, <2>4
  <2> HIDE DEF Same
  <2>6. ApplyAll(d, p \o Append(f, b)) = ApplyAll(ApplyAll(d, p), Append(f, b))
    BY <1>1, <2>2, <2>4, <2>5, ApplyBehind
  <2> QED BY <2>2, <2>6
<1>4. Same(1) /\ Same(2) /\ Same(3) /\ Same(4)
  <2> HIDE DEF Same
  <2>1. Same(0 + 1)
    BY <1>2, <1>3
  <2>2. Same(1 + 1)
    BY <1>3, <2>1
  <2>3. Same(2 + 1)
    BY <1>3, <2>2
  <2>4. Same(3 + 1)
    BY <1>3, <2>3
  <2> QED BY <2>1, <2>2, <2>3, <2>4
<1>5. Len(p) \in Nat /\ Len(q) \in Nat
  BY <1>1
<1>6. Len(q) \in {0, 1, 2, 3, 4}
  <2> DEFINE a == Len(p)
             b == Len(q)
  <2>1. a \in Nat /\ b \in Nat /\ a + b \in 0 .. 4
    BY <1>5
  <2> HIDE DEF a, b
  <2>2. b \in {0, 1, 2, 3, 4}
    BY <2>1
  <2> QED BY <2>2 DEF b
<1>7. Same(Len(q))
  <2> HIDE DEF Same
  <2> QED BY <1>2, <1>4, <1>6
<1> QED BY <1>1, <1>5, <1>7

(* What one run makes of the file.                                         *)
LEMMA ApplyIs ==
  ASSUME NEW d, DiskOK(d), NEW f, NEW at, NEW c
  PROVE  /\ Apply(d, FlagRun(f)) = [flag |-> f, cells |-> d.cells]
         /\ Apply(d, Run(at, c)) = [flag |-> d.flag, cells |-> Overwritten(d.cells, at, c)]
<1>1. DOMAIN FlagRun(f) = {"flag"} /\ FlagRun(f).flag = f
  BY DEF FlagRun
<1>2. DOMAIN Run(at, c) = {"at", "cells"} /\ Run(at, c).at = at /\ Run(at, c).cells = c
  BY DEF Run
<1>3. d = [flag |-> d.flag, cells |-> d.cells]
  BY DEF DiskOK
<1> QED BY <1>1, <1>2, <1>3 DEF Apply

(* A run that is applied leaves a file that is one.                        *)
LEMMA ApplyKeepsDisk ==
  ASSUME NEW d, DiskOK(d), NEW r, RunOK(r)
  PROVE  DiskOK(Apply(d, r))
<1>1. CASE r = FlagRun(r.flag)
  <2>1. Apply(d, r) = [flag |-> r.flag, cells |-> d.cells]
    BY <1>1, ApplyIs
  <2> QED BY <2>1 DEF DiskOK
<1>2. CASE r = Run(r.at, r.cells) /\ r.at \in Nat \ {0} /\ IsList(r.cells)
  <2> DEFINE at == r.at
             c == r.cells
             o == Overwritten(d.cells, at, c)
  <2>1. Apply(d, r) = [flag |-> d.flag, cells |-> o]
    BY <1>2, ApplyIs
  <2>2. at \in Nat \ {0} /\ IsList(c) /\ IsList(d.cells)
    BY <1>2 DEF DiskOK
  <2> HIDE DEF at, c
  <2>3. IsList(o)
    BY <2>2, OverwrittenCells
  <2> HIDE DEF o
  <2> QED BY <2>1, <2>3 DEF DiskOK
<1> QED BY <1>1, <1>2 DEF RunOK

(* So do up to four runs.                                                  *)
LEMMA AppliedKeepsDisk ==
  ASSUME NEW d, DiskOK(d), NEW runs, Len(runs) \in 0 .. 4, \A i \in 1 .. Len(runs) : RunOK(runs[i])
  PROVE  DiskOK(ApplyAll(d, runs))
<1> DEFINE n == Len(runs)
<1>1. PICK f : After(f, d, runs) /\ ApplyAll(d, runs) = f[n]
  BY AppliedSteps
<1>2. f[0] = d /\ \A k \in 1 .. n : f[k] = Apply(f[k - 1], runs[k])
  BY <1>1 DEF After
<1> HIDE DEF n
<1>3. n \in 0 .. 4 /\ \A k \in 1 .. n : RunOK(runs[k])
  BY DEF n
<1>4. ASSUME NEW k \in 1 .. n, DiskOK(f[k - 1]) PROVE DiskOK(f[k])
  BY <1>2, <1>3, <1>4, ApplyKeepsDisk
<1>5. DiskOK(f[0])
  BY <1>2
<1>6. n >= 1 => DiskOK(f[1])
  BY <1>3, <1>4, <1>5
<1>7. n >= 2 => DiskOK(f[2])
  BY <1>3, <1>4, <1>6
<1>8. n >= 3 => DiskOK(f[3])
  BY <1>3, <1>4, <1>7
<1>9. n >= 4 => DiskOK(f[4])
  BY <1>3, <1>4, <1>8
<1> QED BY <1>1, <1>3, <1>5, <1>6, <1>7, <1>8, <1>9

(* The parts of a list of runs. *)
LEMMA ConcatRuns ==
  ASSUME NEW p, NEW q, IsList(p), IsList(q),
         \A i \in 1 .. Len(p) : RunOK(p[i]), \A i \in 1 .. Len(q) : RunOK(q[i])
  PROVE  /\ IsList(p \o q) /\ Len(p) \in Nat /\ Len(q) \in Nat /\ Len(p \o q) = Len(p) + Len(q)
         /\ \A i \in 1 .. Len(p \o q) : RunOK((p \o q)[i])
<1> DEFINE a == Len(p)
           b == Len(q)
           u == p \o q
<1>1. /\ IsList(u) /\ a \in Nat /\ b \in Nat /\ Len(u) = a + b
      /\ \A i \in 1 .. a : u[i] = p[i]
      /\ \A i \in 1 .. b : u[a + i] = q[i]
  BY ConcatCells
<1>2. (\A i \in 1 .. a : RunOK(p[i])) /\ (\A i \in 1 .. b : RunOK(q[i]))
  OBVIOUS
<1> HIDE DEF a, b, u
<1>3. ASSUME NEW i \in 1 .. a + b PROVE RunOK(u[i])
  <2>1. CASE i <= a
    BY <1>1, <1>2, <2>1
  <2>2. CASE i > a
    <3>1. i - a \in 1 .. b /\ a + (i - a) = i
      BY <1>1, <2>2
    <3> QED BY <1>1, <1>2, <3>1
  <2> QED BY <1>1, <2>1, <2>2
<1> QED BY <1>1, <1>3 DEF a, b, u

(* What is written and flushed changes the file as its stream sees it.     *)
LEMMA Flushed ==
  ASSUME NEW runs, DiskOK(disk), IsList(pending), Len(pending) \in 0 .. 1, IsList(runs), Len(runs) \in 0 .. 3,
         \A i \in 1 .. Len(pending) : RunOK(pending[i]), \A i \in 1 .. Len(runs) : RunOK(runs[i])
  PROVE  /\ ApplyAll(disk, pending \o runs) = ApplyAll(Image, runs)
         /\ DiskOK(Image) /\ DiskOK(ApplyAll(Image, runs))
<1> DEFINE a == Len(pending)
           b == Len(runs)
<1>1. a \in 0 .. 1 /\ b \in 0 .. 3
  OBVIOUS
<1> HIDE DEF a, b
<1>2. a + b \in 0 .. 4 /\ a \in 0 .. 4 /\ b \in 0 .. 4
  BY <1>1
<1>3. Len(pending) + Len(runs) \in 0 .. 4 /\ Len(pending) \in 0 .. 4 /\ Len(runs) \in 0 .. 4
  BY <1>2 DEF a, b
<1>4. ApplyAll(disk, pending \o runs) = ApplyAll(ApplyAll(disk, pending), runs)
  BY <1>3, ApplyConcat
<1>5. DiskOK(ApplyAll(disk, pending))
  BY <1>3, AppliedKeepsDisk
<1>6. Image = ApplyAll(disk, pending)
  BY DEF Image
<1>7. DiskOK(Image)
  BY <1>5, <1>6
<1>8. DiskOK(ApplyAll(Image, runs))
  BY <1>3, <1>7, AppliedKeepsDisk
<1> QED BY <1>4, <1>6, <1>7, <1>8

(* So does what is written and stays in the buffer in part.                *)
LEMMA Emitted ==
  ASSUME NEW runs, DiskOK(disk), IsList(pending), Len(pending) \in 0 .. 1, IsList(runs), Len(runs) \in 0 .. 3,
         \A i \in 1 .. Len(pending) : RunOK(pending[i]), \A i \in 1 .. Len(runs) : RunOK(runs[i]),
         runs # <<>>, Emit(runs)
  PROVE  /\ Image' = ApplyAll(Image, runs)
         /\ DiskOK(disk') /\ DiskOK(Image')
         /\ Len(pending') = 1 /\ pending' = <<pending'[1]>> /\ RunOK(pending'[1])
<1> DEFINE all == pending \o runs
           n == Len(all)
           R == {all[i] : i \in 1 .. n}
<1>1. /\ IsList(all) /\ Len(pending) \in Nat /\ Len(runs) \in Nat /\ n = Len(pending) + Len(runs)
      /\ \A i \in 1 .. n : RunOK(all[i])
  BY ConcatRuns
<1>2. n \in 1 .. 4
  <2> DEFINE a == Len(pending)
             b == Len(runs)
  <2>1. a \in 0 .. 1 /\ b \in 0 .. 3 /\ b # 0 /\ n = a + b
    <3>1. Len(runs) # 0
      BY DEF IsList
    <3> QED BY <1>1, <3>1
  <2> HIDE DEF a, b, n
  <2> QED BY <2>1
<1>3. /\ disk' = ApplyAll(disk, IF all = <<>> THEN all ELSE Front(all))
      /\ pending' = IF all = <<>> THEN all ELSE <<Last(all)>>
  BY DEF Emit
<1>4. all \in Seq(R)
  <2>1. \A i \in 1 .. Len(all) : all[i] \in R
    OBVIOUS
  <2> HIDE DEF R, all
  <2> QED BY <1>1, <2>1, CellsInSeq
<1>5. ApplyAll(disk, all) = ApplyAll(Image, runs)
  BY Flushed
<1>6. DiskOK(ApplyAll(Image, runs))
  BY Flushed
<1> HIDE DEF all, R, n
<1>7. Len(all) \in 1 .. 4 /\ all # <<>>
  BY <1>2 DEF n
<1> DEFINE f == Front(all)
           l == Last(all)
<1>8. /\ ApplyAll(disk, all) = Apply(ApplyAll(disk, f), l)
      /\ f \in Seq(R) /\ Len(f) = n - 1 /\ \A i \in 1 .. n - 1 : f[i] = all[i]
  BY <1>4, <1>7, ApplyFront DEF n
<1>9. l = all[n]
  BY <1>4, <1>7, FrontAndLast DEF n
<1>10. disk' = ApplyAll(disk, f) /\ pending' = <<l>>
  BY <1>3, <1>7
<1> HIDE DEF f, l
<1>11. RunOK(l) /\ \A i \in 1 .. Len(f) : RunOK(f[i])
  BY <1>1, <1>2, <1>8, <1>9
<1>12. Len(f) \in 0 .. 4
  BY <1>2, <1>8
<1>13. DiskOK(disk')
  BY <1>10, <1>11, <1>12, AppliedKeepsDisk
<1>14. Image' = ApplyAll(disk', pending')
  BY DEF Image
<1>15. ApplyAll(disk', <<l>>) = Apply(disk', l)
  BY ApplyOne
<1>16. Image' = ApplyAll(Image, runs)
  BY <1>5, <1>8, <1>10, <1>14, <1>15
<1>17. DiskOK(Image')
  BY <1>6, <1>16
<1>18. Len(pending') = 1 /\ pending' = <<pending'[1]>> /\ pending'[1] = l
  BY <1>10
<1> QED BY <1>11, <1>13, <1>16, <1>17, <1>18

(* Clearing the flag touches no cell.                                      *)
LEMMA Cleared ==
  ASSUME NEW d, DiskOK(d), NEW m
  PROVE  /\ IsList(ClearFlag(m)) /\ Len(ClearFlag(m)) \in 0 .. 1
         /\ \A i \in 1 .. Len(ClearFlag(m)) : RunOK(ClearFlag(m)[i])
         /\ DiskOK(ApplyAll(d, ClearFlag(m)))
         /\ ApplyAll(d, ClearFlag(m)).cells = d.cells
<1>1. CASE m.changed
  <2> DEFINE r == <<>>
  <2>1. ClearFlag(m) = r
    BY <1>1 DEF ClearFlag
  <2>2. IsList(r) /\ Len(r) = 0
    BY DEF IsList
  <2>3. ApplyAll(d, r) = d
    BY ApplyNone
  <2> HIDE DEF r
  <2> QED BY <2>1, <2>2, <2>3
<1>2. CASE ~m.changed
  <2> DEFINE r == <<FlagRun(0)>>
  <2>1. ClearFlag(m) = r
    BY <1>2 DEF ClearFlag
  <2>2. IsList(r) /\ Len(r) = 1 /\ r[1] = FlagRun(0)
    BY DEF IsList
  <2>3. ApplyAll(d, r) = Apply(d, FlagRun(0))
    BY ApplyOne
  <2> HIDE DEF r
  <2>4. ApplyAll(d, r) = [flag |-> 0, cells |-> d.cells]
    BY <2>3, ApplyIs
  <2>5. RunOK(FlagRun(0))
    BY DEF RunOK, FlagRun
  <2>6. DiskOK(ApplyAll(d, r))
    BY <2>4 DEF DiskOK
  <2> QED BY <2>1, <2>2, <2>4, <2>5, <2>6
<1> QED BY <1>1, <1>2

(* A run of cells is one that can be applied.                              *)
LEMMA CellRun ==
  ASSUME NEW at \in Nat \ {0}, NEW c, IsList(c)
  PROVE  RunOK(Run(at, c)) /\ IsList(<<Run(at, c)>>) /\ Len(<<Run(at, c)>>) = 1
         /\ <<Run(at, c)>>[1] = Run(at, c)
<1>1. Run(at, c).at = at /\ Run(at, c).cells = c
  BY DEF Run
<1>2. RunOK(Run(at, c))
  BY <1>1 DEF RunOK
<1> HIDE DEF Run
<1> QED BY <1>2 DEF IsList

(* e is what writing the cells c from the position at on makes of d.        *)
Wrote(d, e, at, c) == DiskOK(e) /\ e.cells = Overwritten(d.cells, at, c)

(* Clearing the flag and writing cells.                                    *)
LEMMA ClearedThenWritten ==
  ASSUME NEW d, DiskOK(d), NEW m, NEW at \in Nat \ {0}, NEW c, IsList(c),
         NEW runs, runs = ClearFlag(m) \o <<Run(at, c)>>
  PROVE  /\ IsList(runs) /\ Len(runs) \in 1 .. 2 /\ \A i \in 1 .. Len(runs) : RunOK(runs[i])
         /\ Wrote(d, ApplyAll(d, runs), at, c)
<1> DEFINE p == ClearFlag(m)
           r == Run(at, c)
           q == <<r>>
<1>1. /\ IsList(p) /\ Len(p) \in 0 .. 1 /\ \A i \in 1 .. Len(p) : RunOK(p[i])
      /\ DiskOK(ApplyAll(d, p)) /\ ApplyAll(d, p).cells = d.cells
  BY Cleared
<1>2. RunOK(r) /\ IsList(q) /\ Len(q) = 1 /\ q[1] = r
  BY CellRun
<1>3. ApplyAll(ApplyAll(d, p), q) = Apply(ApplyAll(d, p), r)
  BY ApplyOne
<1>4. runs = p \o q
  OBVIOUS
<1>5. Apply(ApplyAll(d, p), r) = [flag |-> ApplyAll(d, p).flag, cells |-> Overwritten(d.cells, at, c)]
  BY <1>1, ApplyIs
<1> HIDE DEF p, q, r
<1>6. \A i \in 1 .. Len(q) : RunOK(q[i])
  BY <1>2
<1>7. /\ IsList(runs) /\ Len(runs) = Len(p) + Len(q) /\ \A i \in 1 .. Len(runs) : RunOK(runs[i])
  BY <1>1, <1>2, <1>4, <1>6, ConcatRuns
<1>8. Len(runs) \in 1 .. 2 /\ Len(p) + Len(q) \in 0 .. 4 /\ Len(runs) \in 0 .. 4
  <2> DEFINE a == Len(p)
  <2>1. a \in 0 .. 1 /\ Len(runs) = a + 1
    BY <1>1, <1>2, <1>7
  <2> HIDE DEF a
  <2>2. Len(runs) \in 1 .. 2 /\ a + 1 \in 0 .. 4
    BY <2>1
  <2> QED BY <1>2, <2>1, <2>2 DEF a
<1>9. ApplyAll(d, runs) = ApplyAll(ApplyAll(d, p), q)
  <2>1. IsList(p) /\ IsList(q) /\ Len(p) + Len(q) \in 0 .. 4
    BY <1>1, <1>2, <1>8
  <2>2. ApplyAll(d, p \o q) = ApplyAll(ApplyAll(d, p), q)
    BY <2>1, ApplyConcat
  <2> QED BY <1>4, <2>2
<1>10. DiskOK(ApplyAll(d, runs))
  BY <1>7, <1>8, AppliedKeepsDisk
<1>11. ApplyAll(d, runs).cells = Overwritten(d.cells, at, c)
  BY <1>3, <1>5, <1>9
<1> QED BY <1>7, <1>8, <1>10, <1>11 DEF Wrote

-----------------------------------------------------------------------------
(* Tilings.                                                                *)

(* lo2 and hi2 name the intervals of lo and hi by J instead of I: g tells   *)
(* which is which.                                                         *)
NamesOf(I, lo, hi, J, lo2, hi2, g) ==
  /\ g \in [J -> I] /\ lo2 \in [J -> Int] /\ hi2 \in [J -> Int]
  /\ \A j, k \in J : g[j] = g[k] => j = k
  /\ \A i \in I : \E j \in J : g[j] = i
  /\ \A j \in J : lo2[j] = lo[g[j]] /\ hi2[j] = hi[g[j]]

(* Other names for the intervals.                                          *)
LEMMA Renamed ==
  ASSUME NEW I, NEW lo, NEW hi, NEW e, Tiling(I, lo, hi, e),
         NEW J, NEW lo2, NEW hi2, NEW g, NamesOf(I, lo, hi, J, lo2, hi2, g)
  PROVE  Tiling(J, lo2, hi2, e)
<1>0. /\ g \in [J -> I] /\ lo2 \in [J -> Int] /\ hi2 \in [J -> Int]
      /\ \A j, k \in J : g[j] = g[k] => j = k
      /\ \A i \in I : \E j \in J : g[j] = i
      /\ \A j \in J : lo2[j] = lo[g[j]] /\ hi2[j] = hi[g[j]]
  BY DEF NamesOf
<1>1. /\ e \in Nat \ {0} /\ lo \in [I -> Nat] /\ hi \in [I -> Nat]
      /\ \A k \in I : 1 <= lo[k] /\ lo[k] <= hi[k] /\ hi[k] < e
      /\ \A k, l \in I : k # l => hi[k] < lo[l] \/ hi[l] < lo[k]
      /\ \A p \in 1 .. e - 1 : \E k \in I : lo[k] <= p /\ p <= hi[k]
  BY DEF Tiling
<1>2. lo2 \in [J -> Nat] /\ hi2 \in [J -> Nat]
  BY <1>0, <1>1
<1>3. \A j \in J : 1 <= lo2[j] /\ lo2[j] <= hi2[j] /\ hi2[j] < e
  BY <1>0, <1>1
<1>4. ASSUME NEW j \in J, NEW k \in J, j # k PROVE hi2[j] < lo2[k] \/ hi2[k] < lo2[j]
  <2>1. g[j] \in I /\ g[k] \in I /\ g[j] # g[k]
    BY <1>0, <1>4
  <2>2. hi[g[j]] < lo[g[k]] \/ hi[g[k]] < lo[g[j]]
    BY <1>1, <2>1
  <2> QED BY <1>0, <2>2
<1>5. ASSUME NEW p \in 1 .. e - 1 PROVE \E k \in J : lo2[k] <= p /\ p <= hi2[k]
  <2>1. PICK i \in I : lo[i] <= p /\ p <= hi[i]
    BY <1>1
  <2>2. PICK j \in J : g[j] = i
    BY <1>0
  <2> QED BY <1>0, <2>1, <2>2
<1> QED BY <1>1, <1>2, <1>3, <1>4, <1>5 DEF Tiling

(* The last interval is taken away.                                        *)
LEMMA Shrunk ==
  ASSUME NEW I, NEW lo, NEW hi, NEW e, Tiling(I, lo, hi, e),
         NEW k0 \in I, hi[k0] = e - 1, NEW J, J = I \ {k0},
         NEW lo2 \in [J -> Int], NEW hi2 \in [J -> Int],
         \A j \in J : lo2[j] = lo[j] /\ hi2[j] = hi[j]
  PROVE  Tiling(J, lo2, hi2, lo[k0])
<1>1. /\ e \in Nat \ {0} /\ lo \in [I -> Nat] /\ hi \in [I -> Nat]
      /\ \A k \in I : 1 <= lo[k] /\ lo[k] <= hi[k] /\ hi[k] < e
      /\ \A k, l \in I : k # l => hi[k] < lo[l] \/ hi[l] < lo[k]
      /\ \A p \in 1 .. e - 1 : \E k \in I : lo[k] <= p /\ p <= hi[k]
  BY DEF Tiling
<1>2. lo2 \in [J -> Nat] /\ hi2 \in [J -> Nat] /\ lo[k0] \in Nat \ {0}
  BY <1>1
<1>3. \A j \in J : 1 <= lo2[j] /\ lo2[j] <= hi2[j]
  BY <1>1
<1>4. ASSUME NEW j \in J PROVE hi2[j] < lo[k0]
  <2>1. hi[j] < lo[k0] \/ hi[k0] < lo[j]
    BY <1>1
  <2>2. lo[j] <= hi[j] /\ hi[j] < e /\ lo[j] \in Nat /\ hi[j] \in Nat
    BY <1>1
  <2> QED BY <1>1, <2>1, <2>2
<1>5. \A j, k \in J : j # k => hi2[j] < lo2[k] \/ hi2[k] < lo2[j]
  BY <1>1
<1>6. ASSUME NEW p \in 1 .. lo[k0] - 1 PROVE \E k \in J : lo2[k] <= p /\ p <= hi2[k]
  <2>1. p \in 1 .. e - 1 /\ p < lo[k0]
    BY <1>1
  <2>2. PICK i \in I : lo[i] <= p /\ p <= hi[i]
    BY <1>1, <2>1
  <2>3. i # k0
    BY <1>1, <2>1, <2>2
  <2> QED BY <2>2, <2>3
<1> QED BY <1>2, <1>3, <1>4, <1>5, <1>6 DEF Tiling

(* An interval is added at the end.                                        *)
LEMMA Grown ==
  ASSUME NEW I, NEW lo, NEW hi, NEW e, Tiling(I, lo, hi, e),
         NEW k0, k0 \notin I, NEW J, J = I \cup {k0}, NEW n \in Nat \ {0},
         NEW lo2 \in [J -> Int], NEW hi2 \in [J -> Int],
         \A j \in I : lo2[j] = lo[j] /\ hi2[j] = hi[j],
         lo2[k0] = e, hi2[k0] = e + n - 1
  PROVE  Tiling(J, lo2, hi2, e + n)
<1>1. /\ e \in Nat \ {0} /\ lo \in [I -> Nat] /\ hi \in [I -> Nat]
      /\ \A k \in I : 1 <= lo[k] /\ lo[k] <= hi[k] /\ hi[k] < e
      /\ \A k, l \in I : k # l => hi[k] < lo[l] \/ hi[l] < lo[k]
      /\ \A p \in 1 .. e - 1 : \E k \in I : lo[k] <= p /\ p <= hi[k]
  BY DEF Tiling
<1>2. \A j \in J : j = k0 \/ j \in I
  OBVIOUS
<1>3. lo2 \in [J -> Nat] /\ hi2 \in [J -> Nat] /\ e + n \in Nat \ {0}
  BY <1>1, <1>2
<1>4. ASSUME NEW j \in J PROVE 1 <= lo2[j] /\ lo2[j] <= hi2[j] /\ hi2[j] < e + n
  <2>1. CASE j = k0
    BY <1>1, <2>1
  <2>2. CASE j \in I
    BY <1>1, <2>2
  <2> QED BY <2>1, <2>2
<1>5. ASSUME NEW j \in J, NEW k \in J, j # k PROVE hi2[j] < lo2[k] \/ hi2[k] < lo2[j]
  <2>1. CASE j = k0
    BY <1>1, <1>2, <1>5, <2>1
  <2>2. CASE k = k0
    BY <1>1, <1>2, <1>5, <2>2
  <2>3. CASE j \in I /\ k \in I
    BY <1>1, <1>5, <2>3
  <2> QED BY <2>1, <2>2, <2>3
<1>6. ASSUME NEW p \in 1 .. e + n - 1 PROVE \E k \in J : lo2[k] <= p /\ p <= hi2[k]
  <2>1. CASE p >= e
    BY <1>1, <2>1
  <2>2. CASE p < e
    <3>1. PICK i \in I : lo[i] <= p /\ p <= hi[i]
      BY <1>1, <2>2
    <3> QED BY <3>1
  <2> QED BY <1>1, <2>1, <2>2
<1> QED BY <1>3, <1>4, <1>5, <1>6 DEF Tiling

-----------------------------------------------------------------------------
(* What the operations do to index and cells.                              *)

(* The segments of an index one by one.                                    *)
LEMMA Segments ==
  ASSUME NEW m, MemOK(m)
  PROVE  /\ Lo(m) \in [Ids(m) -> Int] /\ Hi(m) \in [Ids(m) -> Int]
         /\ \A n \in DOMAIN m.files :
              /\ <<1, n>> \in Ids(m)
              /\ m.files[n].pos \in Nat /\ m.files[n].size \in Nat
              /\ m.files[n] = [pos |-> m.files[n].pos, size |-> m.files[n].size]
              /\ Lo(m)[<<1, n>>] = m.files[n].pos - 3
              /\ Hi(m)[<<1, n>>] = m.files[n].pos + m.files[n].size + 1
         /\ \A i \in 1 .. Len(m.empties) :
              /\ <<2, i>> \in Ids(m)
              /\ m.empties[i].pos \in Nat /\ m.empties[i].size \in Nat
              /\ m.empties[i] = [pos |-> m.empties[i].pos, size |-> m.empties[i].size]
              /\ Lo(m)[<<2, i>>] = m.empties[i].pos - 2
              /\ Hi(m)[<<2, i>>] = m.empties[i].pos + m.empties[i].size + 1
         /\ \A k \in Ids(m) : \/ k = <<1, k[2]>> /\ k[2] \in DOMAIN m.files
                              \/ k = <<2, k[2]>> /\ k[2] \in 1 .. Len(m.empties)
<1>1. \A x \in Piece : x.pos \in Nat /\ x.size \in Nat /\ x = [pos |-> x.pos, size |-> x.size]
  BY DEF Piece
<1>2. (\A n \in DOMAIN m.files : m.files[n] \in Piece) /\ \A i \in 1 .. Len(m.empties) : m.empties[i] \in Piece
  BY DEF MemOK
<1>3. \A k \in Ids(m) : \/ k = <<1, k[2]>> /\ k[2] \in DOMAIN m.files
                        \/ k = <<2, k[2]>> /\ k[2] \in 1 .. Len(m.empties)
  BY DEF Ids
<1>4. (\A n \in DOMAIN m.files : <<1, n>> \in Ids(m)) /\ \A i \in 1 .. Len(m.empties) : <<2, i>> \in Ids(m)
  BY DEF Ids
<1>5. /\ \A n \in DOMAIN m.files : /\ Lo(m)[<<1, n>>] = m.files[n].pos - 3
                                   /\ Hi(m)[<<1, n>>] = m.files[n].pos + m.files[n].size + 1
      /\ \A i \in 1 .. Len(m.empties) : /\ Lo(m)[<<2, i>>] = m.empties[i].pos - 2
                                        /\ Hi(m)[<<2, i>>] = m.empties[i].pos + m.empties[i].size + 1
  BY <1>4 DEF Lo, Hi
<1>6. \A k \in Ids(m) : Lo(m)[k] \in Int /\ Hi(m)[k] \in Int
  <2> SUFFICES ASSUME NEW k \in Ids(m) PROVE Lo(m)[k] \in Int /\ Hi(m)[k] \in Int
    OBVIOUS
  <2>1. CASE k = <<1, k[2]>> /\ k[2] \in DOMAIN m.files
    <3>1. m.files[k[2]].pos \in Nat /\ m.files[k[2]].size \in Nat
      BY <1>1, <1>2, <2>1
    <3>2. Lo(m)[k] = m.files[k[2]].pos - 3 /\ Hi(m)[k] = m.files[k[2]].pos + m.files[k[2]].size + 1
      BY <1>5, <2>1
    <3> QED BY <3>1, <3>2
  <2>2. CASE k = <<2, k[2]>> /\ k[2] \in 1 .. Len(m.empties)
    <3>1. m.empties[k[2]].pos \in Nat /\ m.empties[k[2]].size \in Nat
      BY <1>1, <1>2, <2>2
    <3>2. Lo(m)[k] = m.empties[k[2]].pos - 2 /\ Hi(m)[k] = m.empties[k[2]].pos + m.empties[k[2]].size + 1
      BY <1>5, <2>2
    <3> QED BY <3>1, <3>2
  <2> QED BY <1>3, <2>1, <2>2
<1>7. Lo(m) \in [Ids(m) -> Int] /\ Hi(m) \in [Ids(m) -> Int]
  BY <1>6 DEF Lo, Hi
<1> QED BY <1>1, <1>2, <1>3, <1>4, <1>5, <1>7

(* What is written beside a segment leaves it alone.                       *)
LEMMA Beside ==
  ASSUME NEW m, NEW c, Described(m, c), NEW at \in Nat \ {0}, NEW new, IsList(new),
         NEW o, o = Overwritten(c, at, new),
         NEW k \in Ids(m), Hi(m)[k] < at \/ Lo(m)[k] > at + Len(new) - 1
  PROVE  \A i \in Lo(m)[k] .. Hi(m)[k] : o[i] = c[i]
<1> DEFINE l == Lo(m)[k]
           h == Hi(m)[k]
<1>1. IsList(c) /\ m.eoa <= Len(c) + 1 /\ Tiling(Ids(m), Lo(m), Hi(m), m.eoa)
  BY DEF Described
<1>2. l \in Nat /\ h \in Nat /\ 1 <= l /\ l <= h /\ h < m.eoa /\ m.eoa \in Nat
  BY <1>1 DEF Tiling
<1>3. \A i \in 1 .. Len(c) : i < at \/ i > at + Len(new) - 1 => o[i] = c[i]
  BY <1>1, OverwrittenCells
<1>4. Len(c) \in Nat /\ Len(new) \in Nat
  BY <1>1 DEF IsList
<1>5. h < at \/ l > at + Len(new) - 1
  OBVIOUS
<1> HIDE DEF l, h
<1>6. \A i \in l .. h : o[i] = c[i]
  BY <1>1, <1>2, <1>3, <1>4, <1>5
<1> QED BY <1>6 DEF l, h

(* So do the other segments stay when something is written inside of one,  *)
(* and all of them when it is written behind the archive's end.            *)
LEMMA WrittenInside ==
  ASSUME NEW m, NEW c, Described(m, c), NEW at \in Nat \ {0}, NEW new, IsList(new),
         NEW o, o = Overwritten(c, at, new),
         NEW k0 \in Ids(m), Lo(m)[k0] <= at, at + Len(new) - 1 <= Hi(m)[k0]
  PROVE  /\ IsList(o) /\ Len(o) \in Nat /\ Len(o) >= Len(c)
         /\ \A k \in Ids(m) : k # k0 => \A i \in Lo(m)[k] .. Hi(m)[k] : o[i] = c[i]
<1>1. IsList(c) /\ Tiling(Ids(m), Lo(m), Hi(m), m.eoa)
  BY DEF Described
<1>2. IsList(o) /\ Len(o) \in Nat /\ Len(o) >= Len(c)
  BY <1>1, OverwrittenCells
<1>3. ASSUME NEW k \in Ids(m), k # k0 PROVE \A i \in Lo(m)[k] .. Hi(m)[k] : o[i] = c[i]
  <2>1. Hi(m)[k] < at \/ Lo(m)[k] > at + Len(new) - 1
    <3>1. Hi(m)[k] < Lo(m)[k0] \/ Hi(m)[k0] < Lo(m)[k]
      BY <1>1, <1>3 DEF Tiling
    <3>2. /\ Lo(m)[k] \in Nat /\ Hi(m)[k] \in Nat /\ Lo(m)[k0] \in Nat /\ Hi(m)[k0] \in Nat
      BY <1>1 DEF Tiling
    <3>3. Len(new) \in Nat
      BY DEF IsList
    <3> QED BY <3>1, <3>2, <3>3
  <2> QED BY <2>1, Beside
<1> QED BY <1>2, <1>3

(* What is written at or behind endOfArchive_ leaves all segments alone.   *)
LEMMA WrittenBehind ==
  ASSUME NEW m, NEW c, Described(m, c), NEW at \in Nat \ {0}, NEW new, IsList(new),
         NEW o, o = Overwritten(c, at, new), at >= m.eoa
  PROVE  /\ IsList(o) /\ Len(o) \in Nat /\ Len(o) >= Len(c)
         /\ \A k \in Ids(m) : \A i \in Lo(m)[k] .. Hi(m)[k] : o[i] = c[i]
<1>1. IsList(c) /\ Tiling(Ids(m), Lo(m), Hi(m), m.eoa)
  BY DEF Described
<1>2. IsList(o) /\ Len(o) \in Nat /\ Len(o) >= Len(c)
  BY <1>1, OverwrittenCells
<1>3. ASSUME NEW k \in Ids(m) PROVE \A i \in Lo(m)[k] .. Hi(m)[k] : o[i] = c[i]
  <2>1. Hi(m)[k] < at
    BY <1>1 DEF Tiling
  <2> QED BY <2>1, Beside
<1> QED BY <1>2, <1>3

(* From index m and cells c to index w and cells o, every file but n is    *)
(* kept, with its data.                                                    *)
Kept(m, c, w, o, n) ==
  /\ DOMAIN w.files \ {n} = DOMAIN m.files \ {n}
  /\ \A x \in DOMAIN m.files \ {n} :
       /\ w.files[x] = m.files[x]
       /\ \A i \in m.files[x].pos + 1 .. m.files[x].pos + m.files[x].size : o[i] = c[i]

(* remove() of the last file: the archive ends before it.                  *)
Gone(m, n) == [m EXCEPT !.files = [x \in DOMAIN m.files \ {n} |-> m.files[x]], !.changed = TRUE]
CutOff(m, n) == [Gone(m, n) EXCEPT !.eoa = m.files[n].pos - 3]

(* remove() of the last segment: the index without the file describes the  *)
(* cells, which have not changed, and every other file is kept.            *)
LEMMA CutOffDescribes ==
  ASSUME NEW m, NEW c, Described(m, c), NEW n \in DOMAIN m.files,
         m.files[n].pos + m.files[n].size + 2 = m.eoa, NEW w, w = CutOff(m, n)
  PROVE  Described(w, c) /\ Kept(m, c, w, c, n) /\ n \notin DOMAIN w.files /\ w.changed
<1>1. /\ MemOK(m) /\ IsList(c) /\ m.eoa <= Len(c) + 1
      /\ Tiling(Ids(m), Lo(m), Hi(m), m.eoa)
      /\ \A k \in Ids(m) : c[Lo(m)[k]] = Start /\ c[Hi(m)[k]] = End
  BY DEF Described
<1>2. /\ m = [files |-> m.files, empties |-> m.empties, eoa |-> m.eoa, changed |-> m.changed]
      /\ DOMAIN m.files \subseteq Name /\ IsFiniteSet(DOMAIN m.files)
      /\ m.files \in [DOMAIN m.files -> Piece] /\ m.empties \in Seq(Piece) /\ m.eoa \in Nat \ {0}
  BY <1>1 DEF MemOK
<1>3. /\ w.files = [x \in DOMAIN m.files \ {n} |-> m.files[x]] /\ w.empties = m.empties
      /\ w.eoa = m.files[n].pos - 3 /\ w.changed = TRUE
      /\ w = [files |-> w.files, empties |-> w.empties, eoa |-> w.eoa, changed |-> w.changed]
  BY <1>2 DEF CutOff, Gone
<1>4. /\ <<1, n>> \in Ids(m) /\ Lo(m)[<<1, n>>] = m.files[n].pos - 3 /\ Hi(m)[<<1, n>>] = m.eoa - 1
      /\ m.files[n].pos \in Nat /\ m.files[n].size \in Nat
  <2>1. /\ <<1, n>> \in Ids(m) /\ Lo(m)[<<1, n>>] = m.files[n].pos - 3
        /\ Hi(m)[<<1, n>>] = m.files[n].pos + m.files[n].size + 1
        /\ m.files[n].pos \in Nat /\ m.files[n].size \in Nat
    BY <1>1, Segments
  <2> QED BY <1>2, <2>1
<1>5. 1 <= Lo(m)[<<1, n>>] /\ Lo(m)[<<1, n>>] <= Hi(m)[<<1, n>>] /\ Lo(m)[<<1, n>>] \in Nat
  BY <1>1, <1>4 DEF Tiling
<1>6. MemOK(w)
  <2>1. DOMAIN w.files = DOMAIN m.files \ {n} /\ IsFiniteSet(DOMAIN m.files \ {n})
    BY <1>2, <1>3, FS_RemoveElement
  <2>2. w.files \in [DOMAIN w.files -> Piece] /\ w.empties \in Seq(Piece)
    BY <1>2, <1>3
  <2>3. w.eoa \in Nat \ {0} /\ w.changed \in BOOLEAN
    <3>1. w.eoa = Lo(m)[<<1, n>>]
      BY <1>3, <1>4
    <3>2. w.eoa \in Nat \ {0}
      BY <1>5, <3>1
    <3>3. w.changed \in BOOLEAN
      BY <1>3
    <3> QED BY <3>2, <3>3
  <2> QED BY <1>2, <1>3, <2>1, <2>2, <2>3 DEF MemOK
<1>7. Ids(w) = Ids(m) \ {<<1, n>>}
  <2>1. DOMAIN w.files = DOMAIN m.files \ {n} /\ w.empties = m.empties
    BY <1>3
  <2> QED BY <2>1 DEF Ids
<1>8. \A k \in Ids(w) : Lo(w)[k] = Lo(m)[k] /\ Hi(w)[k] = Hi(m)[k]
  <2> SUFFICES ASSUME NEW k \in Ids(w) PROVE Lo(w)[k] = Lo(m)[k] /\ Hi(w)[k] = Hi(m)[k]
    OBVIOUS
  <2>1. k \in Ids(m)
    BY <1>7
  <2>2. CASE k = <<1, k[2]>> /\ k[2] \in DOMAIN w.files
    <3>1. w.files[k[2]] = m.files[k[2]]
      BY <1>3, <2>2
    <3> QED BY <2>1, <2>2, <3>1 DEF Lo, Hi
  <2>3. CASE k = <<2, k[2]>> /\ k[2] \in 1 .. Len(w.empties)
    BY <1>3, <2>1, <2>3 DEF Lo, Hi
  <2> QED BY <1>6, <2>2, <2>3, Segments
<1>9. Tiling(Ids(w), Lo(w), Hi(w), w.eoa)
  <2>1. Lo(w) \in [Ids(w) -> Int] /\ Hi(w) \in [Ids(w) -> Int]
    BY <1>6, Segments
  <2> DEFINE I == Ids(m)
             lo == Lo(m)
             hi == Hi(m)
             J == Ids(w)
             lo2 == Lo(w)
             hi2 == Hi(w)
             k0 == <<1, n>>
  <2>2. /\ Tiling(I, lo, hi, m.eoa) /\ k0 \in I /\ hi[k0] = m.eoa - 1 /\ J = I \ {k0}
        /\ lo2 \in [J -> Int] /\ hi2 \in [J -> Int]
        /\ \A j \in J : lo2[j] = lo[j] /\ hi2[j] = hi[j]
    BY <1>1, <1>4, <1>7, <1>8, <2>1
  <2> HIDE DEF I, lo, hi, J, lo2, hi2, k0
  <2>3. Tiling(J, lo2, hi2, lo[k0])
    BY <2>2, Shrunk
  <2>4. Tiling(Ids(w), Lo(w), Hi(w), Lo(m)[<<1, n>>])
    BY <2>3 DEF J, lo, lo2, hi2, k0
  <2> QED BY <1>3, <1>4, <2>4
<1>10. w.eoa <= Len(c) + 1
  BY <1>1, <1>2, <1>3, <1>4, <1>5 DEF IsList
<1>11. Described(w, c)
  BY <1>1, <1>6, <1>7, <1>8, <1>9, <1>10 DEF Described
<1>12. Kept(m, c, w, c, n) /\ n \notin DOMAIN w.files
  BY <1>3 DEF Kept
<1> QED BY <1>3, <1>11, <1>12

(* remove() of another file: it is marked as an empty segment.             *)
Marked(m, n) ==
  [Gone(m, n) EXCEPT !.empties = Append(@, [pos |-> m.files[n].pos - 1, size |-> m.files[n].size + 1])]

(* remove() of another segment: with a name of length zero and the new size *)
(* written over the old ones, the index with one more empty segment describes *)
(* the cells, and every other file is kept.                                *)
LEMMA MarkedDescribes ==
  ASSUME NEW m, NEW c, Described(m, c), NEW n \in DOMAIN m.files, NEW w, w = Marked(m, n),
         NEW o, o = Overwritten(c, m.files[n].pos - 2, <<Len1(0), Size(m.files[n].size + 1)>>)
  PROVE  /\ Described(w, o) /\ Kept(m, c, w, o, n) /\ n \notin DOMAIN w.files /\ w.changed
         /\ m.files[n].pos - 2 \in Nat \ {0}
<1> DEFINE p == m.files[n].pos
           s == m.files[n].size
           E == Len(m.empties)
           new == <<Len1(0), Size(s + 1)>>
           k0 == <<1, n>>
           k1 == <<2, E + 1>>
<1>1. /\ MemOK(m) /\ IsList(c) /\ m.eoa <= Len(c) + 1
      /\ Tiling(Ids(m), Lo(m), Hi(m), m.eoa)
      /\ \A k \in Ids(m) : c[Lo(m)[k]] = Start /\ c[Hi(m)[k]] = End
  BY DEF Described
<1>2. /\ m = [files |-> m.files, empties |-> m.empties, eoa |-> m.eoa, changed |-> m.changed]
      /\ DOMAIN m.files \subseteq Name /\ IsFiniteSet(DOMAIN m.files)
      /\ m.files \in [DOMAIN m.files -> Piece] /\ m.empties \in Seq(Piece) /\ m.eoa \in Nat \ {0}
  BY <1>1 DEF MemOK
<1>3. /\ k0 \in Ids(m) /\ Lo(m)[k0] = p - 3 /\ Hi(m)[k0] = p + s + 1 /\ p \in Nat /\ s \in Nat
  BY <1>1, Segments
<1>4. 1 <= Lo(m)[k0] /\ Lo(m)[k0] <= Hi(m)[k0] /\ Lo(m)[k0] \in Nat /\ Hi(m)[k0] < m.eoa
  BY <1>1, <1>3 DEF Tiling
<1>5. p - 3 \in Nat \ {0} /\ p - 2 \in Nat \ {0} /\ p - 1 \in Nat
  <2> HIDE DEF p
  <2> QED BY <1>3, <1>4
<1> DEFINE x1 == [pos |-> p - 1, size |-> s + 1]
<1>6. x1 \in Piece /\ x1.pos = p - 1 /\ x1.size = s + 1
  <2> HIDE DEF p, s
  <2> QED BY <1>3, <1>5 DEF Piece
<1>7. /\ w.files = [x \in DOMAIN m.files \ {n} |-> m.files[x]] /\ w.empties = Append(m.empties, x1)
      /\ w.eoa = m.eoa /\ w.changed = TRUE
      /\ w = [files |-> w.files, empties |-> w.empties, eoa |-> w.eoa, changed |-> w.changed]
  BY <1>2 DEF Marked, Gone
<1> HIDE DEF x1
<1>8. /\ w.empties \in Seq(Piece) /\ Len(w.empties) = E + 1 /\ E \in Nat
      /\ \A i \in 1 .. E : w.empties[i] = m.empties[i]
      /\ w.empties[E + 1] = x1
  <2>1. /\ Append(m.empties, x1) \in Seq(Piece) /\ Len(Append(m.empties, x1)) = Len(m.empties) + 1
        /\ \A i \in 1 .. Len(m.empties) : Append(m.empties, x1)[i] = m.empties[i]
        /\ Append(m.empties, x1)[Len(m.empties) + 1] = x1
    BY <1>2, <1>6, AppendProperties
  <2>2. Len(m.empties) \in Nat
    BY <1>2
  <2> QED BY <1>7, <2>1, <2>2
<1> HIDE DEF E
<1>9. MemOK(w)
  <2>1. DOMAIN w.files = DOMAIN m.files \ {n} /\ IsFiniteSet(DOMAIN m.files \ {n})
    BY <1>2, <1>7, FS_RemoveElement
  <2>2. w.files \in [DOMAIN w.files -> Piece]
    BY <1>2, <1>7
  <2>3. w.changed \in BOOLEAN
    BY <1>7
  <2> QED BY <1>2, <1>7, <1>8, <2>1, <2>2, <2>3 DEF MemOK
<1> DEFINE g == [k \in Ids(w) |-> IF k = k1 THEN k0 ELSE k]
<1>10. \A k \in Ids(w) : k = k1 \/ (k \in Ids(m) /\ k # k0)
  <2> SUFFICES ASSUME NEW k \in Ids(w) PROVE k = k1 \/ (k \in Ids(m) /\ k # k0)
    OBVIOUS
  <2>1. CASE k = <<1, k[2]>> /\ k[2] \in DOMAIN w.files
    <3>1. k[2] \in DOMAIN m.files /\ k[2] # n
      BY <1>7, <2>1
    <3>2. <<1, k[2]>> \in Ids(m)
      BY <1>1, <3>1, Segments
    <3>3. k # k0
      BY <3>1
    <3> QED BY <2>1, <3>2, <3>3
  <2>2. CASE k = <<2, k[2]>> /\ k[2] \in 1 .. E + 1
    <3>1. CASE k[2] = E + 1
      BY <2>2, <3>1
    <3>2. CASE k[2] \in 1 .. E
      <4>1. <<2, k[2]>> \in Ids(m)
        BY <1>1, <3>2, Segments DEF E
      <4> QED BY <2>2, <4>1
    <3> QED BY <1>8, <2>2, <3>1, <3>2
  <2> QED BY <1>8, <1>9, <2>1, <2>2, Segments
<1>11. \A k \in Ids(m) : k # k0 => k \in Ids(w) /\ k # k1
  <2> SUFFICES ASSUME NEW k \in Ids(m), k # k0 PROVE k \in Ids(w) /\ k # k1
    OBVIOUS
  <2>1. CASE k = <<1, k[2]>> /\ k[2] \in DOMAIN m.files
    <3>1. k[2] \in DOMAIN w.files
      BY <1>7, <2>1
    <3>2. <<1, k[2]>> \in Ids(w)
      BY <1>9, <3>1, Segments
    <3>3. k # k1
      BY <2>1
    <3> QED BY <2>1, <3>2, <3>3
  <2>2. CASE k = <<2, k[2]>> /\ k[2] \in 1 .. E
    <3>1. k[2] \in 1 .. Len(w.empties) /\ k[2] # E + 1
      BY <1>8, <2>2
    <3>2. <<2, k[2]>> \in Ids(w)
      BY <1>9, <3>1, Segments
    <3>3. k # k1
      BY <3>1
    <3> QED BY <2>2, <3>2, <3>3
  <2> QED BY <1>1, <2>1, <2>2, Segments DEF E
<1>12. k1 \in Ids(w) /\ Lo(w)[k1] = p - 3 /\ Hi(w)[k1] = p + s + 1
  <2>1. E + 1 \in 1 .. Len(w.empties)
    BY <1>8
  <2>2. k1 \in Ids(w) /\ Lo(w)[k1] = w.empties[E + 1].pos - 2
        /\ Hi(w)[k1] = w.empties[E + 1].pos + w.empties[E + 1].size + 1
    BY <1>9, <2>1, Segments
  <2>3. (p - 1) - 2 = p - 3 /\ (p - 1) + (s + 1) + 1 = p + s + 1
    <3> HIDE DEF p, s
    <3> QED BY <1>3
  <2> QED BY <1>6, <1>8, <2>2, <2>3
<1>13. \A k \in Ids(w) : k # k1 => Lo(w)[k] = Lo(m)[k] /\ Hi(w)[k] = Hi(m)[k]
  <2> SUFFICES ASSUME NEW k \in Ids(w), k # k1 PROVE Lo(w)[k] = Lo(m)[k] /\ Hi(w)[k] = Hi(m)[k]
    OBVIOUS
  <2>1. k \in Ids(m)
    BY <1>10
  <2>2. CASE k = <<1, k[2]>> /\ k[2] \in DOMAIN w.files
    <3>1. w.files[k[2]] = m.files[k[2]]
      BY <1>7, <2>2
    <3> QED BY <2>1, <2>2, <3>1 DEF Lo, Hi
  <2>3. CASE k = <<2, k[2]>> /\ k[2] \in 1 .. Len(w.empties)
    <3>1. k[2] \in 1 .. E
      BY <1>8, <2>3
    <3>2. w.empties[k[2]] = m.empties[k[2]]
      BY <1>8, <3>1
    <3> QED BY <2>1, <2>3, <3>2 DEF Lo, Hi
  <2> QED BY <1>9, <2>2, <2>3, Segments
<1> HIDE DEF k0, k1
<1>14. Tiling(Ids(w), Lo(w), Hi(w), w.eoa)
  <2> DEFINE I == Ids(m)
             lo == Lo(m)
             hi == Hi(m)
             J == Ids(w)
             lo2 == Lo(w)
             hi2 == Hi(w)
  <2>1. Tiling(I, lo, hi, m.eoa) /\ lo2 \in [J -> Int] /\ hi2 \in [J -> Int]
    BY <1>1, <1>9, Segments
  <2>2. g \in [J -> I] /\ \A j, k \in J : g[j] = g[k] => j = k
    BY <1>3, <1>10
  <2>3. ASSUME NEW i \in I PROVE \E j \in J : g[j] = i
    <3>1. CASE i = k0
      BY <1>12, <3>1
    <3>2. CASE i # k0
      BY <1>11, <3>2
    <3> QED BY <3>1, <3>2
  <2>4. \A j \in J : lo2[j] = lo[g[j]] /\ hi2[j] = hi[g[j]]
    BY <1>3, <1>12, <1>13
  <2> HIDE DEF I, lo, hi, J, lo2, hi2, g
  <2>6. NamesOf(I, lo, hi, J, lo2, hi2, g)
    BY <2>1, <2>2, <2>3, <2>4 DEF NamesOf
  <2>5. Tiling(J, lo2, hi2, m.eoa)
    BY <2>1, <2>6, Renamed
  <2> QED BY <1>7, <2>5 DEF J, lo2, hi2
<1>15. /\ IsList(new) /\ Len(new) = 2
  BY DEF IsList
<1> HIDE DEF new
<1>16. Lo(m)[k0] <= p - 2 /\ (p - 2) + Len(new) - 1 <= Hi(m)[k0]
  <2> HIDE DEF p, s
  <2> QED BY <1>3, <1>15
<1>17. /\ IsList(o) /\ Len(o) \in Nat /\ Len(o) >= Len(c)
       /\ \A k \in Ids(m) : k # k0 => \A i \in Lo(m)[k] .. Hi(m)[k] : o[i] = c[i]
       /\ \A i \in 1 .. Len(c) : i < p - 2 \/ i > (p - 2) + Len(new) - 1 => o[i] = c[i]
  <2>1. o = Overwritten(c, p - 2, new)
    BY DEF new
  <2> DEFINE at == p - 2
  <2>2. /\ at \in Nat \ {0} /\ o = Overwritten(c, at, new) /\ IsList(new)
        /\ k0 \in Ids(m) /\ Lo(m)[k0] <= at /\ at + Len(new) - 1 <= Hi(m)[k0]
    BY <1>3, <1>5, <1>15, <1>16, <2>1
  <2> HIDE DEF at
  <2>3. IsList(o) /\ Len(o) \in Nat /\ Len(o) >= Len(c)
    BY <2>2, WrittenInside
  <2>4. \A k \in Ids(m) : k # k0 => \A i \in Lo(m)[k] .. Hi(m)[k] : o[i] = c[i]
    BY <2>2, WrittenInside
  <2>5. \A i \in 1 .. Len(c) : i < at \/ i > at + Len(new) - 1 => o[i] = c[i]
    BY <1>1, <2>2, OverwrittenCells
  <2> QED BY <2>3, <2>4, <2>5 DEF at
<1>18. o[p - 3] = Start /\ o[p + s + 1] = End
  <2>1. c[p - 3] = Start /\ c[p + s + 1] = End
    BY <1>1, <1>3
  <2>2. Len(c) \in Nat
    BY <1>1 DEF IsList
  <2>3. p - 3 \in 1 .. Len(c) /\ p - 3 < p - 2
        /\ p + s + 1 \in 1 .. Len(c) /\ p + s + 1 > (p - 2) + Len(new) - 1
    <3> HIDE DEF p, s
    <3> QED BY <1>1, <1>2, <1>3, <1>4, <1>5, <1>15, <2>2
  <2> QED BY <1>17, <2>1, <2>3
<1>19. \A k \in Ids(w) : o[Lo(w)[k]] = Start /\ o[Hi(w)[k]] = End
  <2> SUFFICES ASSUME NEW k \in Ids(w) PROVE o[Lo(w)[k]] = Start /\ o[Hi(w)[k]] = End
    OBVIOUS
  <2>1. CASE k = k1
    BY <1>12, <1>18, <2>1
  <2>2. CASE k # k1
    <3>1. k \in Ids(m) /\ k # k0 /\ Lo(w)[k] = Lo(m)[k] /\ Hi(w)[k] = Hi(m)[k]
      BY <1>10, <1>13, <2>2
    <3>2. Lo(m)[k] \in Nat /\ Hi(m)[k] \in Nat /\ Lo(m)[k] <= Hi(m)[k]
      BY <1>1, <3>1 DEF Tiling
    <3>3. o[Lo(m)[k]] = c[Lo(m)[k]] /\ o[Hi(m)[k]] = c[Hi(m)[k]]
      BY <1>17, <3>1, <3>2
    <3> QED BY <1>1, <3>1, <3>3
  <2> QED BY <2>1, <2>2
<1>20. w.eoa <= Len(o) + 1
  BY <1>1, <1>2, <1>7, <1>17 DEF IsList
<1>21. Described(w, o)
  BY <1>9, <1>14, <1>17, <1>19, <1>20 DEF Described
<1>22. Kept(m, c, w, o, n)
  <2>1. DOMAIN w.files \ {n} = DOMAIN m.files \ {n} /\ \A x \in DOMAIN m.files \ {n} : w.files[x] = m.files[x]
    BY <1>7
  <2>2. ASSUME NEW x \in DOMAIN m.files \ {n}, NEW i \in m.files[x].pos + 1 .. m.files[x].pos + m.files[x].size
        PROVE  o[i] = c[i]
    <3>1. /\ <<1, x>> \in Ids(m) /\ m.files[x].pos \in Nat /\ m.files[x].size \in Nat
          /\ Lo(m)[<<1, x>>] = m.files[x].pos - 3 /\ Hi(m)[<<1, x>>] = m.files[x].pos + m.files[x].size + 1
      BY <1>1, Segments
    <3>2. i \in Lo(m)[<<1, x>>] .. Hi(m)[<<1, x>>]
      BY <2>2, <3>1
    <3>3. <<1, x>> # k0
      BY DEF k0
    <3> QED BY <1>17, <3>1, <3>2, <3>3
  <2> QED BY <2>1, <2>2 DEF Kept
<1> QED BY <1>5, <1>7, <1>21, <1>22

(* A file's data lie in its segment.                                       *)
LEMMA SpanKept ==
  ASSUME NEW m, MemOK(m), NEW x \in DOMAIN m.files, NEW c, NEW o,
         \A i \in Lo(m)[<<1, x>>] .. Hi(m)[<<1, x>>] : o[i] = c[i]
  PROVE  \A i \in m.files[x].pos + 1 .. m.files[x].pos + m.files[x].size : o[i] = c[i]
<1> DEFINE p == m.files[x].pos
           s == m.files[x].size
<1>1. p \in Nat /\ s \in Nat /\ Lo(m)[<<1, x>>] = p - 3 /\ Hi(m)[<<1, x>>] = p + s + 1
  BY Segments
<1>2. \A i \in p - 3 .. p + s + 1 : o[i] = c[i]
  BY <1>1
<1> HIDE DEF p, s
<1>3. \A i \in p + 1 .. p + s : i \in p - 3 .. p + s + 1
  BY <1>1
<1>4. \A i \in p + 1 .. p + s : o[i] = c[i]
  BY <1>2, <1>3
<1> QED BY <1>4 DEF p, s

(* The cells of a file.                                                    *)
FileCells(n, v, s) == <<Start, Len1(1), Str(n), Size(s)>> \o Payload(v, s) \o <<End>>

(* The cells of a file: its tags at both ends, and its data between.       *)
LEMMA FileCellsAre ==
  ASSUME NEW n, NEW v, NEW s \in Nat, NEW new, new = FileCells(n, v, s)
  PROVE  /\ IsList(new) /\ Len(new) = s + 5
         /\ new[1] = Start /\ new[2] = Len1(1) /\ new[3] = Str(n) /\ new[4] = Size(s) /\ new[s + 5] = End
         /\ \A i \in 1 .. s : new[4 + i] = Data(v)
<1> DEFINE a == <<Start, Len1(1), Str(n), Size(s)>>
           b == Payload(v, s)
           z == <<End>>
           u == a \o b
<1>1. IsList(a) /\ Len(a) = 4 /\ a[1] = Start /\ a[2] = Len1(1) /\ a[3] = Str(n) /\ a[4] = Size(s)
  BY DEF IsList
<1>2. IsList(b) /\ Len(b) = s /\ \A i \in 1 .. s : b[i] = Data(v)
  BY DEF IsList, Payload
<1>3. IsList(z) /\ Len(z) = 1 /\ z[1] = End
  BY DEF IsList
<1>4. new = u \o z
  BY DEF FileCells
<1> HIDE DEF a, b, z
<1>a. IsList(a) /\ IsList(b) /\ IsList(z)
  BY <1>1, <1>2, <1>3
<1>b. u = a \o b
  OBVIOUS
<1>5. /\ IsList(a \o b) /\ Len(a \o b) = Len(a) + Len(b)
      /\ \A i \in 1 .. Len(a) : (a \o b)[i] = a[i]
      /\ \A i \in 1 .. Len(b) : (a \o b)[Len(a) + i] = b[i]
  BY <1>a, ConcatCells
<1> HIDE DEF u
<1>c. IsList(u)
  BY <1>b, <1>5
<1>6. /\ IsList(u \o z) /\ Len(u \o z) = Len(u) + Len(z)
      /\ \A i \in 1 .. Len(u) : (u \o z)[i] = u[i]
      /\ \A i \in 1 .. Len(z) : (u \o z)[Len(u) + i] = z[i]
  BY <1>a, <1>c, ConcatCells
<1>7. /\ Len(u) = s + 4 /\ \A i \in 1 .. s : u[4 + i] = Data(v)
      /\ u[1] = Start /\ u[2] = Len1(1) /\ u[3] = Str(n) /\ u[4] = Size(s)
  <2>1. Len(u) = 4 + s /\ 1 \in 1 .. Len(a) /\ 2 \in 1 .. Len(a) /\ 3 \in 1 .. Len(a) /\ 4 \in 1 .. Len(a)
    BY <1>1, <1>2, <1>5, <1>b
  <2>2. u[1] = Start /\ u[2] = Len1(1) /\ u[3] = Str(n) /\ u[4] = Size(s)
    BY <1>1, <1>5, <1>b, <2>1
  <2>3. \A i \in 1 .. s : u[4 + i] = Data(v)
    BY <1>1, <1>2, <1>5, <1>b
  <2> QED BY <2>1, <2>2, <2>3
<1>8. Len(new) = s + 5 /\ new[1] = Start /\ new[2] = Len1(1) /\ new[3] = Str(n) /\ new[4] = Size(s)
  BY <1>3, <1>4, <1>6, <1>7
<1>9. new[s + 5] = End
  <2>1. new[Len(u) + 1] = z[1]
    BY <1>3, <1>4, <1>6
  <2>2. (s + 4) + 1 = s + 5
    OBVIOUS
  <2> QED BY <1>3, <1>7, <2>1, <2>2
<1>10. \A i \in 1 .. s : new[4 + i] = Data(v)
  <2>1. \A i \in 1 .. s : 4 + i \in 1 .. Len(u)
    BY <1>7
  <2> QED BY <1>4, <1>6, <1>7, <2>1
<1> QED BY <1>4, <1>6, <1>8, <1>9, <1>10

(* The archive w with the cells o holds the file n with s cells of data v.  *)
Holds(w, o, n, v, s) ==
  /\ n \in DOMAIN w.files /\ w.files[n].size = s
  /\ \A i \in w.files[n].pos + 1 .. w.files[n].pos + w.files[n].size : o[i] = Data(v)

(* write() at the end of the archive.                                      *)
AtEnd(m, n, s) ==
  [m EXCEPT !.files = AddFile(@, n, m.eoa + 3, s), !.changed = TRUE, !.eoa = @ + s + 5]

(* write() at endOfArchive_: the index with the file describes the cells, the *)
(* file's data are there and every other file is kept.                     *)
LEMMA AtEndDescribes ==
  ASSUME NEW m, NEW c, Described(m, c), NEW n \in Name, n \notin DOMAIN m.files,
         NEW v, NEW s \in Nat, NEW w, w = AtEnd(m, n, s),
         NEW o, o = Overwritten(c, m.eoa, FileCells(n, v, s))
  PROVE  /\ Described(w, o) /\ Kept(m, c, w, o, n) /\ Holds(w, o, n, v, s) /\ w.changed
         /\ m.eoa \in Nat \ {0}
<1> DEFINE new == FileCells(n, v, s)
           k0 == <<1, n>>
           e == m.eoa
<1>1. /\ MemOK(m) /\ IsList(c) /\ m.eoa <= Len(c) + 1
      /\ Tiling(Ids(m), Lo(m), Hi(m), m.eoa)
      /\ \A k \in Ids(m) : c[Lo(m)[k]] = Start /\ c[Hi(m)[k]] = End
  BY DEF Described
<1>2. /\ m = [files |-> m.files, empties |-> m.empties, eoa |-> m.eoa, changed |-> m.changed]
      /\ DOMAIN m.files \subseteq Name /\ IsFiniteSet(DOMAIN m.files)
      /\ m.files \in [DOMAIN m.files -> Piece] /\ m.empties \in Seq(Piece) /\ e \in Nat \ {0}
  BY <1>1 DEF MemOK
<1> DEFINE x1 == [pos |-> e + 3, size |-> s]
<1>3. /\ w.files = [x \in DOMAIN m.files \cup {n} |-> IF x = n THEN x1 ELSE m.files[x]]
      /\ w.empties = m.empties /\ w.eoa = e + s + 5 /\ w.changed = TRUE
      /\ w = [files |-> w.files, empties |-> w.empties, eoa |-> w.eoa, changed |-> w.changed]
  BY <1>2 DEF AtEnd, AddFile
<1> HIDE DEF e
<1>4. x1 \in Piece /\ x1.pos = e + 3 /\ x1.size = s
  BY <1>2 DEF Piece
<1> HIDE DEF x1
<1>5. /\ DOMAIN w.files = DOMAIN m.files \cup {n} /\ w.files[n] = x1
      /\ \A x \in DOMAIN m.files : w.files[x] = m.files[x]
  BY <1>3
<1>6. MemOK(w)
  <2>1. IsFiniteSet(DOMAIN w.files)
    BY <1>2, <1>5, FS_AddElement
  <2>2. w.files \in [DOMAIN w.files -> Piece]
    BY <1>2, <1>3, <1>4
  <2>3. w.eoa \in Nat \ {0}
    BY <1>2, <1>3
  <2>4. w.changed \in BOOLEAN
    BY <1>3
  <2> QED BY <1>2, <1>3, <1>5, <2>1, <2>2, <2>3, <2>4 DEF MemOK
<1>7. Ids(w) = Ids(m) \cup {k0} /\ k0 \notin Ids(m)
  BY <1>3, <1>5 DEF Ids
<1>8. k0 \in Ids(w) /\ Lo(w)[k0] = e /\ Hi(w)[k0] = e + (s + 5) - 1
  <2>1. n \in DOMAIN w.files /\ w.files[n] = x1
    BY <1>5
  <2>3. k0 \in Ids(w) /\ Lo(w)[k0] = w.files[n].pos - 3 /\ Hi(w)[k0] = w.files[n].pos + w.files[n].size + 1
    BY <1>6, <2>1, Segments, ZenonT(60)
  <2>2. (e + 3) - 3 = e /\ (e + 3) + s + 1 = e + (s + 5) - 1
    BY <1>2
  <2> QED BY <1>4, <2>1, <2>2, <2>3
<1>9. \A k \in Ids(m) : Lo(w)[k] = Lo(m)[k] /\ Hi(w)[k] = Hi(m)[k]
  <2> SUFFICES ASSUME NEW k \in Ids(m) PROVE Lo(w)[k] = Lo(m)[k] /\ Hi(w)[k] = Hi(m)[k]
    OBVIOUS
  <2>1. k \in Ids(w)
    BY <1>7
  <2>2. CASE k = <<1, k[2]>> /\ k[2] \in DOMAIN m.files
    <3>1. w.files[k[2]] = m.files[k[2]]
      BY <1>5, <2>2
    <3> QED BY <2>1, <2>2, <3>1 DEF Lo, Hi
  <2>3. CASE k = <<2, k[2]>> /\ k[2] \in 1 .. Len(m.empties)
    BY <1>3, <2>1, <2>3 DEF Lo, Hi
  <2> QED BY <1>1, <2>2, <2>3, Segments
<1> HIDE DEF k0
<1>10. Tiling(Ids(w), Lo(w), Hi(w), w.eoa)
  <2> DEFINE I == Ids(m)
             lo == Lo(m)
             hi == Hi(m)
             J == Ids(w)
             lo2 == Lo(w)
             hi2 == Hi(w)
             l == s + 5
  <2>1. /\ Tiling(I, lo, hi, e) /\ k0 \notin I /\ J = I \cup {k0}
        /\ lo2 \in [J -> Int] /\ hi2 \in [J -> Int] /\ l \in Nat \ {0}
        /\ \A j \in I : lo2[j] = lo[j] /\ hi2[j] = hi[j]
        /\ lo2[k0] = e /\ hi2[k0] = e + l - 1
    <3>1. Tiling(I, lo, hi, e)
      BY <1>1 DEF e
    <3>2. lo2 \in [J -> Int] /\ hi2 \in [J -> Int]
      BY <1>6, Segments
    <3> QED BY <1>7, <1>8, <1>9, <3>1, <3>2
  <2>2. e + l = w.eoa
    BY <1>2, <1>3
  <2> HIDE DEF I, lo, hi, J, lo2, hi2, l
  <2>3. Tiling(J, lo2, hi2, e + l)
    BY <2>1, Grown
  <2> QED BY <2>2, <2>3 DEF J, lo2, hi2
<1>11. /\ IsList(new) /\ Len(new) = s + 5 /\ new[1] = Start /\ new[s + 5] = End
       /\ \A i \in 1 .. s : new[4 + i] = Data(v)
  BY FileCellsAre
<1>12. o = Overwritten(c, e, new)
  BY DEF e
<1> HIDE DEF new
<1>13. /\ IsList(o) /\ Len(o) \in Nat /\ Len(o) >= e + Len(new) - 1
       /\ \A i \in 1 .. Len(new) : o[e + i - 1] = new[i]
  BY <1>1, <1>2, <1>11, <1>12, OverwrittenCells, SMTT(30)
<1>14. \A k \in Ids(m) : \A i \in Lo(m)[k] .. Hi(m)[k] : o[i] = c[i]
  <2>1. e >= m.eoa
    BY <1>2 DEF e
  <2> QED BY <1>2, <1>11, <1>12, <2>1, WrittenBehind
<1>15. o[e] = Start /\ o[e + (s + 5) - 1] = End /\ \A i \in 1 .. s : o[e + 3 + i] = Data(v)
  <2>1. 1 \in 1 .. Len(new) /\ s + 5 \in 1 .. Len(new) /\ e + 1 - 1 = e
    BY <1>2, <1>11
  <2>2. o[e] = Start /\ o[e + (s + 5) - 1] = End
    BY <1>11, <1>13, <2>1
  <2>3. ASSUME NEW i \in 1 .. s PROVE o[e + 3 + i] = Data(v)
    <3>1. 4 + i \in 1 .. Len(new) /\ e + (4 + i) - 1 = e + 3 + i
      <4>1. Len(new) = s + 5 /\ e \in Nat
        BY <1>2, <1>11
      <4>2. i \in Nat /\ 4 + i \in 1 .. s + 5
        OBVIOUS
      <4>3. e + (4 + i) - 1 = e + 3 + i
        BY <4>1, <4>2
      <4> QED BY <4>1, <4>2, <4>3
    <3>2. o[e + (4 + i) - 1] = new[4 + i]
      BY <1>13, <3>1
    <3> QED BY <1>11, <3>1, <3>2
  <2> QED BY <2>2, <2>3
<1>16. \A k \in Ids(w) : o[Lo(w)[k]] = Start /\ o[Hi(w)[k]] = End
  <2> SUFFICES ASSUME NEW k \in Ids(w) PROVE o[Lo(w)[k]] = Start /\ o[Hi(w)[k]] = End
    OBVIOUS
  <2>1. CASE k = k0
    BY <1>8, <1>15, <2>1
  <2>2. CASE k \in Ids(m)
    <3>1. Lo(w)[k] = Lo(m)[k] /\ Hi(w)[k] = Hi(m)[k]
      BY <1>9, <2>2
    <3>2. Lo(m)[k] \in Nat /\ Hi(m)[k] \in Nat /\ Lo(m)[k] <= Hi(m)[k]
      BY <1>1, <2>2 DEF Tiling
    <3>3. o[Lo(m)[k]] = c[Lo(m)[k]] /\ o[Hi(m)[k]] = c[Hi(m)[k]]
      BY <1>14, <2>2, <3>2
    <3> QED BY <1>1, <2>2, <3>1, <3>3
  <2> QED BY <1>7, <2>1, <2>2
<1>17. w.eoa <= Len(o) + 1
  BY <1>2, <1>3, <1>11, <1>13
<1>18. Described(w, o)
  BY <1>6, <1>10, <1>13, <1>16, <1>17 DEF Described
<1>19. Kept(m, c, w, o, n)
  <2>1. DOMAIN w.files \ {n} = DOMAIN m.files \ {n} /\ \A x \in DOMAIN m.files \ {n} : w.files[x] = m.files[x]
    BY <1>5
  <2>2. ASSUME NEW x \in DOMAIN m.files \ {n}
        PROVE  \A i \in m.files[x].pos + 1 .. m.files[x].pos + m.files[x].size : o[i] = c[i]
    <3>1. <<1, x>> \in Ids(m)
      BY <1>1, Segments
    <3>2. \A i \in Lo(m)[<<1, x>>] .. Hi(m)[<<1, x>>] : o[i] = c[i]
      BY <1>14, <3>1
    <3> QED BY <1>1, <3>2, SpanKept, SMTT(30)
  <2> QED BY <2>1, <2>2 DEF Kept
<1>20. Holds(w, o, n, v, s)
  <2>1. ASSUME NEW i \in (e + 3) + 1 .. (e + 3) + s PROVE o[i] = Data(v)
    <3>1. i - (e + 3) \in 1 .. s /\ e + 3 + (i - (e + 3)) = i
      BY <1>2
    <3> QED BY <1>15, <3>1
  <2> QED BY <1>4, <1>5, <2>1 DEF Holds
<1> QED BY <1>2, <1>3, <1>18, <1>19, <1>20 DEF e

(* RemoveAt closes the gap it makes.                                       *)
LEMMA RemoveAtIs ==
  ASSUME NEW S, NEW s \in Seq(S), NEW j \in 1 .. Len(s), NEW r, r = RemoveAt(s, j)
  PROVE  /\ r \in Seq(S) /\ Len(r) = Len(s) - 1
         /\ \A i \in 1 .. Len(s) - 1 : r[i] = IF i < j THEN s[i] ELSE s[i + 1]
<1> DEFINE n == Len(s)
           a == SubSeq(s, 1, j - 1)
           b == SubSeq(s, j + 1, n)
<1>1. n \in Nat /\ j \in 1 .. n /\ \A i \in 1 .. n : s[i] \in S
  OBVIOUS
<1>2. r = a \o b
  BY DEF RemoveAt
<1> HIDE DEF n
<1>3. a \in Seq(S) /\ Len(a) = j - 1 /\ \A i \in 1 .. j - 1 : a[i] = s[i]
  <2>1. 1 \in Int /\ j - 1 \in Int /\ \A i \in 1 .. j - 1 : s[i] \in S
    BY <1>1
  <2>2. /\ SubSeq(s, 1, j - 1) \in Seq(S)
        /\ Len(SubSeq(s, 1, j - 1)) = IF 1 <= j - 1 THEN (j - 1) - 1 + 1 ELSE 0
        /\ \A i \in 1 .. (j - 1) - 1 + 1 : SubSeq(s, 1, j - 1)[i] = s[1 + i - 1]
    BY <2>1, SubSeqProperties
  <2> QED BY <1>1, <2>2
<1>4. b \in Seq(S) /\ Len(b) = n - j /\ \A i \in 1 .. n - j : b[i] = s[j + i]
  <2>1. j + 1 \in Int /\ n \in Int /\ \A i \in j + 1 .. n : s[i] \in S
    BY <1>1
  <2>2. /\ SubSeq(s, j + 1, n) \in Seq(S)
        /\ Len(SubSeq(s, j + 1, n)) = IF j + 1 <= n THEN n - (j + 1) + 1 ELSE 0
        /\ \A i \in 1 .. n - (j + 1) + 1 : SubSeq(s, j + 1, n)[i] = s[(j + 1) + i - 1]
    BY <2>1, SubSeqProperties
  <2> QED BY <1>1, <2>2
<1> HIDE DEF a, b
<1>5. /\ a \o b \in Seq(S) /\ Len(a \o b) = Len(a) + Len(b)
      /\ \A i \in 1 .. Len(a) + Len(b) : (a \o b)[i] = IF i <= Len(a) THEN a[i] ELSE b[i - Len(a)]
  BY <1>3, <1>4, ConcatProperties
<1>6. Len(a) + Len(b) = n - 1
  BY <1>1, <1>3, <1>4
<1>7. ASSUME NEW i \in 1 .. n - 1 PROVE r[i] = IF i < j THEN s[i] ELSE s[i + 1]
  <2>1. CASE i < j
    <3>1. i <= Len(a) /\ i \in 1 .. j - 1 /\ i \in 1 .. Len(a) + Len(b)
      BY <1>1, <1>3, <1>6, <2>1
    <3> QED BY <1>2, <1>3, <1>5, <2>1, <3>1
  <2>2. CASE i >= j
    <3> DEFINE h == i - (j - 1)
    <3>1. ~(i <= j - 1) /\ h \in 1 .. n - j /\ j + h = i + 1 /\ ~(i < j)
      BY <1>1, <2>2
    <3>2. i \in 1 .. Len(a) + Len(b) /\ Len(a) = j - 1
      BY <1>3, <1>6
    <3>3. r[i] = IF i <= Len(a) THEN a[i] ELSE b[i - Len(a)]
      BY <1>2, <1>5, <3>2
    <3>4. r[i] = b[h]
      BY <3>1, <3>2, <3>3
    <3> HIDE DEF h
    <3>5. r[i] = s[j + h]
      BY <1>4, <3>1, <3>4
    <3> QED BY <3>1, <3>5
  <2> QED BY <1>1, <2>1, <2>2
<1> QED BY <1>2, <1>5, <1>6, <1>7 DEF n

(* The numbers of an empty segment, and of the file that fills it.         *)
LEMMA GapNumbers ==
  ASSUME NEW q \in Nat, NEW s \in Nat, NEW l, NEW h, l = q - 2, h = q + (s + 1) + 1, 1 <= l
  PROVE  /\ q - 2 \in Nat \ {0} /\ l = q - 2 /\ h = (q - 2) + s + 4
         /\ (q + 1) - 3 = q - 2 /\ (q + 1) + s + 1 = (q - 2) + s + 4 /\ q + 1 = (q - 2) + 3
OBVIOUS

(* write() into an empty segment that fits exactly.                        *)
InGap(m, n, j, s) ==
  [m EXCEPT !.changed = TRUE, !.empties = RemoveAt(@, j), !.eoa = @,
            !.files = AddFile(@, n, m.empties[j].pos + 1, s)]

(* write() into an empty segment of the right size: the same, with the     *)
(* segment now the file's and gone from the list.                          *)
LEMMA InGapDescribes ==
  ASSUME NEW m, NEW c, Described(m, c), NEW n \in Name, n \notin DOMAIN m.files,
         NEW j \in 1 .. Len(m.empties), NEW v, NEW s \in Nat, m.empties[j].size = s + 1,
         NEW w, w = InGap(m, n, j, s),
         NEW o, o = Overwritten(c, m.empties[j].pos - 2, FileCells(n, v, s))
  PROVE  /\ Described(w, o) /\ Kept(m, c, w, o, n) /\ Holds(w, o, n, v, s) /\ w.changed
         /\ m.empties[j].pos - 2 \in Nat \ {0}
<1> DEFINE new == FileCells(n, v, s)
           k0 == <<1, n>>
           k1 == <<2, j>>
           q == m.empties[j].pos
           b == q - 2
           E == Len(m.empties)
           Up(i) == IF i < j THEN i ELSE i + 1
<1>1. /\ MemOK(m) /\ IsList(c) /\ m.eoa <= Len(c) + 1
      /\ Tiling(Ids(m), Lo(m), Hi(m), m.eoa)
      /\ \A k \in Ids(m) : c[Lo(m)[k]] = Start /\ c[Hi(m)[k]] = End
  BY DEF Described
<1>2. /\ m = [files |-> m.files, empties |-> m.empties, eoa |-> m.eoa, changed |-> m.changed]
      /\ DOMAIN m.files \subseteq Name /\ IsFiniteSet(DOMAIN m.files)
      /\ m.files \in [DOMAIN m.files -> Piece] /\ m.empties \in Seq(Piece) /\ m.eoa \in Nat \ {0}
  BY <1>1 DEF MemOK
<1>3. k1 \in Ids(m) /\ Lo(m)[k1] = q - 2 /\ Hi(m)[k1] = q + (s + 1) + 1 /\ q \in Nat
  <2>1. /\ k1 \in Ids(m) /\ Lo(m)[k1] = m.empties[j].pos - 2
        /\ Hi(m)[k1] = m.empties[j].pos + m.empties[j].size + 1 /\ m.empties[j].pos \in Nat
    BY <1>1, Segments
  <2> QED BY <2>1
<1>4. 1 <= Lo(m)[k1] /\ Lo(m)[k1] \in Nat
  BY <1>1, <1>3 DEF Tiling
<1>5. /\ b \in Nat \ {0} /\ Lo(m)[k1] = b /\ Hi(m)[k1] = b + s + 4
      /\ (q + 1) - 3 = b /\ (q + 1) + s + 1 = b + s + 4 /\ q + 1 = b + 3
  <2> DEFINE l == Lo(m)[k1]
             h == Hi(m)[k1]
  <2>1. l = q - 2 /\ h = q + (s + 1) + 1 /\ q \in Nat /\ 1 <= l
    BY <1>3, <1>4
  <2> HIDE DEF q, l, h
  <2>2. /\ q - 2 \in Nat \ {0} /\ l = q - 2 /\ h = (q - 2) + s + 4
        /\ (q + 1) - 3 = q - 2 /\ (q + 1) + s + 1 = (q - 2) + s + 4 /\ q + 1 = (q - 2) + 3
    BY <2>1, GapNumbers
  <2> QED BY <2>2 DEF l, h
<1> DEFINE x1 == [pos |-> q + 1, size |-> s]
<1>6. /\ w.files = [x \in DOMAIN m.files \cup {n} |-> IF x = n THEN x1 ELSE m.files[x]]
      /\ w.empties = RemoveAt(m.empties, j) /\ w.eoa = m.eoa /\ w.changed = TRUE
      /\ w = [files |-> w.files, empties |-> w.empties, eoa |-> w.eoa, changed |-> w.changed]
  BY <1>2 DEF InGap, AddFile
<1>7. x1 \in Piece /\ x1.pos = q + 1 /\ x1.size = s
  <2> HIDE DEF q
  <2> QED BY <1>3 DEF Piece
<1>8. o = Overwritten(c, b, new)
  OBVIOUS
<1> HIDE DEF x1, q, b, new
<1>9. /\ DOMAIN w.files = DOMAIN m.files \cup {n} /\ w.files[n] = x1
      /\ \A x \in DOMAIN m.files : w.files[x] = m.files[x]
  BY <1>6
<1>10. /\ w.empties \in Seq(Piece) /\ Len(w.empties) = E - 1 /\ E \in Nat \ {0} /\ j \in 1 .. E
       /\ \A i \in 1 .. E - 1 : w.empties[i] = m.empties[Up(i)] /\ Up(i) \in 1 .. E
  <2>1. /\ w.empties \in Seq(Piece) /\ Len(w.empties) = Len(m.empties) - 1
        /\ \A i \in 1 .. Len(m.empties) - 1 :
             w.empties[i] = IF i < j THEN m.empties[i] ELSE m.empties[i + 1]
    BY <1>2, <1>6, RemoveAtIs
  <2>2. E \in Nat \ {0}
    BY <1>2
  <2>3. j \in 1 .. E
    OBVIOUS
  <2> HIDE DEF E
  <2>4. \A i \in 1 .. E - 1 : Up(i) \in 1 .. E
    BY <2>2, <2>3
  <2> QED BY <2>1, <2>2, <2>3, <2>4 DEF E
<1>11. MemOK(w)
  <2>1. IsFiniteSet(DOMAIN w.files)
    BY <1>2, <1>9, FS_AddElement
  <2>2. w.files \in [DOMAIN w.files -> Piece]
    BY <1>2, <1>6, <1>7
  <2>4. w.changed \in BOOLEAN
    BY <1>6
  <2> QED BY <1>2, <1>6, <1>9, <1>10, <2>1, <2>2, <2>4 DEF MemOK
<1>12. k0 \in Ids(w) /\ Lo(w)[k0] = b /\ Hi(w)[k0] = b + s + 4
  <2>1. n \in DOMAIN w.files /\ w.files[n] = x1
    BY <1>9
  <2>2. k0 \in Ids(w) /\ Lo(w)[k0] = w.files[n].pos - 3 /\ Hi(w)[k0] = w.files[n].pos + w.files[n].size + 1
    BY <1>11, <2>1, Segments, ZenonT(60)
  <2> QED BY <1>5, <1>7, <2>1, <2>2
<1> HIDE DEF E
<1> DEFINE Old(k) == IF k = k0 THEN k1 ELSE IF k[1] = 2 THEN <<2, Up(k[2])>> ELSE k
<1>13. \A k \in Ids(w) : \/ k = k0
                         \/ k = <<1, k[2]>> /\ k[2] \in DOMAIN m.files /\ k[2] # n
                         \/ k = <<2, k[2]>> /\ k[2] \in 1 .. E - 1
  <2> SUFFICES ASSUME NEW k \in Ids(w), k # k0
               PROVE \/ k = <<1, k[2]>> /\ k[2] \in DOMAIN m.files /\ k[2] # n
                     \/ k = <<2, k[2]>> /\ k[2] \in 1 .. E - 1
    OBVIOUS
  <2>1. \/ k = <<1, k[2]>> /\ k[2] \in DOMAIN w.files
        \/ k = <<2, k[2]>> /\ k[2] \in 1 .. Len(w.empties)
    BY <1>11, Segments
  <2> QED BY <1>9, <1>10, <2>1
<1>14. ASSUME NEW x \in DOMAIN m.files
       PROVE  /\ <<1, x>> \in Ids(w) /\ <<1, x>> # k0 /\ Old(<<1, x>>) = <<1, x>>
              /\ <<1, x>> \in Ids(m)
              /\ Lo(w)[<<1, x>>] = Lo(m)[<<1, x>>] /\ Hi(w)[<<1, x>>] = Hi(m)[<<1, x>>]
  <2>1. x # n
    OBVIOUS
  <2>2. x \in DOMAIN w.files /\ w.files[x] = m.files[x]
    BY <1>9
  <2>3. /\ <<1, x>> \in Ids(w) /\ Lo(w)[<<1, x>>] = w.files[x].pos - 3
        /\ Hi(w)[<<1, x>>] = w.files[x].pos + w.files[x].size + 1
    BY <1>11, <2>2, Segments, ZenonT(60)
  <2>4. /\ <<1, x>> \in Ids(m) /\ Lo(m)[<<1, x>>] = m.files[x].pos - 3
        /\ Hi(m)[<<1, x>>] = m.files[x].pos + m.files[x].size + 1
    BY <1>1, Segments
  <2>5. <<1, x>> # k0 /\ <<1, x>>[1] = 1
    BY <2>1
  <2>6. Old(<<1, x>>) = <<1, x>>
    BY <2>5
  <2> QED BY <2>2, <2>3, <2>4, <2>5, <2>6
<1>15. ASSUME NEW i \in 1 .. E - 1
       PROVE  /\ <<2, i>> \in Ids(w) /\ <<2, i>> # k0 /\ Old(<<2, i>>) = <<2, Up(i)>>
              /\ <<2, Up(i)>> \in Ids(m) /\ Up(i) # j
              /\ Lo(w)[<<2, i>>] = Lo(m)[<<2, Up(i)>>] /\ Hi(w)[<<2, i>>] = Hi(m)[<<2, Up(i)>>]
  <2>1. i \in 1 .. Len(w.empties) /\ Up(i) \in 1 .. Len(m.empties) /\ w.empties[i] = m.empties[Up(i)]
    BY <1>10 DEF E
  <2>2. Up(i) # j
    BY <1>10
  <2>6. <<2, i>> # k0 /\ Old(<<2, i>>) = <<2, Up(i)>>
    <3> HIDE DEF Up
    <3> QED OBVIOUS
  <2> DEFINE u == Up(i)
  <2>7. u \in 1 .. Len(m.empties) /\ w.empties[i] = m.empties[u]
    BY <2>1
  <2> HIDE DEF u
  <2>3. /\ <<2, i>> \in Ids(w) /\ Lo(w)[<<2, i>>] = w.empties[i].pos - 2
        /\ Hi(w)[<<2, i>>] = w.empties[i].pos + w.empties[i].size + 1
    BY <1>11, <2>1, Segments
  <2>4. /\ <<2, u>> \in Ids(m) /\ Lo(m)[<<2, u>>] = m.empties[u].pos - 2
        /\ Hi(m)[<<2, u>>] = m.empties[u].pos + m.empties[u].size + 1
    BY <1>1, <2>7, Segments
  <2>5. /\ <<2, u>> \in Ids(m)
        /\ Lo(w)[<<2, i>>] = Lo(m)[<<2, u>>] /\ Hi(w)[<<2, i>>] = Hi(m)[<<2, u>>]
    BY <2>3, <2>4, <2>7
  <2> QED BY <2>2, <2>3, <2>5, <2>6 DEF u
<1>16. \A k \in Ids(w) : Old(k) \in Ids(m) /\ Lo(w)[k] = Lo(m)[Old(k)] /\ Hi(w)[k] = Hi(m)[Old(k)]
  <2> SUFFICES ASSUME NEW k \in Ids(w)
               PROVE  Old(k) \in Ids(m) /\ Lo(w)[k] = Lo(m)[Old(k)] /\ Hi(w)[k] = Hi(m)[Old(k)]
    OBVIOUS
  <2>1. CASE k = k0
    BY <1>3, <1>5, <1>12, <2>1
  <2>2. CASE k = <<1, k[2]>> /\ k[2] \in DOMAIN m.files
    <3> DEFINE x == k[2]
    <3>1. Old(<<1, x>>) = <<1, x>> /\ <<1, x>> \in Ids(m)
          /\ Lo(w)[<<1, x>>] = Lo(m)[<<1, x>>] /\ Hi(w)[<<1, x>>] = Hi(m)[<<1, x>>]
      BY <1>14, <2>2
    <3> HIDE DEF Old
    <3> QED BY <2>2, <3>1
  <2>3. CASE k = <<2, k[2]>> /\ k[2] \in 1 .. E - 1
    <3> DEFINE i == k[2]
    <3>1. Old(<<2, i>>) = <<2, Up(i)>> /\ <<2, Up(i)>> \in Ids(m)
          /\ Lo(w)[<<2, i>>] = Lo(m)[<<2, Up(i)>>] /\ Hi(w)[<<2, i>>] = Hi(m)[<<2, Up(i)>>]
      BY <1>15, <2>3
    <3> HIDE DEF Old, Up
    <3> QED BY <2>3, <3>1
  <2> QED BY <1>13, <2>1, <2>2, <2>3
<1>17. \A k, l \in Ids(w) : Old(k) = Old(l) => k = l
  <2>1. \A k \in Ids(w) : k[1] = 2 => k[2] \in Nat /\ k = <<2, k[2]>>
    BY <1>10, <1>13
  <2>2. \A k \in Ids(w) : k[1] = 2 => Up(k[2]) # j
    BY <1>10, <2>1
  <2>3. \A k \in Ids(w) : k[1] # 2 /\ k # k0 => k[1] = 1
    BY <1>13
  <2>4. \A i, h \in Nat : Up(i) = Up(h) => i = h
    BY <1>10
  <2> HIDE DEF Up
  <2> SUFFICES ASSUME NEW k \in Ids(w), NEW l \in Ids(w), Old(k) = Old(l) PROVE k = l
    OBVIOUS
  <2>5. CASE k = k0 /\ l # k0
    <3>1. Old(k) = <<2, j>>
      BY <2>5
    <3>2. CASE l[1] = 2
      <4>1. Old(l) = <<2, Up(l[2])>>
        BY <2>5, <3>2
      <4> QED BY <2>2, <3>1, <3>2, <4>1
    <3>3. CASE l[1] # 2
      <4>1. Old(l) = l /\ l[1] = 1
        BY <2>3, <2>5, <3>3
      <4> QED BY <3>1, <4>1
    <3> QED BY <3>2, <3>3
  <2>6. CASE l = k0 /\ k # k0
    <3>1. Old(l) = <<2, j>>
      BY <2>6
    <3>2. CASE k[1] = 2
      <4>1. Old(k) = <<2, Up(k[2])>>
        BY <2>6, <3>2
      <4> QED BY <2>2, <3>1, <3>2, <4>1
    <3>3. CASE k[1] # 2
      <4>1. Old(k) = k /\ k[1] = 1
        BY <2>3, <2>6, <3>3
      <4> QED BY <3>1, <4>1
    <3> QED BY <3>2, <3>3
  <2>7. CASE k # k0 /\ l # k0
    <3>1. CASE k[1] = 2 /\ l[1] = 2
      <4>1. Old(k) = <<2, Up(k[2])>> /\ Old(l) = <<2, Up(l[2])>>
        BY <2>7, <3>1
      <4>2. Up(k[2]) = Up(l[2])
        BY <4>1
      <4> QED BY <2>1, <2>4, <3>1, <4>2
    <3>2. CASE k[1] # 2 /\ l[1] # 2
      BY <2>7, <3>2
    <3>3. CASE k[1] = 2 /\ l[1] # 2
      <4>1. Old(k) = <<2, Up(k[2])>> /\ Old(l) = l /\ l[1] = 1
        BY <2>3, <2>7, <3>3
      <4> QED BY <4>1
    <3>4. CASE k[1] # 2 /\ l[1] = 2
      <4>1. Old(l) = <<2, Up(l[2])>> /\ Old(k) = k /\ k[1] = 1
        BY <2>3, <2>7, <3>4
      <4> QED BY <4>1
    <3> QED BY <3>1, <3>2, <3>3, <3>4
  <2> QED BY <2>5, <2>6, <2>7
<1>18. ASSUME NEW i \in Ids(m) PROVE \E k \in Ids(w) : Old(k) = i
  <2>1. CASE i = <<1, i[2]>> /\ i[2] \in DOMAIN m.files
    <3> DEFINE x == i[2]
    <3>1. <<1, x>> \in Ids(w) /\ Old(<<1, x>>) = <<1, x>>
      BY <1>14, <2>1
    <3> HIDE DEF Old
    <3> QED BY <2>1, <3>1
  <2>2. CASE i = <<2, i[2]>> /\ i[2] \in 1 .. E
    <3> DEFINE h == i[2]
    <3>1. CASE h < j
      <4>1. h \in 1 .. E - 1 /\ Up(h) = h
        BY <1>10, <2>2, <3>1
      <4>2. <<2, h>> \in Ids(w) /\ Old(<<2, h>>) = <<2, Up(h)>>
        BY <1>15, <4>1
      <4> HIDE DEF Old, Up
      <4> QED BY <2>2, <4>1, <4>2
    <3>2. CASE h = j
      <4>1. Old(k0) = i
        BY <2>2, <3>2
      <4> QED BY <1>12, <4>1
    <3>3. CASE h > j
      <4>1. h - 1 \in 1 .. E - 1 /\ Up(h - 1) = h
        BY <1>10, <2>2, <3>3
      <4>2. <<2, h - 1>> \in Ids(w) /\ Old(<<2, h - 1>>) = <<2, Up(h - 1)>>
        BY <1>15, <4>1
      <4> HIDE DEF Old, Up
      <4> QED BY <2>2, <4>1, <4>2
    <3> QED BY <1>10, <2>2, <3>1, <3>2, <3>3
  <2> QED BY <1>1, <2>1, <2>2, Segments DEF E
<1> HIDE DEF Old, Up
<1>19. \A k \in Ids(w) : k # k0 => Old(k) # k1
  <2>1. Old(k0) = k1
    BY DEF Old
  <2> QED BY <1>12, <1>17, <2>1
<1> HIDE DEF k0, k1
<1>20. Tiling(Ids(w), Lo(w), Hi(w), w.eoa)
  <2> DEFINE I == Ids(m)
             lo == Lo(m)
             hi == Hi(m)
             J == Ids(w)
             lo2 == Lo(w)
             hi2 == Hi(w)
             g == [k \in J |-> Old(k)]
  <2>1. Tiling(I, lo, hi, m.eoa)
    BY <1>1
  <2>2. lo2 \in [J -> Int] /\ hi2 \in [J -> Int]
    BY <1>11, Segments
  <2>3. g \in [J -> I] /\ \A k, l \in J : g[k] = g[l] => k = l
    BY <1>16, <1>17
  <2>4. \A i \in I : \E k \in J : g[k] = i
    BY <1>18
  <2>5. \A k \in J : lo2[k] = lo[g[k]] /\ hi2[k] = hi[g[k]]
    BY <1>16
  <2> HIDE DEF I, lo, hi, J, lo2, hi2, g
  <2>6. NamesOf(I, lo, hi, J, lo2, hi2, g)
    BY <2>2, <2>3, <2>4, <2>5 DEF NamesOf
  <2>7. Tiling(J, lo2, hi2, m.eoa)
    BY <2>1, <2>6, Renamed
  <2> QED BY <1>6, <2>7 DEF J, lo2, hi2
<1>21. /\ IsList(new) /\ Len(new) = s + 5 /\ new[1] = Start /\ new[s + 5] = End
       /\ \A i \in 1 .. s : new[4 + i] = Data(v)
  BY FileCellsAre DEF new
<1>22. /\ IsList(o) /\ Len(o) \in Nat /\ Len(o) >= Len(c)
       /\ \A i \in 1 .. Len(new) : o[b + i - 1] = new[i]
  <2>1. b \in Nat \ {0} /\ IsList(c) /\ IsList(new) /\ o = Overwritten(c, b, new)
    BY <1>1, <1>5, <1>8, <1>21
  <2>2. IsList(o) /\ Len(o) \in Nat /\ Len(o) >= Len(c)
    BY <2>1, OverwrittenCells
  <2>3. \A i \in 1 .. Len(new) : o[b + i - 1] = new[i]
    BY <2>1, OverwrittenCells
  <2> QED BY <2>2, <2>3
<1>23. \A k \in Ids(m) : k # k1 => \A i \in Lo(m)[k] .. Hi(m)[k] : o[i] = c[i]
  <2>1. Lo(m)[k1] <= b /\ b + Len(new) - 1 <= Hi(m)[k1]
    <3>1. b + Len(new) - 1 = b + s + 4
      BY <1>5, <1>21
    <3> QED BY <1>5, <3>1
  <2> QED BY <1>3, <1>5, <1>8, <1>21, <2>1, WrittenInside, SMTT(30)
<1>24. o[b] = Start /\ o[b + s + 4] = End /\ \A i \in 1 .. s : o[b + 3 + i] = Data(v)
  <2>1. b \in Nat /\ Len(new) = s + 5
    BY <1>5, <1>21
  <2>2. 1 \in 1 .. Len(new) /\ s + 5 \in 1 .. Len(new) /\ b + 1 - 1 = b /\ b + (s + 5) - 1 = b + s + 4
    BY <2>1
  <2>3. o[b] = Start /\ o[b + s + 4] = End
    BY <1>21, <1>22, <2>2
  <2>4. ASSUME NEW i \in 1 .. s PROVE o[b + 3 + i] = Data(v)
    <3>1. 4 + i \in 1 .. Len(new)
      <4>1. i \in Nat /\ 4 + i \in 1 .. s + 5
        OBVIOUS
      <4> QED BY <2>1, <4>1
    <3>2. b + (4 + i) - 1 = b + 3 + i
      BY <2>1
    <3>3. o[b + (4 + i) - 1] = new[4 + i]
      BY <1>22, <3>1
    <3> QED BY <1>21, <3>2, <3>3
  <2> QED BY <2>3, <2>4
<1>25. \A k \in Ids(w) : o[Lo(w)[k]] = Start /\ o[Hi(w)[k]] = End
  <2> SUFFICES ASSUME NEW k \in Ids(w) PROVE o[Lo(w)[k]] = Start /\ o[Hi(w)[k]] = End
    OBVIOUS
  <2>1. CASE k = k0
    BY <1>12, <1>24, <2>1
  <2>2. CASE k # k0
    <3> DEFINE l == Old(k)
    <3>1. l \in Ids(m) /\ l # k1 /\ Lo(w)[k] = Lo(m)[l] /\ Hi(w)[k] = Hi(m)[l]
      BY <1>16, <1>19, <2>2
    <3> HIDE DEF l
    <3>2. Lo(m)[l] \in Nat /\ Hi(m)[l] \in Nat /\ Lo(m)[l] <= Hi(m)[l]
      BY <1>1, <3>1 DEF Tiling
    <3>3. o[Lo(m)[l]] = c[Lo(m)[l]] /\ o[Hi(m)[l]] = c[Hi(m)[l]]
      BY <1>23, <3>1, <3>2
    <3> QED BY <1>1, <3>1, <3>3
  <2> QED BY <2>1, <2>2
<1>26. w.eoa <= Len(o) + 1
  BY <1>1, <1>2, <1>6, <1>22 DEF IsList
<1>27. Described(w, o)
  BY <1>11, <1>20, <1>22, <1>25, <1>26 DEF Described
<1>28. Kept(m, c, w, o, n)
  <2>1. DOMAIN w.files \ {n} = DOMAIN m.files \ {n} /\ \A x \in DOMAIN m.files \ {n} : w.files[x] = m.files[x]
    BY <1>9
  <2>2. ASSUME NEW x \in DOMAIN m.files \ {n}
        PROVE  \A i \in m.files[x].pos + 1 .. m.files[x].pos + m.files[x].size : o[i] = c[i]
    <3>1. <<1, x>> \in Ids(m) /\ <<1, x>> # k1
      <4>1. <<1, x>>[1] # k1[1]
        BY DEF k1
      <4>2. <<1, x>> \in Ids(m)
        BY <1>14
      <4> QED BY <4>1, <4>2
    <3>2. \A i \in Lo(m)[<<1, x>>] .. Hi(m)[<<1, x>>] : o[i] = c[i]
      BY <1>23, <3>1
    <3>3. MemOK(m) /\ x \in DOMAIN m.files
      BY <1>1
    <3>4. /\ m.files[x].pos \in Nat /\ m.files[x].size \in Nat
          /\ Lo(m)[<<1, x>>] = m.files[x].pos - 3 /\ Hi(m)[<<1, x>>] = m.files[x].pos + m.files[x].size + 1
      BY <3>3, Segments
    <3>5. ASSUME NEW i \in m.files[x].pos + 1 .. m.files[x].pos + m.files[x].size
          PROVE  i \in Lo(m)[<<1, x>>] .. Hi(m)[<<1, x>>]
      BY <3>4
    <3> QED BY <3>2, <3>5
  <2> QED BY <2>1, <2>2 DEF Kept
<1>29. Holds(w, o, n, v, s)
  <2>1. ASSUME NEW i \in (b + 3) + 1 .. (b + 3) + s PROVE o[i] = Data(v)
    <3>1. i - (b + 3) \in 1 .. s /\ b + 3 + (i - (b + 3)) = i
      BY <1>5
    <3> QED BY <1>24, <3>1
  <2>2. n \in DOMAIN w.files /\ w.files[n].pos = b + 3 /\ w.files[n].size = s
    BY <1>5, <1>7, <1>9
  <2> QED BY <2>1, <2>2 DEF Holds
<1> QED BY <1>5, <1>6, <1>27, <1>28, <1>29 DEF b, q
-----------------------------------------------------------------------------
(* The table read back.                                                    *)

(* The numbers of a table with f files and e empty segments behind E.      *)
LEMMA TableNumbers ==
  ASSUME NEW f \in Nat, NEW e \in Nat, NEW E \in Nat \ {0}, NEW l, NEW n, l = f + e + 3, n = E + l - 1
  PROVE  /\ n = E + f + e + 2 /\ n \in Nat /\ n > 0 /\ E < n /\ E + f + 1 < n /\ E + f + 1 + e + 1 = n
         /\ 1 \in 1 .. l /\ E + 1 - 1 = E
         /\ f + e + 3 \in 1 .. l /\ E + (f + e + 3) - 1 = n
         /\ f + 2 \in 1 .. l /\ E + (f + 2) - 1 = E + f + 1
         /\ \A i \in 1 .. f : 1 + i \in 1 .. l /\ E + (1 + i) - 1 = E + i
         /\ \A i \in 1 .. e : f + 2 + i \in 1 .. l /\ E + (f + 2 + i) - 1 = E + f + 1 + i
         /\ \A i \in E + 1 .. E + f : i - E \in 1 .. f /\ E + (i - E) = i
         /\ \A i \in E + f + 2 .. n - 1 :
              i - (E + f + 1) \in 1 .. e /\ E + f + 1 + (i - (E + f + 1)) = i
OBVIOUS

(* Where the cells c that end with the table of m have what.               *)
Placed(m, c) ==
  LET names == SetToSeq(DOMAIN m.files)
      f == Len(names)
      e == Len(m.empties)
  IN  /\ f \in Nat /\ e \in Nat /\ Len(TableCells(m)) = f + e + 3
      /\ c[m.eoa] = [count |-> f] /\ c[Len(c)] = [table |-> m.eoa]
      /\ c[m.eoa + f + 1] = [ecount |-> e]
      /\ \A i \in 1 .. f :
           c[m.eoa + i] = [file |-> <<names[i], m.files[names[i]].pos, m.files[names[i]].size>>]
      /\ \A i \in 1 .. e : c[m.eoa + f + 1 + i] = [empty |-> m.empties[i]]

(* A table that ends the archive file has its cells in these places.       *)
LEMMA TablePlaces ==
  ASSUME NEW m, MemOK(m), NEW c, Written(m, c), Len(c) = m.eoa + Len(TableCells(m)) - 1
  PROVE  Placed(m, c)
<1> DEFINE T == TableCells(m)
           E == m.eoa
           l == Len(T)
           n == Len(c)
           names == SetToSeq(DOMAIN m.files)
           f == Len(names)
           e == Len(m.empties)
<1>1. /\ IsList(T) /\ f \in Nat /\ e \in Nat /\ l = f + e + 3
      /\ T[1] = [count |-> f]
      /\ \A i \in 1 .. f : T[1 + i] = [file |-> <<names[i], m.files[names[i]].pos, m.files[names[i]].size>>]
      /\ T[f + 2] = [ecount |-> e]
      /\ \A i \in 1 .. e : T[f + 2 + i] = [empty |-> m.empties[i]]
      /\ T[f + e + 3] = [table |-> m.eoa]
  BY TableLayout DEF Layout
<1>2. (\A i \in 1 .. l : c[E + i - 1] = T[i]) /\ n = E + l - 1 /\ E \in Nat \ {0}
  BY DEF Written, MemOK
<1>a. f \in Nat /\ e \in Nat /\ E \in Nat \ {0} /\ l = f + e + 3 /\ n = E + l - 1
  BY <1>1, <1>2
<1> HIDE DEF T, E, l, n, names, f, e
<1>3. /\ 1 \in 1 .. l /\ E + 1 - 1 = E
      /\ f + e + 3 \in 1 .. l /\ E + (f + e + 3) - 1 = n
      /\ f + 2 \in 1 .. l /\ E + (f + 2) - 1 = E + f + 1
  BY <1>a, TableNumbers
<1>4. \A i \in 1 .. f : 1 + i \in 1 .. l /\ E + (1 + i) - 1 = E + i
  BY <1>a, TableNumbers
<1>5. \A i \in 1 .. e : f + 2 + i \in 1 .. l /\ E + (f + 2 + i) - 1 = E + f + 1 + i
  BY <1>a, TableNumbers
<1>6. \A i \in 1 .. l : c[E + i - 1] = T[i]
  BY <1>2
<1>7. c[E] = T[1] /\ c[n] = T[f + e + 3] /\ c[E + f + 1] = T[f + 2]
  <2>1. c[E + 1 - 1] = T[1] /\ c[E + (f + e + 3) - 1] = T[f + e + 3] /\ c[E + (f + 2) - 1] = T[f + 2]
    BY <1>3, <1>6, Zenon
  <2> QED BY <1>3, <2>1, Zenon
<1>8. ASSUME NEW i \in 1 .. f PROVE c[E + i] = T[1 + i]
  <2>1. c[E + (1 + i) - 1] = T[1 + i]
    BY <1>4, <1>6, Zenon
  <2> QED BY <1>4, <2>1, Zenon
<1>9. ASSUME NEW i \in 1 .. e PROVE c[E + f + 1 + i] = T[f + 2 + i]
  <2>1. c[E + (f + 2 + i) - 1] = T[f + 2 + i]
    BY <1>5, <1>6, Zenon
  <2> QED BY <1>5, <2>1, Zenon
<1>10. /\ c[E] = [count |-> f] /\ c[n] = [table |-> m.eoa] /\ c[E + f + 1] = [ecount |-> e]
  BY <1>1, <1>7
<1>11. \A i \in 1 .. f : c[E + i] = [file |-> <<names[i], m.files[names[i]].pos, m.files[names[i]].size>>]
  BY <1>1, <1>8
<1>12. \A i \in 1 .. e : c[E + f + 1 + i] = [empty |-> m.empties[i]]
  BY <1>1, <1>9
<1> QED BY <1>1, <1>10, <1>11, <1>12 DEF Placed, E, T, l, n, names, f, e

(* An index as a table gives it back.                                      *)
LEMMA Unflagged ==
  ASSUME NEW m, MemOK(m)
  PROVE  [m EXCEPT !.changed = FALSE]
           = [files |-> m.files, empties |-> m.empties, eoa |-> m.eoa, changed |-> FALSE]
<1> DEFINE a == m.files
           b == m.empties
           e == m.eoa
           g == m.changed
           P(f) == [m EXCEPT !.changed = f] = [files |-> a, empties |-> b, eoa |-> e, changed |-> f]
<1>1. m = [files |-> a, empties |-> b, eoa |-> e, changed |-> g]
  BY DEF MemOK
<1>2. ASSUME NEW f PROVE P(f)
  <2> HIDE DEF a, b, e, g
  <2> DEFINE w == [m EXCEPT !.changed = f]
             r == [files |-> a, empties |-> b, eoa |-> e, changed |-> f]
             D == {"files", "empties", "eoa", "changed"}
  <2>1. DOMAIN m = D
    BY <1>1
  <2>2. w = [x \in D |-> IF x = "changed" THEN f ELSE m[x]]
    BY <2>1
  <2>3. r = [x \in D |-> r[x]]
    OBVIOUS
  <2>4. r.files = m.files /\ r.empties = m.empties /\ r.eoa = m.eoa /\ r.changed = f
    BY <1>1
  <2> HIDE DEF r, w
  <2>5. \A x \in D : r[x] = IF x = "changed" THEN f ELSE m[x]
    BY <2>4
  <2>6. r = [x \in D |-> IF x = "changed" THEN f ELSE m[x]]
    BY <2>3, <2>5
  <2> QED BY <2>2, <2>6 DEF r, w
<1> DEFINE no == FALSE
<1>3. P(no)
  <2> HIDE DEF P, no
  <2> QED BY <1>2, SMTT(30)
<1> QED BY <1>3

(* A reader finds the table and gets the index back.                       *)
LEMMA TableBack ==
  ASSUME NEW m, MemOK(m), NEW d, Written(m, d.cells), Len(d.cells) = m.eoa + Len(TableCells(m)) - 1
  PROVE  HasTable(d) /\ TableIndex(d) = [m EXCEPT !.changed = FALSE]
<1> DEFINE c == d.cells
           names == SetToSeq(DOMAIN m.files)
           f == Len(names)
           e == Len(m.empties)
           E == m.eoa
           n == Len(c)
           l == Len(TableCells(m))
<1>1. /\ f \in Nat /\ e \in Nat /\ l = f + e + 3
      /\ c[E] = [count |-> f] /\ c[n] = [table |-> E]
      /\ c[E + f + 1] = [ecount |-> e]
      /\ \A i \in 1 .. f : c[E + i] = [file |-> <<names[i], m.files[names[i]].pos, m.files[names[i]].size>>]
      /\ \A i \in 1 .. e : c[E + f + 1 + i] = [empty |-> m.empties[i]]
  BY TablePlaces DEF Placed
<1>2. /\ names \in Seq(DOMAIN m.files) /\ \A x \in DOMAIN m.files : \E i \in 1 .. f : names[i] = x
      /\ \A i \in 1 .. f : names[i] \in DOMAIN m.files
  <2>1. names \in Seq(DOMAIN m.files) /\ \A x \in DOMAIN m.files : \E i \in 1 .. f : names[i] = x
    BY SetToSeqEnumerates DEF MemOK
  <2> QED BY <2>1, SMTT(30)
<1>3. /\ E \in Nat \ {0} /\ m.files \in [DOMAIN m.files -> Piece] /\ m.empties \in Seq(Piece)
      /\ m = [files |-> m.files, empties |-> m.empties, eoa |-> E, changed |-> m.changed]
  BY DEF MemOK
<1> DEFINE infos == [i \in 1 .. f |-> d.cells[E + i].file]
           first(x) == infos[Min({i \in 1 .. f : infos[i][1] = x})]
           g == [x \in {infos[i][1] : i \in 1 .. f} |-> [pos |-> first(x)[2], size |-> first(x)[3]]]
           h == [i \in 1 .. e |-> d.cells[E + f + 1 + i].empty]
<1>a. f \in Nat /\ e \in Nat /\ E \in Nat \ {0} /\ l = f + e + 3 /\ n = E + l - 1
  BY <1>1, <1>3
<1>11. [m EXCEPT !.changed = FALSE] = [files |-> m.files, empties |-> m.empties, eoa |-> E, changed |-> FALSE]
  BY Unflagged
<1> HIDE DEF names, f, e, E, l, n
<1>b. n \in Nat /\ n > 0 /\ E < n /\ E + f + 1 < n /\ E + f + 1 + e + 1 = n
  BY <1>a, TableNumbers
<1>c. \A i \in E + 1 .. E + f : i - E \in 1 .. f /\ E + (i - E) = i
  BY <1>a, TableNumbers
<1>d. \A i \in E + f + 2 .. n - 1 : i - (E + f + 1) \in 1 .. e /\ E + f + 1 + (i - (E + f + 1)) = i
  BY <1>a, TableNumbers
<1>4. HasTable(d)
  <2>1. DOMAIN c[n] = {"table"} /\ c[n].table = E /\ DOMAIN c[E] = {"count"} /\ c[E].count = f
        /\ DOMAIN c[E + f + 1] = {"ecount"} /\ c[E + f + 1].ecount = e
    BY <1>1
  <2>2. \A i \in E + 1 .. E + f : DOMAIN c[i] = {"file"}
    <3> SUFFICES ASSUME NEW i \in E + 1 .. E + f PROVE DOMAIN c[i] = {"file"}
      OBVIOUS
    <3> DEFINE j == i - E
    <3>1. j \in 1 .. f /\ E + j = i
      BY <1>c
    <3> HIDE DEF j
    <3>2. c[E + j] = [file |-> <<names[j], m.files[names[j]].pos, m.files[names[j]].size>>]
      BY <1>1, <3>1
    <3> QED BY <3>1, <3>2
  <2>3. \A i \in E + f + 2 .. n - 1 : DOMAIN c[i] = {"empty"}
    <3> SUFFICES ASSUME NEW i \in E + f + 2 .. n - 1 PROVE DOMAIN c[i] = {"empty"}
      OBVIOUS
    <3> DEFINE j == i - (E + f + 1)
    <3>1. j \in 1 .. e /\ E + f + 1 + j = i
      BY <1>d
    <3> HIDE DEF j
    <3>2. c[E + f + 1 + j] = [empty |-> m.empties[j]]
      BY <1>1, <3>1
    <3> QED BY <3>1, <3>2
  <2>4. n > 0 /\ E < n /\ E + f + 1 < n /\ E + f + 1 + e + 1 = n
    BY <1>b
  <2> HIDE DEF c, n
  <2> QED BY <2>1, <2>2, <2>3, <2>4 DEF HasTable, c, n
<1>5. \A i \in 1 .. f : infos[i] = <<names[i], m.files[names[i]].pos, m.files[names[i]].size>>
  <2> SUFFICES ASSUME NEW i \in 1 .. f
               PROVE  infos[i] = <<names[i], m.files[names[i]].pos, m.files[names[i]].size>>
    OBVIOUS
  <2> DEFINE t == <<names[i], m.files[names[i]].pos, m.files[names[i]].size>>
             cell == c[E + i]
  <2>1. cell = [file |-> t]
    BY <1>1, SMTT(30)
  <2>2. infos[i] = cell.file
    OBVIOUS
  <2> HIDE DEF t, cell, infos
  <2>3. cell.file = t
    BY <2>1
  <2> QED BY <2>2, <2>3 DEF t
<1>6. TableIndex(d) = [files |-> g, empties |-> h, eoa |-> E, changed |-> FALSE]
  <2>1. c[n].table = E /\ c[E].count = f /\ c[E + f + 1].ecount = e
    BY <1>1
  <2> DEFINE t == c[n].table
             k == c[t].count
             r == c[t + k + 1].ecount
             infos2 == [i \in 1 .. k |-> d.cells[t + i].file]
             first2(x) == infos2[Min({i \in 1 .. k : infos2[i][1] = x})]
  <2>2. TableIndex(d) =
          [files   |-> [x \in {infos2[i][1] : i \in 1 .. k} |-> [pos |-> first2(x)[2], size |-> first2(x)[3]]],
           empties |-> [i \in 1 .. r |-> d.cells[t + k + 1 + i].empty],
           eoa     |-> t, changed |-> FALSE]
    BY DEF TableIndex, n
  <2>3. t = E /\ k = f /\ r = e
    BY <2>1
  <2> HIDE DEF t, k, r
  <2> QED BY <2>2, <2>3
<1>7. h = m.empties
  <2>1. ASSUME NEW i \in 1 .. e PROVE h[i] = m.empties[i]
    <3> DEFINE cell == c[E + f + 1 + i]
               x == m.empties[i]
    <3>1. cell = [empty |-> x]
      BY <1>1
    <3>2. h[i] = cell.empty
      OBVIOUS
    <3> HIDE DEF x, cell, h
    <3>3. cell.empty = x
      BY <3>1
    <3> QED BY <3>2, <3>3 DEF x
  <2>2. h = [i \in 1 .. e |-> h[i]]
    OBVIOUS
  <2>3. m.empties = [i \in 1 .. e |-> m.empties[i]]
    BY <1>3 DEF e
  <2> HIDE DEF h
  <2> QED BY <2>1, <2>2, <2>3
<1>8. {infos[i][1] : i \in 1 .. f} = DOMAIN m.files
  <2>1. \A i \in 1 .. f : infos[i][1] = names[i]
    BY <1>5
  <2> HIDE DEF infos
  <2> QED BY <1>2, <2>1, SMTT(30)
<1>9. \A x \in DOMAIN m.files : [pos |-> first(x)[2], size |-> first(x)[3]] = m.files[x]
  <2> SUFFICES ASSUME NEW x \in DOMAIN m.files
               PROVE  [pos |-> first(x)[2], size |-> first(x)[3]] = m.files[x]
    OBVIOUS
  <2> DEFINE S == {i \in 1 .. f : infos[i][1] = x}
             y == Min(S)
  <2>1. S # {}
    <3>1. PICK i \in 1 .. f : names[i] = x
      BY <1>2
    <3>2. infos[i][1] = names[i]
      BY <1>5
    <3> QED BY <3>1, <3>2
  <2>2. S \subseteq Nat
    BY <1>1
  <2>3. y \in S
    <3> HIDE DEF S
    <3> QED BY <2>1, <2>2, LeastIs
  <2>4. first(x) = infos[y]
    OBVIOUS
  <2> HIDE DEF y, first
  <2>5. y \in 1 .. f /\ infos[y][1] = x
    BY <2>3
  <2>6. infos[y] = <<names[y], m.files[names[y]].pos, m.files[names[y]].size>>
    BY <1>5, <2>5
  <2> HIDE DEF infos
  <2>7. names[y] = x
    BY <2>5, <2>6
  <2>8. first(x)[2] = m.files[x].pos /\ first(x)[3] = m.files[x].size
    BY <2>4, <2>6, <2>7
  <2>9. m.files[x] = [pos |-> m.files[x].pos, size |-> m.files[x].size]
    BY Segments
  <2> QED BY <2>8, <2>9
<1>10. g = m.files
  <2>1. m.files = [x \in DOMAIN m.files |-> m.files[x]]
    BY <1>3
  <2>2. g = [x \in DOMAIN m.files |-> [pos |-> first(x)[2], size |-> first(x)[3]]]
    BY <1>8
  <2> HIDE DEF g, first
  <2> QED BY <1>9, <2>1, <2>2
<1> QED BY <1>4, <1>6, <1>7, <1>10, <1>11

-----------------------------------------------------------------------------
(* The operations.                                                         *)

(* A cell that is there.                                                   *)
LEMMA CellThere ==
  ASSUME NEW d, IsList(d.cells), NEW i \in 1 .. Len(d.cells)
  PROVE  CellAt(d, i) = d.cells[i]
BY DEF CellAt

(* The tags of a segment are there.                                        *)
LEMMA TagsThere ==
  ASSUME NEW m, NEW d, Described(m, d.cells), NEW k \in Ids(m)
  PROVE  /\ Lo(m)[k] \in 1 .. Len(d.cells) /\ Hi(m)[k] \in 1 .. Len(d.cells)
         /\ CellAt(d, Lo(m)[k]) = Start /\ CellAt(d, Hi(m)[k]) = End
<1> DEFINE c == d.cells
<1>1. /\ IsList(c) /\ m.eoa <= Len(c) + 1 /\ Tiling(Ids(m), Lo(m), Hi(m), m.eoa)
      /\ c[Lo(m)[k]] = Start /\ c[Hi(m)[k]] = End
  BY DEF Described
<1>2. /\ Lo(m)[k] \in Nat /\ Hi(m)[k] \in Nat /\ 1 <= Lo(m)[k] /\ Lo(m)[k] <= Hi(m)[k] /\ Hi(m)[k] < m.eoa
      /\ m.eoa \in Nat
  BY <1>1 DEF Tiling
<1>3. Lo(m)[k] \in 1 .. Len(c) /\ Hi(m)[k] \in 1 .. Len(c)
  <2> DEFINE l == Lo(m)[k]
             h == Hi(m)[k]
             e == m.eoa
             n == Len(c)
  <2>1. l \in Nat /\ h \in Nat /\ 1 <= l /\ l <= h /\ h < e /\ e \in Nat /\ n \in Nat /\ e <= n + 1
    BY <1>1, <1>2 DEF IsList
  <2> HIDE DEF l, h, e, n
  <2>2. l \in 1 .. n /\ h \in 1 .. n
    BY <2>1
  <2> QED BY <2>2 DEF l, h, n
<1>4. CellAt(d, Lo(m)[k]) = c[Lo(m)[k]] /\ CellAt(d, Hi(m)[k]) = c[Hi(m)[k]]
  BY <1>1, <1>3, CellThere
<1> QED BY <1>1, <1>3, <1>4

(* What an operation that writes the runs has done to the file d when m     *)
(* was its index: w is the index it leaves, and only the file n is not      *)
(* what it was.                                                             *)
Done(d, m, runs, w, n) ==
  LET e == ApplyAll(d, runs) IN
  /\ IsList(runs) /\ \A i \in 1 .. Len(runs) : RunOK(runs[i])
  /\ DiskOK(e) /\ Described(w, e.cells) /\ Kept(m, d.cells, w, e.cells, n)

(* remove() finds the tags it looks for and does what it should.           *)
LEMMA RemovalDone ==
  ASSUME DiskOK(Image), NEW m, Described(m, Image.cells), NEW n \in DOMAIN m.files
  PROVE  LET r == Removal(m, n) IN
         /\ r.verified /\ Len(r.runs) \in 0 .. 2 /\ r.m.changed /\ n \notin DOMAIN r.m.files
         /\ Done(Image, m, r.runs, r.m, n)
<1> DEFINE r == Removal(m, n)
           c == Image.cells
           info == m.files[n]
           begin == info.pos - 3
<1>1. MemOK(m) /\ m.eoa \in Nat
  BY DEF Described, MemOK
<1>2. /\ <<1, n>> \in Ids(m) /\ info.pos \in Nat /\ info.size \in Nat
      /\ Lo(m)[<<1, n>>] = begin /\ Hi(m)[<<1, n>>] = info.pos + info.size + 1
  BY <1>1, Segments
<1>3. CellAt(Image, begin) = Start /\ CellAt(Image, info.pos + info.size + 1) = End
  BY <1>2, TagsThere
<1>4. CASE info.pos + info.size + 2 = m.eoa
  <2> DEFINE w == CutOff(m, n)
             runs == ClearFlag(m)
             e == ApplyAll(Image, runs)
  <2>1. r = [runs |-> runs, m |-> w, ok |-> TRUE, verified |-> TRUE]
    BY <1>3, <1>4 DEF Removal, CutOff, Gone
  <2>2. r.runs = runs /\ r.m = w /\ r.verified
    BY <2>1
  <2>3. /\ IsList(runs) /\ Len(runs) \in 0 .. 1 /\ \A i \in 1 .. Len(runs) : RunOK(runs[i])
        /\ DiskOK(e) /\ e.cells = c
    BY Cleared
  <2>4. Described(w, c) /\ Kept(m, c, w, c, n) /\ n \notin DOMAIN w.files /\ w.changed
    BY <1>4, CutOffDescribes
  <2> HIDE DEF r, w, runs, e
  <2>5. Done(Image, m, runs, w, n)
    BY <2>3, <2>4 DEF Done, e
  <2>6. Len(runs) \in 0 .. 2
    BY <2>3
  <2> QED BY <2>2, <2>4, <2>5, <2>6 DEF r
<1>5. CASE info.pos + info.size + 2 # m.eoa
  <2> DEFINE w == Marked(m, n)
             new == <<Len1(0), Size(info.size + 1)>>
             at == begin + 1
             runs == ClearFlag(m) \o <<Run(at, new)>>
             e == ApplyAll(Image, runs)
             o == Overwritten(c, info.pos - 2, new)
  <2>1. at = info.pos - 2 /\ begin + 2 = info.pos - 1
    BY <1>2
  <2>2. r = [runs |-> runs, ok |-> TRUE,
             m |-> [Gone(m, n) EXCEPT !.empties = Append(@, [pos |-> begin + 2, size |-> info.size + 1])],
             verified |-> CellAt(Image, info.pos + info.size + 1) = End]
    BY <1>3, <1>5 DEF Removal, Gone
  <2>3. r.runs = runs
    BY <2>2
  <2>4. r.m = w
    <3>1. r.m = [Gone(m, n) EXCEPT !.empties = Append(@, [pos |-> begin + 2, size |-> info.size + 1])]
      BY <2>2
    <3> HIDE DEF r, info
    <3> QED BY <2>1, <3>1 DEF Marked, info
  <2>5. r.verified
    <3>1. r.verified = (CellAt(Image, info.pos + info.size + 1) = End)
      BY <2>2
    <3> HIDE DEF r
    <3> QED BY <1>3, <3>1
  <2>6. IsList(new)
    BY DEF IsList
  <2>7. /\ Described(w, o) /\ Kept(m, c, w, o, n) /\ n \notin DOMAIN w.files /\ w.changed
        /\ info.pos - 2 \in Nat \ {0}
    BY MarkedDescribes
  <2> HIDE DEF r, w, new, at, o
  <2>8. at \in Nat \ {0} /\ o = Overwritten(c, at, new)
    BY <2>1, <2>7 DEF o
  <2>9. /\ IsList(runs) /\ Len(runs) \in 1 .. 2 /\ \A i \in 1 .. Len(runs) : RunOK(runs[i])
        /\ DiskOK(e) /\ e.cells = o
    <3>1. DiskOK(Image) /\ at \in Nat \ {0} /\ IsList(new) /\ runs = ClearFlag(m) \o <<Run(at, new)>>
      BY <2>6, <2>8
    <3> HIDE DEF runs
    <3>2. IsList(runs) /\ Len(runs) \in 1 .. 2 /\ \A i \in 1 .. Len(runs) : RunOK(runs[i])
      BY <3>1, ClearedThenWritten
    <3>3. Wrote(Image, ApplyAll(Image, runs), at, new)
      BY <3>1, ClearedThenWritten
    <3> QED BY <2>8, <3>2, <3>3 DEF Wrote
  <2> HIDE DEF runs, e
  <2>10. Done(Image, m, runs, w, n)
    BY <2>7, <2>9 DEF Done, e
  <2>11. Len(runs) \in 0 .. 2
    BY <2>9
  <2> QED BY <2>3, <2>4, <2>5, <2>7, <2>10, <2>11 DEF r
<1> QED BY <1>4, <1>5

(* write() does what it should, at the end of the archive or in an empty    *)
(* segment.                                                                *)
LEMMA AdditionDone ==
  ASSUME NEW d, DiskOK(d), NEW m, Described(m, d.cells), NEW n \in Name, n \notin DOMAIN m.files,
         NEW v, NEW s \in Nat
  PROVE  LET a == Addition(m, n, v, s) IN
         /\ Len(a.runs) \in 1 .. 2 /\ (m.changed => Len(a.runs) = 1) /\ a.m.changed
         /\ Done(d, m, a.runs, a.m, n)
         /\ Holds(a.m, ApplyAll(d, a.runs).cells, n, v, s)
<1> DEFINE a == Addition(m, n, v, s)
           c == d.cells
           fits == {i \in 1 .. Len(m.empties) : m.empties[i].size = s + 1}
           new == FileCells(n, v, s)
           cl == ClearFlag(m)
<1> SUFFICES /\ Len(a.runs) \in 1 .. 2 /\ (m.changed => Len(a.runs) = 1) /\ a.m.changed
             /\ Done(d, m, a.runs, a.m, n)
             /\ Holds(a.m, ApplyAll(d, a.runs).cells, n, v, s)
  OBVIOUS
<1>1. MemOK(m) /\ m.eoa \in Nat
  BY DEF Described, MemOK
<1>2. IsList(new)
  BY FileCellsAre
<1>3. ASSUME NEW at \in Nat \ {0}, NEW w, NEW o, o = Overwritten(c, at, new),
             a.runs = cl \o <<Run(at, new)>>, a.m = w,
             Described(w, o), Kept(m, c, w, o, n), Holds(w, o, n, v, s), w.changed
      PROVE  /\ Len(a.runs) \in 1 .. 2 /\ (m.changed => Len(a.runs) = 1) /\ a.m.changed
             /\ Done(d, m, a.runs, a.m, n)
             /\ Holds(a.m, ApplyAll(d, a.runs).cells, n, v, s)
  <2> DEFINE runs == a.runs
             e == ApplyAll(d, runs)
  <2>1. DiskOK(d) /\ IsList(new) /\ runs = ClearFlag(m) \o <<Run(at, new)>>
    BY <1>2, <1>3
  <2>2. m.changed => Len(runs) = 1
    <3>1. m.changed => cl = <<>>
      BY DEF ClearFlag
    <3> HIDE DEF cl, runs, new
    <3> QED BY <1>3, <3>1 DEF runs
  <2> HIDE DEF a, new, runs, cl
  <2>3. IsList(runs) /\ Len(runs) \in 1 .. 2 /\ \A i \in 1 .. Len(runs) : RunOK(runs[i])
    BY <2>1, ClearedThenWritten
  <2>4. Wrote(d, ApplyAll(d, runs), at, new)
    BY <2>1, ClearedThenWritten
  <2>5. DiskOK(e) /\ e.cells = o
    BY <1>3, <2>4 DEF Wrote
  <2> HIDE DEF e
  <2>6. Done(d, m, runs, w, n)
    BY <1>3, <2>3, <2>5 DEF Done, e
  <2>7. Holds(w, e.cells, n, v, s)
    BY <1>3, <2>5
  <2> QED BY <1>3, <2>2, <2>3, <2>6, <2>7 DEF runs, e
<1>4. CASE fits = {}
  <2> DEFINE w == AtEnd(m, n, s)
             at == m.eoa
             o == Overwritten(c, at, new)
  <2>1. a.runs = cl \o <<Run(at, new)>>
    BY <1>4 DEF Addition, FileCells
  <2>2. a.m = w
    BY <1>4 DEF Addition, AtEnd
  <2>3. /\ Described(w, o) /\ Kept(m, c, w, o, n) /\ Holds(w, o, n, v, s) /\ w.changed /\ at \in Nat \ {0}
    BY AtEndDescribes
  <2> HIDE DEF a, w, at, o, new, cl
  <2> QED BY <1>3, <2>1, <2>2, <2>3 DEF o
<1>5. CASE fits # {}
  <2> DEFINE j == Min(fits)
             w == InGap(m, n, j, s)
             at == m.empties[j].pos - 2
             o == Overwritten(c, at, new)
  <2>1. j \in fits
    <3>1. fits \subseteq Nat
      OBVIOUS
    <3> HIDE DEF fits
    <3> QED BY <1>5, <3>1, LeastIs
  <2>2. j \in 1 .. Len(m.empties) /\ m.empties[j].size = s + 1
    BY <2>1
  <2>3. a.runs = cl \o <<Run(at, new)>>
    BY <1>5 DEF Addition, FileCells
  <2>4. a.m = w
    <3> DEFINE q == m.empties[j].pos
    <3>1. a.m = [m EXCEPT !.changed = TRUE, !.empties = RemoveAt(@, j), !.eoa = @,
                          !.files = AddFile(@, n, (q - 2) + 3, s)]
      BY <1>5 DEF Addition
    <3>2. (q - 2) + 3 = q + 1
      <4>1. q \in Nat
        BY <1>1, <2>2, Segments
      <4> HIDE DEF q
      <4> QED BY <4>1
    <3> HIDE DEF a, q
    <3> QED BY <3>1, <3>2 DEF InGap, q
  <2> HIDE DEF a, j, cl, fits
  <2>5. /\ Described(w, o) /\ Kept(m, c, w, o, n) /\ Holds(w, o, n, v, s) /\ w.changed /\ at \in Nat \ {0}
    BY <2>2, InGapDescribes
  <2> HIDE DEF w, at, o, new
  <2> QED BY <1>3, <2>3, <2>4, <2>5 DEF o
<1> QED BY <1>4, <1>5

(* Files that two operations keep both keep.                               *)
LEMMA KeptOn ==
  ASSUME NEW m, NEW c, NEW w, NEW o, NEW z, NEW q, NEW n, Kept(m, c, w, o, n), Kept(w, o, z, q, n)
  PROVE  Kept(m, c, z, q, n)
<1>1. /\ DOMAIN w.files \ {n} = DOMAIN m.files \ {n}
      /\ \A x \in DOMAIN m.files \ {n} :
           /\ w.files[x] = m.files[x]
           /\ \A i \in m.files[x].pos + 1 .. m.files[x].pos + m.files[x].size : o[i] = c[i]
  BY DEF Kept
<1>2. /\ DOMAIN z.files \ {n} = DOMAIN w.files \ {n}
      /\ \A x \in DOMAIN w.files \ {n} :
           /\ z.files[x] = w.files[x]
           /\ \A i \in w.files[x].pos + 1 .. w.files[x].pos + w.files[x].size : q[i] = o[i]
  BY DEF Kept
<1>3. DOMAIN z.files \ {n} = DOMAIN m.files \ {n} /\ \A x \in DOMAIN m.files \ {n} : z.files[x] = m.files[x]
  BY <1>1, <1>2
<1>4. ASSUME NEW x \in DOMAIN m.files \ {n}, NEW i \in m.files[x].pos + 1 .. m.files[x].pos + m.files[x].size
      PROVE  q[i] = c[i]
  <2>1. w.files[x] = m.files[x] /\ o[i] = c[i]
    BY <1>1
  <2>2. q[i] = o[i]
    BY <1>1, <1>2, <2>1
  <2> QED BY <2>1, <2>2
<1> QED BY <1>3, <1>4 DEF Kept

(* One operation after another.                                            *)
LEMMA DoneOn ==
  ASSUME NEW d, NEW m, NEW p, NEW w, NEW q, NEW z, NEW n, NEW e, e = ApplyAll(d, p),
         Done(d, m, p, w, n), Done(e, w, q, z, n), Len(p) + Len(q) \in 0 .. 4
  PROVE  Done(d, m, p \o q, z, n) /\ ApplyAll(d, p \o q) = ApplyAll(e, q)
         /\ Len(p \o q) = Len(p) + Len(q)
<1> DEFINE u == p \o q
           g == ApplyAll(e, q)
<1>1. /\ IsList(p) /\ \A i \in 1 .. Len(p) : RunOK(p[i])
      /\ Described(w, e.cells) /\ Kept(m, d.cells, w, e.cells, n)
  BY DEF Done
<1>2. /\ IsList(q) /\ \A i \in 1 .. Len(q) : RunOK(q[i])
      /\ DiskOK(g) /\ Described(z, g.cells) /\ Kept(w, e.cells, z, g.cells, n)
  BY DEF Done
<1>3. /\ IsList(u) /\ Len(u) = Len(p) + Len(q) /\ \A i \in 1 .. Len(u) : RunOK(u[i])
  BY <1>1, <1>2, ConcatRuns
<1>4. ApplyAll(d, u) = g
  BY <1>1, <1>2, ApplyConcat
<1> HIDE DEF u, g
<1>5. Kept(m, d.cells, z, g.cells, n)
  BY <1>1, <1>2, KeptOn
<1>6. Done(d, m, u, z, n)
  BY <1>2, <1>3, <1>4, <1>5 DEF Done
<1> QED BY <1>3, <1>4, <1>6 DEF u, g

(* What write() does before it adds the file: nothing, or a removal.       *)
LEMMA ReplacedDone ==
  ASSUME DiskOK(Image), Described(mem, Image.cells), NEW n \in Name
  PROVE  LET r == Replaced(n) IN
         /\ r.verified /\ Len(r.runs) \in 0 .. 2 /\ (r.m.changed \/ Len(r.runs) = 0)
         /\ n \notin DOMAIN r.m.files
         /\ Done(Image, mem, r.runs, r.m, n)
<1> DEFINE r == Replaced(n)
<1> SUFFICES /\ r.verified /\ Len(r.runs) \in 0 .. 2 /\ (r.m.changed \/ Len(r.runs) = 0)
             /\ n \notin DOMAIN r.m.files
             /\ Done(Image, mem, r.runs, r.m, n)
  OBVIOUS
<1>1. CASE n \in DOMAIN mem.files
  <2>1. r = Removal(mem, n)
    BY <1>1 DEF Replaced
  <2> HIDE DEF r
  <2> QED BY <1>1, <2>1, RemovalDone
<1>2. CASE n \notin DOMAIN mem.files
  <2>1. r = NoRemoval(mem)
    BY <1>2 DEF Replaced
  <2> DEFINE none == <<>>
             c == Image.cells
  <2>2. r.verified /\ r.runs = none /\ r.m = mem
    BY <2>1 DEF NoRemoval
  <2>3. IsList(none) /\ Len(none) = 0
    BY DEF IsList
  <2>4. ApplyAll(Image, none) = Image
    BY ApplyNone
  <2>5. Kept(mem, c, mem, c, n)
    BY DEF Kept
  <2> HIDE DEF none, r
  <2>6. Done(Image, mem, none, mem, n)
    BY <2>3, <2>4, <2>5 DEF Done
  <2> QED BY <1>2, <2>2, <2>3, <2>6
<1> QED BY <1>1, <1>2

(* writeFile as a whole.                                                   *)
LEMMA WriteDone ==
  ASSUME DiskOK(Image), Described(mem, Image.cells), NEW n \in Name, NEW v, NEW s \in Nat,
         NEW a, a = Addition(Replaced(n).m, n, v, s), NEW runs, runs = Replaced(n).runs \o a.runs
  PROVE  /\ Replaced(n).verified /\ Len(runs) \in 1 .. 3 /\ a.m.changed
         /\ Done(Image, mem, runs, a.m, n)
         /\ Holds(a.m, ApplyAll(Image, runs).cells, n, v, s)
<1> DEFINE r == Replaced(n)
           d == ApplyAll(Image, r.runs)
           p == r.runs
           q == a.runs
<1>1. /\ r.verified /\ Len(p) \in 0 .. 2 /\ (r.m.changed \/ Len(p) = 0)
      /\ n \notin DOMAIN r.m.files
      /\ Done(Image, mem, p, r.m, n)
  BY ReplacedDone
<1>2. DiskOK(d) /\ Described(r.m, d.cells)
  BY <1>1 DEF Done
<1>3. a = Addition(r.m, n, v, s) /\ runs = p \o q /\ d = ApplyAll(Image, p)
  OBVIOUS
<1> HIDE DEF r, d
<1>4. /\ Len(q) \in 1 .. 2 /\ (r.m.changed => Len(q) = 1) /\ a.m.changed
      /\ Done(d, r.m, q, a.m, n)
      /\ Holds(a.m, ApplyAll(d, q).cells, n, v, s)
  BY <1>1, <1>2, <1>3, AdditionDone
<1> HIDE DEF p, q
<1>5. Len(p) + Len(q) \in 1 .. 3
  <2> DEFINE x == Len(p)
             y == Len(q)
  <2>1. x \in 0 .. 2 /\ y \in 1 .. 2 /\ (x = 0 \/ y = 1)
    BY <1>1, <1>4
  <2> HIDE DEF x, y
  <2>2. x + y \in 1 .. 3
    BY <2>1
  <2> QED BY <2>2 DEF x, y
<1>6. Done(Image, mem, runs, a.m, n) /\ ApplyAll(Image, runs) = ApplyAll(d, q) /\ Len(runs) = Len(p) + Len(q)
  <2>1. Len(p) + Len(q) \in 0 .. 4
    BY <1>5
  <2>2. Done(Image, mem, p \o q, a.m, n) /\ ApplyAll(Image, p \o q) = ApplyAll(d, q)
        /\ Len(p \o q) = Len(p) + Len(q)
    BY <1>1, <1>3, <1>4, <2>1, DoneOn
  <2> QED BY <1>3, <2>2
<1> QED BY <1>1, <1>4, <1>5, <1>6 DEF r

-----------------------------------------------------------------------------
(* The invariant.                                                          *)

(* Every file is kept, with its data. *)
AllKept(m, c, w, o) ==
  /\ w.files = m.files
  /\ \A x \in DOMAIN m.files :
       \A i \in m.files[x].pos + 1 .. m.files[x].pos + m.files[x].size : o[i] = c[i]

(* Only the cells in front of the archive's end count.                     *)
LEMMA StillDescribed ==
  ASSUME NEW m, NEW c, Described(m, c), NEW w, NEW o, MemOK(w),
         w.files = m.files, w.empties = m.empties, w.eoa = m.eoa,
         IsList(o), m.eoa <= Len(o) + 1, \A i \in 1 .. m.eoa - 1 : o[i] = c[i]
  PROVE  Described(w, o) /\ AllKept(m, c, w, o)
<1>1. /\ MemOK(m) /\ IsList(c) /\ m.eoa <= Len(c) + 1
      /\ Tiling(Ids(m), Lo(m), Hi(m), m.eoa)
      /\ \A k \in Ids(m) : c[Lo(m)[k]] = Start /\ c[Hi(m)[k]] = End
  BY DEF Described
<1>2. Ids(w) = Ids(m)
  BY DEF Ids
<1>3. Lo(w) = Lo(m) /\ Hi(w) = Hi(m)
  BY <1>2 DEF Lo, Hi
<1>4. ASSUME NEW k \in Ids(m) PROVE \A i \in Lo(m)[k] .. Hi(m)[k] : o[i] = c[i]
  <2>1. Lo(m)[k] \in Nat /\ Hi(m)[k] \in Nat /\ 1 <= Lo(m)[k] /\ Hi(m)[k] < m.eoa /\ m.eoa \in Nat
    BY <1>1 DEF Tiling
  <2> DEFINE l == Lo(m)[k]
             h == Hi(m)[k]
             e == m.eoa
  <2>2. l \in Nat /\ h \in Nat /\ 1 <= l /\ h < e /\ e \in Nat /\ \A i \in 1 .. e - 1 : o[i] = c[i]
    BY <2>1
  <2> HIDE DEF l, h, e
  <2>3. \A i \in l .. h : i \in 1 .. e - 1
    BY <2>2
  <2>4. \A i \in l .. h : o[i] = c[i]
    BY <2>2, <2>3
  <2> QED BY <2>4 DEF l, h
<1>5. \A k \in Ids(m) : o[Lo(m)[k]] = Start /\ o[Hi(m)[k]] = End
  <2> SUFFICES ASSUME NEW k \in Ids(m) PROVE o[Lo(m)[k]] = Start /\ o[Hi(m)[k]] = End
    OBVIOUS
  <2>1. Lo(m)[k] \in Nat /\ Hi(m)[k] \in Nat /\ Lo(m)[k] <= Hi(m)[k]
    BY <1>1 DEF Tiling
  <2>2. o[Lo(m)[k]] = c[Lo(m)[k]] /\ o[Hi(m)[k]] = c[Hi(m)[k]]
    BY <1>4, <2>1
  <2> QED BY <1>1, <2>2
<1>6. Described(w, o)
  <2>1. Tiling(Ids(w), Lo(w), Hi(w), w.eoa) /\ w.eoa <= Len(o) + 1
    BY <1>1, <1>2, <1>3
  <2>2. \A k \in Ids(w) : o[Lo(w)[k]] = Start /\ o[Hi(w)[k]] = End
    BY <1>2, <1>3, <1>5
  <2> QED BY <2>1, <2>2 DEF Described
<1>7. ASSUME NEW x \in DOMAIN m.files
      PROVE  \A i \in m.files[x].pos + 1 .. m.files[x].pos + m.files[x].size : o[i] = c[i]
  <2>1. <<1, x>> \in Ids(m)
    BY <1>1, Segments
  <2>2. \A i \in Lo(m)[<<1, x>>] .. Hi(m)[<<1, x>>] : o[i] = c[i]
    BY <1>4, <2>1
  <2>3. MemOK(m) /\ x \in DOMAIN m.files
    BY <1>1
  <2> QED BY <2>2, <2>3, SpanKept
<1> QED BY <1>6, <1>7 DEF AllKept

(* An empty archive.                                                       *)
LEMMA EmptyDescribed ==
  ASSUME NEW b \in BOOLEAN, NEW m, m = [files |-> <<>>, empties |-> <<>>, eoa |-> 1, changed |-> b]
  PROVE  Described(m, <<>>) /\ m.files = <<>> /\ m.changed = b
<1> DEFINE c == <<>>
<1>1. m.files = <<>> /\ m.empties = <<>> /\ m.eoa = 1 /\ m.changed = b
  OBVIOUS
<1>2. DOMAIN m.files = {} /\ Len(m.empties) = 0 /\ m.files \in [{} -> Piece] /\ m.empties \in Seq(Piece)
  BY <1>1
<1>3. MemOK(m)
  <2>1. m = [files |-> m.files, empties |-> m.empties, eoa |-> m.eoa, changed |-> m.changed]
    OBVIOUS
  <2>2. IsFiniteSet({})
    BY FS_EmptySet
  <2>3. m.changed \in BOOLEAN
    BY <1>1
  <2> QED BY <1>1, <1>2, <2>1, <2>2, <2>3 DEF MemOK
<1>4. Ids(m) = {}
  BY <1>2 DEF Ids
<1>5. Lo(m) \in [{} -> Nat] /\ Hi(m) \in [{} -> Nat]
  BY <1>4 DEF Lo, Hi
<1>6. Tiling(Ids(m), Lo(m), Hi(m), m.eoa)
  <2> DEFINE lo == Lo(m)
             hi == Hi(m)
  <2>1. lo \in [{} -> Nat] /\ hi \in [{} -> Nat]
    BY <1>5
  <2> HIDE DEF lo, hi
  <2>2. \A p \in 1 .. 1 - 1 : \E k \in {} : lo[k] <= p /\ p <= hi[k]
    OBVIOUS
  <2>3. Tiling({}, lo, hi, 1)
    BY <2>1, <2>2 DEF Tiling
  <2> QED BY <1>1, <1>4, <2>3 DEF lo, hi
<1>7. IsList(c) /\ Len(c) = 0
  BY DEF IsList
<1> HIDE DEF c
<1>8. Described(m, c)
  BY <1>1, <1>3, <1>4, <1>6, <1>7 DEF Described
<1> QED BY <1>1, <1>8 DEF c

(* What OInv says of the buffer and of the file as its stream sees it.     *)
LEMMA StreamOK ==
  ASSUME OInv
  PROVE  /\ DiskOK(disk) /\ IsList(pending) /\ Len(pending) \in 0 .. 1
         /\ \A i \in 1 .. Len(pending) : RunOK(pending[i])
         /\ DiskOK(Image)
         /\ pending = <<>> => Image = disk
<1>1. DiskOK(disk)
  BY DEF OInv
<1>2. IsList(pending) /\ Len(pending) \in 0 .. 1 /\ \A i \in 1 .. Len(pending) : RunOK(pending[i])
  <2>1. CASE pending = <<>>
    BY <2>1 DEF IsList
  <2>2. CASE Len(pending) = 1 /\ pending = <<pending[1]>> /\ RunOK(pending[1])
    <3>1. IsList(pending)
      <4> DEFINE x == pending[1]
      <4>1. pending = <<x>>
        BY <2>2
      <4>2. IsList(<<x>>)
        BY DEF IsList
      <4> QED BY <4>1, <4>2
    <3> QED BY <2>2, <3>1
  <2> QED BY <2>1, <2>2 DEF OInv
<1>3. DiskOK(Image)
  <2>1. Len(pending) \in 0 .. 4
    BY <1>2
  <2> QED BY <1>1, <1>2, <2>1, AppliedKeepsDisk DEF Image
<1>4. pending = <<>> => Image = disk
  BY ApplyNone DEF Image
<1> QED BY <1>1, <1>2, <1>3, <1>4

(* What a step writes and flushes is what its stream sees afterwards.      *)
LEMMA FlushedStep ==
  ASSUME OInv, NEW runs, IsList(runs), Len(runs) \in 0 .. 3, \A i \in 1 .. Len(runs) : RunOK(runs[i]),
         EmitAndFlush(runs)
  PROVE  /\ disk' = ApplyAll(Image, runs) /\ Image' = disk' /\ pending' = <<>> /\ DiskOK(disk')
<1>1. disk' = ApplyAll(disk, pending \o runs) /\ pending' = <<>>
  BY DEF EmitAndFlush
<1>2. ApplyAll(disk, pending \o runs) = ApplyAll(Image, runs) /\ DiskOK(ApplyAll(Image, runs))
  BY StreamOK, Flushed
<1>3. Image' = ApplyAll(disk', pending')
  BY DEF Image
<1>4. Image' = disk'
  BY <1>1, <1>3, ApplyNone
<1> QED BY <1>1, <1>2, <1>4

(* What a step writes and leaves in the buffer, too.                       *)
LEMMA EmittedStep ==
  ASSUME OInv, NEW runs, IsList(runs), Len(runs) \in 1 .. 3, \A i \in 1 .. Len(runs) : RunOK(runs[i]),
         Emit(runs)
  PROVE  /\ Image' = ApplyAll(Image, runs) /\ DiskOK(disk')
         /\ Len(pending') = 1 /\ pending' = <<pending'[1]>> /\ RunOK(pending'[1])
<1>1. runs # <<>> /\ Len(runs) \in 0 .. 3
  OBVIOUS
<1>2. Image' = ApplyAll(Image, runs)
  BY <1>1, StreamOK, Emitted
<1>3. DiskOK(disk')
  BY <1>1, StreamOK, Emitted
<1>4. Len(pending') = 1 /\ pending' = <<pending'[1]>> /\ RunOK(pending'[1])
  BY <1>1, StreamOK, Emitted
<1> QED BY <1>2, <1>3, <1>4

(* The index and the file that count: those of the process that has the     *)
(* archive open or closes it, or those that the next one will find.        *)
IndexNow == IF status # "closed" THEN mem ELSE IF disk.flag = -1 THEN Closed ELSE TableIndex(disk)
FileNow  == IF status = "open" THEN Image ELSE disk

(* Under the invariant the index that counts describes the file that counts, *)
(* and Contents is what they hold.                                         *)
LEMMA ViewIs ==
  ASSUME OInv
  PROVE  /\ Described(IndexNow, FileNow.cells)
         /\ Contents = [n \in Name |-> Content(IndexNow.files, FileNow, n)]
         /\ status \in {"closed", "open", "truncating"}
<1>1. CASE status = "closed" /\ mem = Closed /\ disk = NoFile
  <2>1. disk.flag = -1 /\ disk.cells = <<>>
    BY <1>1 DEF NoFile
  <2>2. Closed = [files |-> <<>>, empties |-> <<>>, eoa |-> 1, changed |-> FALSE]
    BY DEF Closed
  <2>3. Described(Closed, <<>>) /\ Closed.files = <<>>
    BY <2>2, EmptyDescribed
  <2>4. IndexNow = Closed /\ FileNow = disk
    BY <1>1, <2>1 DEF IndexNow, FileNow
  <2>5. Contents = [n \in Name |-> Content(<<>>, disk, n)]
    BY <1>1, <2>1 DEF Contents
  <2> QED BY <1>1, <2>1, <2>3, <2>4, <2>5
<1>2. CASE status = "closed" /\ Saved(disk, TableIndex(disk)) /\ Described(TableIndex(disk), disk.cells)
  <2>1. disk.flag = 1 /\ HasTable(disk)
    BY <1>2 DEF Saved
  <2>2. disk.flag # -1 /\ Readable(disk) /\ Index(disk, TRUE) = TableIndex(disk)
    BY <2>1 DEF Readable, Index
  <2>3. IndexNow = TableIndex(disk) /\ FileNow = disk
    BY <1>2, <2>2 DEF IndexNow, FileNow
  <2>4. Contents = [n \in Name |-> Content(TableIndex(disk).files, disk, n)]
    BY <1>2, <2>2 DEF Contents
  <2> QED BY <1>2, <2>3, <2>4
<1>3. CASE status = "open" /\ Described(mem, Image.cells)
  <2>1. IndexNow = mem /\ FileNow = Image
    BY <1>3 DEF IndexNow, FileNow
  <2>2. Contents = [n \in Name |-> Content(mem.files, Image, n)]
    BY <1>3 DEF Contents
  <2> QED BY <1>3, <2>1, <2>2
<1>4. CASE status = "truncating" /\ Described(mem, disk.cells)
  <2>1. IndexNow = mem /\ FileNow = disk
    BY <1>4 DEF IndexNow, FileNow
  <2>2. Contents = [n \in Name |-> Content(mem.files, disk, n)]
    BY <1>4 DEF Contents
  <2> QED BY <1>4, <2>1, <2>2
<1> QED BY <1>1, <1>2, <1>3, <1>4 DEF OInv

(* A step leaves every file as it is, or every file but n.                 *)
AllStay == AllKept(IndexNow, FileNow.cells, IndexNow', FileNow'.cells)
OthersStay(n) == Kept(IndexNow, FileNow.cells, IndexNow', FileNow'.cells, n)

(* Opening an archive finds every file of it.                              *)
LEMMA OpenStep ==
  ASSUME OInv, Open
  PROVE  OInv' /\ AllStay
<1>1. /\ status = "closed" /\ mem = Closed /\ pending = <<>> /\ DiskOK(disk) /\ ops \in Nat
      /\ \/ disk = NoFile
         \/ Saved(disk, TableIndex(disk)) /\ Described(TableIndex(disk), disk.cells)
  BY DEF OInv, Open
<1>2. disk' = disk /\ ops' = ops /\ DiskOK(disk') /\ ops' \in Nat
  BY <1>1 DEF Open
<1>3. CASE disk = NoFile
  <2> DEFINE f == FlagRun(0)
             c == <<>>
  <2>1. disk.flag = -1 /\ disk.cells = c
    BY <1>3 DEF NoFile
  <2>2. pending' = <<f>> /\ mem' = [Closed EXCEPT !.changed = TRUE] /\ status' = "open"
    BY <2>1 DEF Open
  <2>3. Image' = [flag |-> 0, cells |-> c]
    <3>1. Image' = ApplyAll(disk', pending')
      BY DEF Image
    <3>2. Image' = Apply(disk, f)
      BY <1>2, <2>2, <3>1, ApplyOne
    <3> QED BY <1>1, <2>1, <3>2, ApplyIs
  <2>4. mem' = [files |-> <<>>, empties |-> <<>>, eoa |-> 1, changed |-> TRUE]
    BY <2>2 DEF Closed
  <2>5. Described(mem', c) /\ mem'.files = <<>> /\ mem'.changed
    <3>1. TRUE \in BOOLEAN
      OBVIOUS
    <3>2. Described(mem', <<>>) /\ mem'.files = <<>> /\ mem'.changed = TRUE
      BY <2>4, <3>1, EmptyDescribed
    <3> QED BY <3>2
  <2>6. RunOK(f)
    BY DEF RunOK, FlagRun
  <2> HIDE DEF f, c
  <2>7. Image'.cells = c
    BY <2>3
  <2>8. Len(pending') = 1 /\ pending' = <<pending'[1]>> /\ RunOK(pending'[1])
    BY <2>2, <2>6
  <2>9. OInv'
    BY <1>2, <2>2, <2>5, <2>7, <2>8 DEF OInv
  <2>10. IndexNow = Closed /\ IndexNow' = mem'
    BY <1>1, <2>1, <2>2 DEF IndexNow
  <2>11. Closed.files = <<>> /\ DOMAIN Closed.files = {}
    BY DEF Closed
  <2> QED BY <2>5, <2>9, <2>10, <2>11 DEF AllStay, AllKept
<1>4. CASE Saved(disk, TableIndex(disk)) /\ Described(TableIndex(disk), disk.cells)
  <2>1. disk.flag = 1 /\ HasTable(disk)
    BY <1>4 DEF Saved
  <2>2. disk.flag # -1 /\ Readable(disk) /\ \A r : Index(disk, r) = TableIndex(disk)
    BY <2>1 DEF Readable, Index
  <2>3. mem' = TableIndex(disk) /\ status' = "open" /\ pending' = <<>>
    BY <1>1, <2>2 DEF Open
  <2>4. Image' = disk
    <3>1. Image' = ApplyAll(disk', pending')
      BY DEF Image
    <3> QED BY <1>2, <2>3, <3>1, ApplyNone
  <2>5. OInv'
    BY <1>2, <1>4, <2>3, <2>4 DEF OInv
  <2>6. IndexNow = TableIndex(disk) /\ IndexNow' = mem' /\ FileNow = disk /\ FileNow' = Image'
    BY <1>1, <2>2, <2>3 DEF IndexNow, FileNow
  <2> QED BY <2>3, <2>4, <2>5, <2>6 DEF AllStay, AllKept
<1> QED BY <1>1, <1>3, <1>4

(* Reading flushes the stream and changes no file.                         *)
LEMMA ReadStep ==
  ASSUME OInv, ReadFile
  PROVE  OInv' /\ AllStay
<1> DEFINE none == <<>>
<1>1. /\ status = "open" /\ Described(mem, Image.cells) /\ mem.changed /\ ops \in Nat
      /\ EmitAndFlush(none) /\ UNCHANGED <<status, mem, ops>>
  BY DEF OInv, ReadFile
<1>2. IsList(none) /\ Len(none) \in 0 .. 3 /\ \A i \in 1 .. Len(none) : RunOK(none[i])
  BY DEF IsList
<1>3. ApplyAll(Image, none) = Image
  BY ApplyNone
<1> HIDE DEF none
<1>4. disk' = ApplyAll(Image, none) /\ Image' = disk' /\ pending' = <<>> /\ DiskOK(disk')
  BY <1>1, <1>2, FlushedStep
<1>5. OInv'
  BY <1>1, <1>3, <1>4 DEF OInv
<1>6. IndexNow = mem /\ IndexNow' = mem /\ FileNow = Image /\ FileNow' = Image
  BY <1>1, <1>3, <1>4 DEF IndexNow, FileNow
<1> QED BY <1>5, <1>6 DEF AllStay, AllKept

(* clear() drops every file.                                               *)
LEMMA ClearStep ==
  ASSUME OInv, ClearArchive
  PROVE  OInv' /\ IndexNow'.files = <<>>
<1> DEFINE c == <<>>
<1>1. /\ status' = "open" /\ ops \in Nat /\ ops' = ops + 1
      /\ disk' = [flag |-> 0, cells |-> c] /\ pending' = <<>>
      /\ mem' = [Closed EXCEPT !.changed = TRUE]
  BY DEF OInv, ClearArchive, Called
<1>2. mem' = [files |-> <<>>, empties |-> <<>>, eoa |-> 1, changed |-> TRUE]
  BY <1>1 DEF Closed
<1>3. Described(mem', c) /\ mem'.files = <<>> /\ mem'.changed
  <2>1. TRUE \in BOOLEAN
    OBVIOUS
  <2>2. Described(mem', <<>>) /\ mem'.files = <<>> /\ mem'.changed = TRUE
    BY <1>2, <2>1, EmptyDescribed
  <2> QED BY <2>2
<1>4. Image' = disk'
  <2>1. Image' = ApplyAll(disk', pending')
    BY DEF Image
  <2> QED BY <1>1, <2>1, ApplyNone
<1>5. IsList(c)
  BY DEF IsList
<1> HIDE DEF c
<1>6. disk'.flag = 0 /\ disk'.cells = c /\ DiskOK(disk')
  BY <1>1, <1>5 DEF DiskOK
<1>7. OInv'
  BY <1>1, <1>3, <1>4, <1>6 DEF OInv
<1>8. IndexNow' = mem'
  BY <1>1 DEF IndexNow
<1> QED BY <1>3, <1>7, <1>8

(* remove() takes away its file and keeps the others.                      *)
LEMMA RemoveStep ==
  ASSUME OInv, NEW n \in Name, RemoveFile(n)
  PROVE  /\ OInv' /\ OthersStay(n)
         /\ n \in DOMAIN IndexNow.files /\ n \notin DOMAIN IndexNow'.files
<1> DEFINE r == Removal(mem, n)
           runs == r.runs
<1>1. /\ status = "open" /\ Described(mem, Image.cells) /\ ops \in Nat /\ ops' = ops + 1
      /\ n \in DOMAIN mem.files /\ EmitAndFlush(runs)
      /\ IF r.verified THEN mem' = r.m /\ status' = status ELSE status' = "aborted" /\ mem' = mem
  BY DEF OInv, RemoveFile, Called
<1>2. DiskOK(Image)
  BY StreamOK
<1>3. /\ r.verified /\ Len(runs) \in 0 .. 2 /\ r.m.changed /\ n \notin DOMAIN r.m.files
      /\ Done(Image, mem, runs, r.m, n)
  BY <1>1, <1>2, RemovalDone
<1> HIDE DEF r
<1>4. mem' = r.m /\ status' = "open"
  BY <1>1, <1>3
<1> HIDE DEF runs
<1>5. /\ IsList(runs) /\ \A i \in 1 .. Len(runs) : RunOK(runs[i])
      /\ Described(r.m, ApplyAll(Image, runs).cells)
      /\ Kept(mem, Image.cells, r.m, ApplyAll(Image, runs).cells, n)
  BY <1>3 DEF Done
<1>6. Len(runs) \in 0 .. 3
  BY <1>3
<1>7. disk' = ApplyAll(Image, runs) /\ Image' = disk' /\ pending' = <<>> /\ DiskOK(disk')
  BY <1>1, <1>5, <1>6, FlushedStep
<1>8. mem'.changed /\ Described(mem', Image'.cells) /\ ops' \in Nat
  BY <1>1, <1>3, <1>4, <1>5, <1>7
<1>9. OInv'
  BY <1>4, <1>7, <1>8 DEF OInv
<1>10. IndexNow = mem /\ IndexNow' = mem' /\ FileNow = Image /\ FileNow' = Image'
  BY <1>1, <1>4 DEF IndexNow, FileNow
<1>11. OthersStay(n)
  BY <1>4, <1>5, <1>7, <1>10 DEF OthersStay
<1> QED BY <1>1, <1>3, <1>4, <1>9, <1>10, <1>11

(* writeFile leaves its file with the new data and keeps the others.       *)
LEMMA WriteStep ==
  ASSUME OInv, NEW n \in Name, NEW s \in Nat, WriteFile(n, s)
  PROVE  /\ OInv' /\ OthersStay(n)
         /\ Holds(IndexNow', FileNow'.cells, n, ops', s)
<1> DEFINE r == Replaced(n)
           a == Addition(r.m, n, ops', s)
           runs == r.runs \o a.runs
<1>1. /\ status = "open" /\ Described(mem, Image.cells) /\ ops \in Nat /\ ops' = ops + 1
      /\ IF r.verified
         THEN Emit(runs) /\ mem' = a.m /\ status' = status
         ELSE EmitAndFlush(r.runs) /\ status' = "aborted" /\ mem' = mem
  BY DEF OInv, WriteFile, Called
<1>2. DiskOK(Image)
  BY StreamOK
<1>3. /\ r.verified /\ Len(runs) \in 1 .. 3 /\ a.m.changed
      /\ Done(Image, mem, runs, a.m, n)
      /\ Holds(a.m, ApplyAll(Image, runs).cells, n, ops', s)
  <2> DEFINE v == ops'
             b == Addition(Replaced(n).m, n, v, s)
             q == Replaced(n).runs \o b.runs
  <2>1. DiskOK(Image) /\ Described(mem, Image.cells)
    BY <1>1, <1>2
  <2> HIDE DEF v
  <2>2. /\ Replaced(n).verified /\ Len(q) \in 1 .. 3 /\ b.m.changed
        /\ Done(Image, mem, q, b.m, n)
        /\ Holds(b.m, ApplyAll(Image, q).cells, n, v, s)
    <3> HIDE DEF b, q
    <3>1. b = Addition(Replaced(n).m, n, v, s) /\ q = Replaced(n).runs \o b.runs
      BY DEF b, q
    <3> QED BY <2>1, <3>1, WriteDone
  <2> QED BY <2>2 DEF v
<1> HIDE DEF r, a
<1>4. Emit(runs) /\ mem' = a.m /\ status' = "open"
  BY <1>1, <1>3
<1> HIDE DEF runs
<1>5. /\ IsList(runs) /\ \A i \in 1 .. Len(runs) : RunOK(runs[i])
      /\ Described(a.m, ApplyAll(Image, runs).cells)
      /\ Kept(mem, Image.cells, a.m, ApplyAll(Image, runs).cells, n)
  BY <1>3 DEF Done
<1>6. /\ Image' = ApplyAll(Image, runs) /\ DiskOK(disk')
      /\ Len(pending') = 1 /\ pending' = <<pending'[1]>> /\ RunOK(pending'[1])
  BY <1>3, <1>4, <1>5, EmittedStep
<1>7. mem'.changed /\ Described(mem', Image'.cells) /\ ops' \in Nat
  BY <1>1, <1>3, <1>4, <1>5, <1>6
<1>8. OInv'
  BY <1>4, <1>6, <1>7 DEF OInv
<1>9. IndexNow = mem /\ IndexNow' = mem' /\ FileNow = Image /\ FileNow' = Image'
  BY <1>1, <1>4 DEF IndexNow, FileNow
<1>10. OthersStay(n)
  BY <1>4, <1>5, <1>6, <1>9 DEF OthersStay
<1>11. Holds(IndexNow', FileNow'.cells, n, ops', s)
  BY <1>3, <1>4, <1>6, <1>9
<1> QED BY <1>8, <1>10, <1>11

(* The segments of w are those of m, and so are the cells in front of the  *)
(* archive's end.                                                          *)
SameTo(m, c, w, o) ==
  /\ w.files = m.files /\ w.empties = m.empties /\ w.eoa = m.eoa
  /\ IsList(o) /\ m.eoa <= Len(o) + 1 /\ \A i \in 1 .. m.eoa - 1 : o[i] = c[i]

(* Writing the table behind the segments describes the same files.         *)
LEMMA TableWritten ==
  ASSUME NEW m, NEW c, Described(m, c), NEW o, o = Overwritten(c, m.eoa, TableCells(m))
  PROVE  Described(m, o) /\ Written(m, o) /\ AllKept(m, c, m, o) /\ SameTo(m, c, m, o)
<1> DEFINE T == TableCells(m)
           e == m.eoa
<1>1. MemOK(m) /\ IsList(c) /\ e <= Len(c) + 1 /\ e \in Nat \ {0}
  BY DEF Described, MemOK
<1>2. IsList(T)
  BY <1>1, TableLayout DEF Layout
<1>3. o = Overwritten(c, e, T)
  OBVIOUS
<1> HIDE DEF T, e
<1>4. /\ IsList(o) /\ Len(o) \in Nat /\ Len(o) >= Len(c) /\ Len(o) >= e + Len(T) - 1
  BY <1>1, <1>2, <1>3, OverwrittenCells
<1>5. \A i \in 1 .. Len(T) : o[e + i - 1] = T[i]
  BY <1>1, <1>2, <1>3, OverwrittenCells
<1>6. \A i \in 1 .. Len(c) : i < e \/ i > e + Len(T) - 1 => o[i] = c[i]
  BY <1>1, <1>2, <1>3, OverwrittenCells
<1>7. \A i \in 1 .. e - 1 : o[i] = c[i]
  <2>1. Len(c) \in Nat
    BY <1>1 DEF IsList
  <2> DEFINE n == Len(c)
  <2>2. n \in Nat /\ e <= n + 1 /\ e \in Nat
    BY <1>1, <2>1
  <2> HIDE DEF n
  <2>3. \A i \in 1 .. e - 1 : i \in 1 .. n /\ i < e
    BY <2>2
  <2> QED BY <1>6, <2>3 DEF n
<1>8. e <= Len(o) + 1
  <2> DEFINE n == Len(c)
             k == Len(o)
  <2>1. n \in Nat /\ k \in Nat /\ e <= n + 1 /\ e \in Nat /\ k >= n
    BY <1>1, <1>4 DEF IsList
  <2> HIDE DEF n, k
  <2>2. e <= k + 1
    BY <2>1
  <2> QED BY <2>2 DEF k
<1>9. Written(m, o)
  BY <1>4, <1>5 DEF Written, T, e
<1>10. Described(m, o) /\ AllKept(m, c, m, o)
  BY <1>1, <1>4, <1>7, <1>8, StillDescribed DEF e
<1>11. SameTo(m, c, m, o)
  BY <1>4, <1>7, <1>8 DEF SameTo, e
<1> QED BY <1>9, <1>10, <1>11

(* Closing writes a table that gives the index back, and keeps every file. *)
LEMMA CloseStep ==
  ASSUME OInv, Close
  PROVE  OInv' /\ AllStay /\ SameTo(mem, Image.cells, mem, disk'.cells)
<1> DEFINE runs == Finish(mem)
<1>1. /\ status = "open" /\ Described(mem, Image.cells) /\ ops \in Nat
      /\ mem.changed \/ Saved(disk, mem)
      /\ EmitAndFlush(runs) /\ status' = "truncating" /\ mem' = mem /\ ops' = ops
  BY DEF OInv, Close
<1>2. IndexNow = mem /\ IndexNow' = mem /\ FileNow = Image /\ FileNow' = disk'
  BY <1>1 DEF IndexNow, FileNow
<1>3. CASE mem.changed
  <2> DEFINE T == TableCells(mem)
             e == mem.eoa
             r == Run(e, T)
             f == FlagRun(1)
             one == <<r>>
             two == <<r, f>>
             c == Image.cells
             o == Overwritten(c, e, T)
  <2>1. runs = two
    BY <1>3 DEF Finish
  <2>2. MemOK(mem) /\ e \in Nat \ {0}
    BY <1>1 DEF Described, MemOK
  <2>3. IsList(T)
    BY <2>2, TableLayout DEF Layout
  <2>4. Described(mem, o) /\ Written(mem, o) /\ AllKept(mem, c, mem, o) /\ SameTo(mem, c, mem, o)
    BY <1>1, TableWritten
  <2> HIDE DEF T, e
  <2>5. RunOK(r)
    BY <2>2, <2>3, CellRun
  <2>6. RunOK(f)
    BY DEF RunOK, FlagRun
  <2>7. /\ Len(one) = 1 /\ one[1] = r /\ Len(two) = 2 /\ two[1] = r /\ two[2] = f
    OBVIOUS
  <2>8. IsList(two)
    BY DEF IsList
  <2>9. DiskOK(Image)
    BY StreamOK
  <2>10. ApplyAll(Image, one) = [flag |-> Image.flag, cells |-> o]
    <3>1. ApplyAll(Image, one) = Apply(Image, r)
      BY ApplyOne
    <3> QED BY <2>9, <3>1, ApplyIs
  <2> HIDE DEF one, two, r, o
  <2>11. ApplyAll(Image, two) = Apply(ApplyAll(Image, one), f)
    <3>1. Len(one) \in 0 .. 3 /\ Len(two) = Len(one) + 1 /\ \A i \in 1 .. Len(one) : two[i] = one[i]
      BY <2>7
    <3>2. ApplyAll(Image, two) = Apply(ApplyAll(Image, one), two[Len(two)])
      BY <3>1, ApplyLast
    <3> QED BY <2>7, <3>2
  <2>12. ApplyAll(Image, two) = [flag |-> 1, cells |-> o]
    <3> DEFINE d == ApplyAll(Image, one)
    <3>1. IsList(o)
      BY <2>4 DEF Described
    <3>2. d.cells = o /\ DiskOK(d)
      BY <2>10, <3>1 DEF DiskOK
    <3> HIDE DEF d
    <3>3. Apply(d, f) = [flag |-> 1, cells |-> d.cells]
      BY <3>2, ApplyIs
    <3> QED BY <2>11, <3>2, <3>3 DEF d
  <2> HIDE DEF f, runs
  <2>13. \A i \in 1 .. Len(two) : RunOK(two[i])
    BY <2>5, <2>6, <2>7
  <2>14. disk' = ApplyAll(Image, two) /\ Image' = disk' /\ pending' = <<>> /\ DiskOK(disk')
    <3>1. Len(two) \in 0 .. 3 /\ EmitAndFlush(two)
      BY <1>1, <2>1, <2>7
    <3> QED BY <2>8, <2>13, <3>1, FlushedStep
  <2>15. disk'.flag = 1 /\ disk'.cells = o
    BY <2>12, <2>14
  <2>16. OInv'
    BY <1>1, <1>3, <2>4, <2>14, <2>15 DEF OInv
  <2>17. AllStay
    BY <1>2, <2>4, <2>15 DEF AllStay
  <2> QED BY <2>4, <2>15, <2>16, <2>17
<1>4. CASE ~mem.changed
  <2> DEFINE none == <<>>
  <2>1. runs = none
    BY <1>4 DEF Finish
  <2>2. IsList(none) /\ Len(none) \in 0 .. 3 /\ \A i \in 1 .. Len(none) : RunOK(none[i])
    BY DEF IsList
  <2>3. ApplyAll(Image, none) = Image
    BY ApplyNone
  <2>4. pending = <<>> /\ Saved(disk, mem)
    BY <1>1, <1>4 DEF OInv
  <2>5. Image = disk
    BY <2>4, StreamOK
  <2> HIDE DEF none, runs
  <2>6. EmitAndFlush(none)
    BY <1>1, <2>1
  <2>7. disk' = ApplyAll(Image, none) /\ Image' = disk' /\ pending' = <<>> /\ DiskOK(disk')
    BY <2>2, <2>6, FlushedStep
  <2>8. disk' = disk
    BY <2>3, <2>5, <2>7
  <2>9. OInv'
    BY <1>1, <1>4, <2>4, <2>5, <2>7, <2>8 DEF OInv
  <2>10. AllStay
    BY <1>2, <2>5, <2>8 DEF AllStay, AllKept
  <2>11. SameTo(mem, Image.cells, mem, disk'.cells)
    BY <1>1, <2>5, <2>8 DEF SameTo, Described
  <2> QED BY <2>9, <2>10, <2>11
<1> QED BY <1>3, <1>4

(* The first cells of a file.                                              *)
LEMMA FirstCells ==
  ASSUME NEW c, IsList(c), NEW k \in 0 .. Len(c), NEW o, o = SubSeq(c, 1, k)
  PROVE  IsList(o) /\ Len(o) = k /\ \A i \in 1 .. k : o[i] = c[i]
<1> DEFINE S == {c[i] : i \in 1 .. Len(c)}
           n == Len(c)
<1>1. n \in Nat /\ k \in 0 .. n
  BY DEF IsList
<1>2. \A i \in 1 .. n : c[i] \in S
  OBVIOUS
<1> HIDE DEF S
<1>3. c \in Seq(S)
  BY <1>2, CellsInSeq
<1> HIDE DEF n
<1>4. 1 \in Int /\ k \in Int /\ \A i \in 1 .. k : c[i] \in S
  BY <1>1, <1>2
<1>5. /\ SubSeq(c, 1, k) \in Seq(S)
      /\ Len(SubSeq(c, 1, k)) = IF 1 <= k THEN k - 1 + 1 ELSE 0
      /\ \A i \in 1 .. k - 1 + 1 : SubSeq(c, 1, k)[i] = c[1 + i - 1]
  BY <1>4, SubSeqProperties
<1>6. Len(o) = k /\ \A i \in 1 .. k : o[i] = c[i]
  BY <1>1, <1>5
<1>7. IsList(o)
  BY <1>5, SeqCells
<1> QED BY <1>6, <1>7

(* Cutting the archive file off behind the table keeps table and files.    *)
LEMMA TruncateStep ==
  ASSUME OInv, Truncate
  PROVE  OInv' /\ AllStay /\ SameTo(mem, disk.cells, TableIndex(disk'), disk'.cells)
<1>1. /\ status = "truncating" /\ Described(mem, disk.cells) /\ ops \in Nat /\ pending = <<>> /\ DiskOK(disk)
      /\ IF mem.changed THEN disk.flag = 1 /\ Written(mem, disk.cells) ELSE Saved(disk, mem)
      /\ disk' = Truncated(disk, mem) /\ status' = "closed" /\ mem' = Closed
      /\ pending' = <<>> /\ ops' = ops
  BY DEF OInv, Truncate
<1>2. IndexNow = mem /\ FileNow = disk /\ FileNow' = disk'
  BY <1>1 DEF IndexNow, FileNow
<1>3. CASE mem.changed
  <2> DEFINE c == disk.cells
             T == TableCells(mem)
             e == mem.eoa
             k == e + Len(T) - 1
             o == SubSeq(c, 1, k)
             w == [mem EXCEPT !.changed = FALSE]
  <2>1. disk = [flag |-> disk.flag, cells |-> c] /\ IsList(c) /\ disk.flag = 1
    BY <1>1, <1>3 DEF DiskOK
  <2>2. disk'.flag = 1 /\ disk'.cells = o /\ disk' = [flag |-> disk'.flag, cells |-> disk'.cells]
    <3>1. disk' = [disk EXCEPT !.cells = o]
      BY <1>1, <1>3 DEF Truncated
    <3> HIDE DEF c, o
    <3> QED BY <2>1, <3>1
  <2>3. MemOK(mem) /\ e \in Nat \ {0} /\ Described(mem, c) /\ Written(mem, c) /\ e <= Len(c) + 1
    BY <1>1, <1>3 DEF Described, MemOK
  <2>4. /\ Len(T) \in Nat \ {0} /\ Len(c) \in Nat /\ Len(c) >= k /\ \A i \in 1 .. Len(T) : c[e + i - 1] = T[i]
    <3>1. Len(c) >= k /\ \A i \in 1 .. Len(T) : c[e + i - 1] = T[i]
      BY <2>3 DEF Written
    <3>2. Len(T) \in Nat \ {0}
      <4> DEFINE f == Len(SetToSeq(DOMAIN mem.files))
                 q == Len(mem.empties)
                 l == Len(T)
      <4>1. f \in Nat /\ q \in Nat /\ l = f + q + 3
        BY <2>3, TableLayout DEF Layout
      <4> HIDE DEF f, q, l
      <4>2. l \in Nat \ {0}
        BY <4>1
      <4> QED BY <4>2 DEF l
    <3> QED BY <2>1, <3>1, <3>2 DEF IsList
  <2>5. k \in 0 .. Len(c) /\ e <= k + 1 /\ k \in Nat
    <3> DEFINE l == Len(T)
               n == Len(c)
    <3>1. l \in Nat \ {0} /\ n \in Nat /\ n >= e + l - 1 /\ e \in Nat \ {0} /\ k = e + l - 1
      BY <2>3, <2>4
    <3> HIDE DEF l, n, e, k
    <3>2. k \in 0 .. n /\ e <= k + 1 /\ k \in Nat
      BY <3>1
    <3> QED BY <3>2 DEF n
  <2>k. k = e + Len(T) - 1
    OBVIOUS
  <2> HIDE DEF k
  <2>6. IsList(o) /\ Len(o) = k /\ \A i \in 1 .. k : o[i] = c[i]
    BY <2>1, <2>5, FirstCells
  <2> HIDE DEF c, T, o, e
  <2>7. \A i \in 1 .. e - 1 : o[i] = c[i]
    BY <2>3, <2>5, <2>6
  <2>8. Written(mem, o)
    <3>1. ASSUME NEW i \in 1 .. Len(T) PROVE o[e + i - 1] = T[i]
      <4> DEFINE l == Len(T)
                 j == e + i - 1
      <4>1. l \in Nat /\ i \in 1 .. l /\ e \in Nat \ {0} /\ k = e + l - 1
        BY <2>3, <2>4, <2>k
      <4> HIDE DEF l
      <4>2. j \in 1 .. k
        BY <4>1
      <4>3. c[j] = T[i]
        BY <2>4
      <4> HIDE DEF j
      <4>4. o[j] = T[i]
        BY <2>6, <4>2, <4>3
      <4> QED BY <4>4 DEF j
    <3>2. Len(o) >= e + Len(T) - 1
      BY <2>5, <2>6, <2>k
    <3> QED BY <3>1, <3>2 DEF Written, T, e
  <2>9. w = [files |-> mem.files, empties |-> mem.empties, eoa |-> mem.eoa, changed |-> FALSE]
    BY <2>3, Unflagged
  <2>10. HasTable(disk') /\ TableIndex(disk') = w
    <3> DEFINE d == disk'
    <3>1. MemOK(mem) /\ Written(mem, d.cells) /\ Len(d.cells) = mem.eoa + Len(TableCells(mem)) - 1
      BY <2>2, <2>3, <2>6, <2>8, <2>k DEF T, e
    <3> HIDE DEF d
    <3>2. HasTable(d) /\ TableIndex(d) = [mem EXCEPT !.changed = FALSE]
      BY <3>1, TableBack
    <3> QED BY <3>2 DEF d
  <2> HIDE DEF w
  <2>11. w.files = mem.files /\ w.empties = mem.empties /\ w.eoa = mem.eoa
    BY <2>9
  <2>12. MemOK(w)
    <3>1. w = [files |-> w.files, empties |-> w.empties, eoa |-> w.eoa, changed |-> w.changed]
      BY <2>9
    <3>2. w.changed \in BOOLEAN
      BY <2>9
    <3>3. /\ DOMAIN mem.files \subseteq Name /\ IsFiniteSet(DOMAIN mem.files)
          /\ mem.files \in [DOMAIN mem.files -> Piece]
          /\ mem.empties \in Seq(Piece) /\ mem.eoa \in Nat \ {0}
      BY <2>3 DEF MemOK
    <3> QED BY <2>11, <3>1, <3>2, <3>3 DEF MemOK
  <2>13. Described(w, o) /\ AllKept(mem, c, w, o)
    <3>1. IsList(o) /\ mem.eoa <= Len(o) + 1 /\ \A i \in 1 .. mem.eoa - 1 : o[i] = c[i]
      BY <2>5, <2>6, <2>7 DEF e
    <3> QED BY <2>3, <2>11, <2>12, <3>1, StillDescribed
  <2>14. Saved(disk', TableIndex(disk')) /\ Described(TableIndex(disk'), disk'.cells)
    BY <2>2, <2>10, <2>13 DEF Saved
  <2>15. DiskOK(disk')
    BY <2>2, <2>6 DEF DiskOK
  <2>16. OInv'
    BY <1>1, <2>14, <2>15 DEF OInv
  <2>17. IndexNow' = w
    BY <1>1, <2>2, <2>10 DEF IndexNow
  <2>18. SameTo(mem, c, TableIndex(disk'), disk'.cells)
    BY <2>2, <2>5, <2>6, <2>7, <2>10, <2>11 DEF SameTo, e
  <2> QED BY <1>2, <2>2, <2>13, <2>16, <2>17, <2>18 DEF AllStay, c
<1>4. CASE ~mem.changed
  <2>1. disk' = disk /\ Saved(disk, mem)
    BY <1>1, <1>4 DEF Truncated
  <2>2. TableIndex(disk') = mem /\ disk'.flag = 1
    BY <2>1 DEF Saved
  <2>3. Saved(disk', TableIndex(disk')) /\ Described(TableIndex(disk'), disk'.cells)
    BY <1>1, <2>1, <2>2
  <2>4. OInv'
    BY <1>1, <2>1, <2>3 DEF OInv
  <2>5. IndexNow' = mem
    BY <1>1, <2>2 DEF IndexNow
  <2>6. SameTo(mem, disk.cells, TableIndex(disk'), disk'.cells)
    BY <1>1, <2>1, <2>2 DEF SameTo, Described
  <2> QED BY <1>2, <2>1, <2>4, <2>5, <2>6 DEF AllStay, AllKept
<1> QED BY <1>3, <1>4

(* Nothing happens to the files when nothing changes.                      *)
LEMMA StutterStep ==
  ASSUME OInv, UNCHANGED vars
  PROVE  OInv' /\ AllStay
<1>1. disk' = disk /\ pending' = pending /\ status' = status /\ mem' = mem /\ ops' = ops
  BY DEF vars
<1>2. Image' = Image
  BY <1>1 DEF Image
<1>3. OInv'
  BY <1>1, <1>2 DEF OInv
<1>4. IndexNow' = IndexNow /\ FileNow' = FileNow
  BY <1>1, <1>2 DEF IndexNow, FileNow
<1> QED BY <1>3, <1>4 DEF AllStay, AllKept

(* The invariant: what OInv says, as long as there was no crash.           *)
SInv == usage \in Usage /\ crashes \in Nat /\ recovered \in BOOLEAN /\ (Orderly => OInv)

(* A usage is one of those that UsageOK allows.                            *)
LEMMA UsageIs ==
  ASSUME usage \in Usage
  PROVE  /\ usage.recover \in BOOLEAN /\ usage.tailCrash \in BOOLEAN /\ usage.resync \subseteq BOOLEAN
         /\ usage.lengths \subseteq Nat /\ usage.ops \in 0 .. MaxOps /\ MaxOps \in Nat
BY UsageOK

(* What a write stores is one of the contents the calls have.              *)
LEMMA ValueIs ==
  ASSUME usage \in Usage, NEW s \in usage.lengths, NEW v \in 1 .. MaxOps
  PROVE  Stored(Payload(v, s)) \in Value
<1>1. s \in UNION {u.lengths : u \in Usage}
  OBVIOUS
<1> QED BY <1>1 DEF Value

(* The invariant holds at first.                                           *)
LEMMA InitHolds ==
  ASSUME Init
  PROVE  SInv
<1>1. /\ disk = NoFile /\ pending = <<>> /\ status = "closed" /\ mem = Closed
      /\ ops = 0 /\ crashes = 0 /\ recovered = FALSE /\ usage \in Usage
  BY DEF Init
<1>2. DiskOK(disk)
  <2> DEFINE c == <<>>
  <2>1. disk = [flag |-> -1, cells |-> c]
    BY <1>1 DEF NoFile
  <2>2. IsList(c)
    BY DEF IsList
  <2> HIDE DEF c
  <2> QED BY <2>1, <2>2 DEF DiskOK
<1>3. OInv
  BY <1>1, <1>2 DEF OInv
<1> QED BY <1>1, <1>3 DEF SInv

(* A crash is counted.                                                     *)
LEMMA CrashCounted ==
  ASSUME Crash
  PROVE  usage' = usage /\ recovered' = recovered /\ crashes' = crashes + 1
<1>1. ASSUME NEW runs, CrashDuring(runs) PROVE usage' = usage /\ recovered' = recovered /\ crashes' = crashes + 1
  BY <1>1 DEF CrashDuring
<1>2. CASE CrashIdle
  BY <1>1, <1>2 DEF CrashIdle
<1>3. CASE CrashInFinish
  BY <1>1, <1>3 DEF CrashInFinish
<1>4. CASE CrashBeforeTruncate
  BY <1>4 DEF CrashBeforeTruncate
<1>5. CASE \E n \in Name : CrashInRemove(n)
  BY <1>1, <1>5 DEF CrashInRemove
<1>6. CASE \E n \in Name : \E s \in usage.lengths : CrashInWrite(n, s)
  <2>1. PICK n \in Name, s \in usage.lengths : CrashInWrite(n, s)
    BY <1>6
  <2> QED BY <1>1, <2>1 DEF CrashInWrite
<1> QED BY <1>2, <1>3, <1>4, <1>5, <1>6 DEF Crash

(* Crashes are counted, a call of recover() is noted, and the usage stays   *)
(* what it is.                                                             *)
LEMMA CrashesCounted ==
  ASSUME Next \/ UNCHANGED vars
  PROVE  /\ usage' = usage /\ (crashes' = crashes \/ (Crash /\ crashes' = crashes + 1))
         /\ (Recover => recovered' = TRUE) /\ (recovered' = recovered \/ recovered' = TRUE)
<1>1. Recover => usage' = usage /\ crashes' = crashes /\ recovered' = TRUE
  BY DEF Recover
<1>2. CASE Crash
  BY <1>1, <1>2, CrashCounted
<1>3. CASE Open \/ ReadFile \/ ClearArchive \/ Close \/ Truncate
  <2>1. usage' = usage /\ crashes' = crashes /\ recovered' = recovered
    BY <1>3 DEF Open, ReadFile, ClearArchive, Close, Truncate
  <2> QED BY <1>1, <2>1
<1>4. CASE \E n \in Name : RemoveFile(n) \/ \E s \in usage.lengths : WriteFile(n, s)
  <2>1. usage' = usage /\ crashes' = crashes /\ recovered' = recovered
    BY <1>4 DEF RemoveFile, WriteFile
  <2> QED BY <1>1, <2>1
<1>5. CASE Finished \/ UNCHANGED vars
  <2>1. usage' = usage /\ crashes' = crashes /\ recovered' = recovered
    BY <1>5 DEF Finished, vars
  <2> QED BY <1>1, <2>1
<1>6. CASE Recover
  BY <1>1, <1>6
<1> QED BY <1>2, <1>3, <1>4, <1>5, <1>6 DEF Next

(* What the steps do to the files without crashes, and which call they are. *)
LEMMA OrderlyStep ==
  ASSUME SInv, Orderly', Next \/ UNCHANGED vars
  PROVE  /\ Orderly /\ OInv /\ OInv'
         /\ \/ AllStay /\ ops' = ops /\ call' = call
            \/ \E n \in Name : /\ OthersStay(n) /\ Called("remove", n, Missing)
                               /\ n \in DOMAIN IndexNow.files /\ n \notin DOMAIN IndexNow'.files
            \/ \E n \in Name : \E s \in usage.lengths :
                 /\ OthersStay(n) /\ Called("write", n, Stored(Payload(ops', s)))
                 /\ Stored(Payload(ops', s)) \in Value
                 /\ Holds(IndexNow', FileNow'.cells, n, ops', s)
            \/ IndexNow'.files = <<>> /\ Called("clear", Absent, Missing)
<1>1. /\ usage' = usage /\ usage \in Usage /\ crashes \in Nat /\ crashes' = 0
      /\ ~recovered' /\ ~recovered /\ ~Recover
  BY CrashesCounted DEF SInv, Orderly
<1>2. ~Crash /\ crashes = 0
  <2>1. crashes + 1 # 0
    BY <1>1
  <2>2. Crash => crashes' = crashes + 1
    BY CrashCounted
  <2> QED BY <1>1, <2>1, <2>2, CrashesCounted
<1>3. Orderly /\ OInv
  BY <1>1, <1>2 DEF Orderly, SInv
<1>4. CASE Open
  BY <1>3, <1>4, OpenStep DEF Open
<1>5. CASE ReadFile
  BY <1>3, <1>5, ReadStep DEF ReadFile
<1>6. CASE ClearArchive
  <2>1. Called("clear", Absent, Missing)
    BY <1>6 DEF ClearArchive
  <2> QED BY <1>3, <1>6, <2>1, ClearStep
<1>7. CASE Close
  BY <1>3, <1>7, CloseStep DEF Close
<1>8. CASE Truncate
  BY <1>3, <1>8, TruncateStep DEF Truncate
<1>9. CASE \E n \in Name : RemoveFile(n)
  <2>1. PICK n \in Name : RemoveFile(n)
    BY <1>9
  <2>2. Called("remove", n, Missing)
    BY <2>1 DEF RemoveFile
  <2> QED BY <1>3, <2>1, <2>2, RemoveStep
<1>10. CASE \E n \in Name : \E s \in usage.lengths : WriteFile(n, s)
  <2>1. PICK n \in Name, s \in usage.lengths : WriteFile(n, s)
    BY <1>10
  <2>2. s \in Nat
    BY <1>1, <2>1, UsageIs
  <2>3. OInv' /\ OthersStay(n) /\ Holds(IndexNow', FileNow'.cells, n, ops', s)
    BY <1>3, <2>1, <2>2, WriteStep
  <2>4. Called("write", n, Stored(Payload(ops', s)))
    <3>1. Called("write", n, Stored(Payload(ops + 1, s)))
      BY <2>1 DEF WriteFile
    <3>2. ops' = ops + 1
      BY <3>1 DEF Called
    <3> QED BY <3>1, <3>2
  <2>5. Stored(Payload(ops', s)) \in Value
    <3>1. ops < usage.ops /\ ops' = ops + 1 /\ ops \in Nat
      BY <1>3, <2>1 DEF OInv, WriteFile, Called
    <3>2. usage.ops \in 0 .. MaxOps /\ MaxOps \in Nat
      BY <1>1, UsageIs
    <3>3. ops' \in 1 .. MaxOps
      BY <3>1, <3>2
    <3> QED BY <1>1, <3>3, ValueIs
  <2> QED BY <1>3, <2>3, <2>4, <2>5
<1>11. CASE Recover
  BY <1>1, <1>11
<1>12. CASE Finished
  BY <1>3, <1>12, ViewIs DEF Finished
<1>13. CASE UNCHANGED vars
  BY <1>3, <1>13, StutterStep DEF vars
<1> QED BY <1>2, <1>4, <1>5, <1>6, <1>7, <1>8, <1>9, <1>10, <1>11, <1>12, <1>13 DEF Next

(* SInv is inductive.                                                      *)
LEMMA StepHolds ==
  ASSUME SInv, [Next]_vars
  PROVE  SInv'
<1>1. usage' \in Usage /\ crashes' \in Nat /\ recovered' \in BOOLEAN
  <2>1. usage \in Usage /\ crashes \in Nat /\ recovered \in BOOLEAN
    BY DEF SInv
  <2>2. crashes + 1 \in Nat
    BY <2>1
  <2> QED BY <2>1, <2>2, CrashesCounted
<1>2. Orderly' => OInv'
  BY OrderlyStep
<1> QED BY <1>1, <1>2 DEF SInv

(* The invariant holds always.                                             *)
LEMMA Invariance == Spec => []SInv
BY InitHolds, StepHolds, PTL DEF Spec

-----------------------------------------------------------------------------
(* The store.                                                              *)

(* The data of a file lie in the archive file.                             *)
LEMMA SpanInside ==
  ASSUME NEW m, NEW c, Described(m, c), NEW n \in DOMAIN m.files,
         NEW i \in m.files[n].pos + 1 .. m.files[n].pos + m.files[n].size
  PROVE  i \in 1 .. Len(c)
<1> DEFINE k  == <<1, n>>
           lo == Lo(m)[k]
           hi == Hi(m)[k]
           p  == m.files[n].pos
           s  == m.files[n].size
           e  == m.eoa
           l  == Len(c)
<1>1. k \in Ids(m)
  BY DEF Ids
<1>2. p \in Nat /\ s \in Nat
  BY DEF Described, MemOK, Piece
<1>3. e \in Nat /\ l \in Nat /\ e <= l + 1
  BY DEF Described, MemOK, IsList
<1>4. lo = p - 3 /\ hi = p + s + 1
  BY <1>1 DEF Lo, Hi
<1>5. 1 <= lo /\ hi < e
  BY <1>1 DEF Described, Tiling
<1>6. i \in p + 1 .. p + s
  OBVIOUS
<1> HIDE DEF k, lo, hi, p, s, e, l
<1>7. i \in 1 .. l
  BY <1>2, <1>3, <1>4, <1>5, <1>6
<1> QED BY <1>7 DEF l

(* A file whose data did not change is read as before.                     *)
LEMMA SameContent ==
  ASSUME NEW m, NEW d, Described(m, d.cells), NEW w, NEW e, Described(w, e.cells),
         NEW x \in DOMAIN m.files, x \in DOMAIN w.files, w.files[x] = m.files[x],
         \A i \in m.files[x].pos + 1 .. m.files[x].pos + m.files[x].size : e.cells[i] = d.cells[i]
  PROVE  Content(w.files, e, x) = Content(m.files, d, x)
<1> DEFINE p == m.files[x].pos
           s == m.files[x].size
           u == [i \in 1 .. s |-> CellAt(d, p + i)]
           v == [i \in 1 .. s |-> CellAt(e, p + i)]
<1>1. p \in Nat /\ s \in Nat
  BY DEF Described, MemOK, Piece
<1>2. \A i \in p + 1 .. p + s : i \in 1 .. Len(d.cells) /\ i \in 1 .. Len(e.cells)
  BY SpanInside
<1>3. \A i \in p + 1 .. p + s : CellAt(e, i) = CellAt(d, i)
  BY <1>2 DEF CellAt
<1>4. Content(m.files, d, x) = Stored(u) /\ Content(w.files, e, x) = Stored(v)
  BY DEF Content
<1> HIDE DEF p, s
<1>5. \A i \in 1 .. s : p + i \in p + 1 .. p + s
  BY <1>1
<1>6. \A i \in 1 .. s : CellAt(e, p + i) = CellAt(d, p + i)
  BY <1>3, <1>5
<1>7. u = v
  BY <1>6
<1> QED BY <1>4, <1>7

(* A file of the archive has a content.                                    *)
LEMMA ContentThere ==
  ASSUME NEW files, NEW d, NEW n \in DOMAIN files
  PROVE  Content(files, d, n) # Missing
<1>1. Content(files, d, n).found = TRUE
  BY DEF Content, Stored
<1>2. Missing.found = FALSE
  BY DEF Missing
<1> QED BY <1>1, <1>2

(* A file that was written is read with the content that was written.      *)
LEMMA ContentHeld ==
  ASSUME NEW w, NEW d, Described(w, d.cells), NEW n, NEW v, NEW s, Holds(w, d.cells, n, v, s)
  PROVE  Content(w.files, d, n) = Stored(Payload(v, s))
<1> DEFINE p == w.files[n].pos
           u == [i \in 1 .. s |-> CellAt(d, p + i)]
<1>1. n \in DOMAIN w.files /\ w.files[n].size = s
  BY DEF Holds
<1>2. p \in Nat /\ s \in Nat
  BY <1>1 DEF Described, MemOK, Piece
<1>3. \A i \in p + 1 .. p + s : CellAt(d, i) = Data(v)
  <2> SUFFICES ASSUME NEW i \in p + 1 .. p + s
               PROVE  CellAt(d, i) = Data(v)
    OBVIOUS
  <2>1. i \in 1 .. Len(d.cells)
    BY <1>1, SpanInside
  <2>2. d.cells[i] = Data(v)
    BY <1>1 DEF Holds
  <2> QED BY <2>1, <2>2 DEF CellAt
<1>4. Content(w.files, d, n) = Stored(u)
  BY <1>1 DEF Content
<1> HIDE DEF p
<1>5. \A i \in 1 .. s : p + i \in p + 1 .. p + s
  BY <1>2
<1>6. \A i \in 1 .. s : CellAt(d, p + i) = Data(v)
  BY <1>3, <1>5
<1>7. u = Payload(v, s)
  BY <1>6 DEF Payload
<1> QED BY <1>4, <1>7

(* The contents in terms of the index and the file that count.             *)
ViewOK ==
  /\ Contents = [n \in Name |-> Content(IndexNow.files, FileNow, n)]
  /\ Described(IndexNow, FileNow.cells)

(* It is so under the invariant.                                           *)
LEMMA ContentsAre == OInv => ViewOK
BY ViewIs DEF ViewOK

(* So they are after a step.                                               *)
LEMMA ContentsNext == OInv' => ViewOK'
BY ContentsAre, PTL

(* A step that keeps every file changes no contents.                       *)
LEMMA StayContents ==
  ASSUME OInv, OInv', AllStay
  PROVE  Contents' = Contents
<1>1. /\ Contents = [n \in Name |-> Content(IndexNow.files, FileNow, n)]
      /\ Described(IndexNow, FileNow.cells)
  BY ContentsAre DEF ViewOK
<1>2. /\ Contents' = [n \in Name |-> Content(IndexNow'.files, FileNow', n)]
      /\ Described(IndexNow', FileNow'.cells)
  BY ContentsNext DEF ViewOK
<1> DEFINE m == IndexNow
           d == FileNow
           w == IndexNow'
           e == FileNow'
<1>3. AllKept(m, d.cells, w, e.cells) /\ Described(m, d.cells) /\ Described(w, e.cells)
  BY <1>1, <1>2 DEF AllStay
<1> HIDE DEF m, d, w, e
<1>4. \A n \in Name : Content(w.files, e, n) = Content(m.files, d, n)
  <2> TAKE n \in Name
  <2>1. CASE n \in DOMAIN m.files
    BY <1>3, <2>1, SameContent DEF AllKept
  <2>2. CASE n \notin DOMAIN m.files
    BY <1>3, <2>2 DEF AllKept, Content
  <2> QED BY <2>1, <2>2
<1> QED BY <1>1, <1>2, <1>4 DEF m, d, w, e

(* A step that keeps every file but n changes the contents of n only.      *)
LEMMA OthersContents ==
  ASSUME OInv, OInv', NEW n \in Name, OthersStay(n)
  PROVE  Contents' = [Contents EXCEPT ![n] = Content(IndexNow'.files, FileNow', n)]
<1>1. /\ Contents = [x \in Name |-> Content(IndexNow.files, FileNow, x)]
      /\ Described(IndexNow, FileNow.cells)
  BY ContentsAre DEF ViewOK
<1>2. /\ Contents' = [x \in Name |-> Content(IndexNow'.files, FileNow', x)]
      /\ Described(IndexNow', FileNow'.cells)
  BY ContentsNext DEF ViewOK
<1> DEFINE m == IndexNow
           d == FileNow
           w == IndexNow'
           e == FileNow'
<1>3. Kept(m, d.cells, w, e.cells, n) /\ Described(m, d.cells) /\ Described(w, e.cells)
  BY <1>1, <1>2 DEF OthersStay
<1> HIDE DEF m, d, w, e
<1>4. \A x \in Name \ {n} : Content(w.files, e, x) = Content(m.files, d, x)
  <2> TAKE x \in Name \ {n}
  <2>0. (x \in DOMAIN m.files) <=> (x \in DOMAIN w.files)
    BY <1>3 DEF Kept
  <2>1. CASE x \in DOMAIN m.files
    <3>1. /\ x \in DOMAIN w.files /\ w.files[x] = m.files[x]
          /\ \A i \in m.files[x].pos + 1 .. m.files[x].pos + m.files[x].size : e.cells[i] = d.cells[i]
      BY <1>3, <2>0, <2>1 DEF Kept
    <3> QED BY <1>3, <2>1, <3>1, SameContent
  <2>2. CASE x \notin DOMAIN m.files
    BY <2>0, <2>2 DEF Content
  <2> QED BY <2>1, <2>2
<1> QED BY <1>1, <1>2, <1>4 DEF m, d, w, e

(* A step without crashes in between changes the contents as the call asks *)
(* of a store, or, when there is no call, not at all.                      *)
LEMMA StoreStep ==
  ASSUME SInv, SInv', [Next]_vars
  PROVE  [Store!Next]_<<Contents, ops, call, Orderly>>
<1>1. CASE ~Orderly'
  BY <1>1 DEF Store!Next, Store!Disturb
<1>2. CASE Orderly'
  <2>1. /\ Orderly /\ OInv /\ OInv'
        /\ \/ AllStay /\ ops' = ops /\ call' = call
           \/ \E n \in Name : /\ OthersStay(n) /\ Called("remove", n, Missing)
                              /\ n \in DOMAIN IndexNow.files /\ n \notin DOMAIN IndexNow'.files
           \/ \E n \in Name : \E s \in usage.lengths :
                /\ OthersStay(n) /\ Called("write", n, Stored(Payload(ops', s)))
                /\ Stored(Payload(ops', s)) \in Value
                /\ Holds(IndexNow', FileNow'.cells, n, ops', s)
           \/ IndexNow'.files = <<>> /\ Called("clear", Absent, Missing)
    BY <1>2, OrderlyStep
  <2>2. Orderly /\ Orderly' = Orderly
    BY <1>2, <2>1 DEF Orderly
  <2>3. ASSUME NEW op, NEW n, NEW c, Called(op, n, c)
        PROVE  Store!Called(op, n, c)
    BY <2>2, <2>3 DEF Called, Store!Called
  <2>4. CASE AllStay /\ ops' = ops /\ call' = call
    <3>1. Contents' = Contents
      BY <2>1, <2>4, StayContents
    <3> QED BY <2>2, <2>4, <3>1
  <2>5. ASSUME NEW n \in Name, OthersStay(n), Called("remove", n, Missing),
               n \in DOMAIN IndexNow.files, n \notin DOMAIN IndexNow'.files
        PROVE  Store!Remove(n)
    <3>1. Contents' = [Contents EXCEPT ![n] = Content(IndexNow'.files, FileNow', n)]
      BY <2>1, <2>5, OthersContents
    <3>2. Content(IndexNow'.files, FileNow', n) = Missing
      BY <2>5 DEF Content
    <3>3. Contents[n] # Missing
      BY <2>1, <2>5, ContentsAre, ContentThere DEF ViewOK
    <3>4. Store!Called("remove", n, Missing)
      BY <2>3, <2>5
    <3> QED BY <3>1, <3>2, <3>3, <3>4 DEF Store!Remove
  <2>6. ASSUME NEW n \in Name, NEW s \in usage.lengths, OthersStay(n),
               Called("write", n, Stored(Payload(ops', s))), Stored(Payload(ops', s)) \in Value,
               Holds(IndexNow', FileNow'.cells, n, ops', s)
        PROVE  \E v \in Value : Store!Write(n, v)
    <3> DEFINE v == Stored(Payload(ops', s))
    <3>1. Contents' = [Contents EXCEPT ![n] = Content(IndexNow'.files, FileNow', n)]
      BY <2>1, <2>6, OthersContents
    <3>2. Described(IndexNow', FileNow'.cells)
      BY <2>1, ContentsNext DEF ViewOK
    <3>3. Content(IndexNow'.files, FileNow', n) = v
      BY <2>6, <3>2, ContentHeld
    <3>4. Store!Called("write", n, v)
      BY <2>3, <2>6
    <3>5. v \in Value
      BY <2>6
    <3> HIDE DEF v
    <3> QED BY <3>1, <3>3, <3>4, <3>5 DEF Store!Write
  <2>7. ASSUME IndexNow'.files = <<>>, Called("clear", Absent, Missing)
        PROVE  Store!Clear
    <3>1. Contents' = [x \in Name |-> Content(IndexNow'.files, FileNow', x)]
      BY <2>1, ContentsNext DEF ViewOK
    <3>2. \A x \in Name : Content(IndexNow'.files, FileNow', x) = Missing
      BY <2>7 DEF Content
    <3>3. Store!Called("clear", Absent, Missing)
      BY <2>3, <2>7
    <3> QED BY <3>1, <3>2, <3>3 DEF Store!Clear
  <2> QED BY <2>1, <2>4, <2>5, <2>6, <2>7 DEF Store!Next
<1> QED BY <1>1, <1>2

(* At first there is no file, and there was no call.                       *)
LEMMA StoreInit ==
  ASSUME Init
  PROVE  Store!Init
<1>1. status = "closed" /\ disk.flag = -1
  BY DEF Init, NoFile
<1>2. Contents = [n \in Name |-> Missing]
  BY <1>1 DEF Contents, Content
<1>3. ops = 0 /\ call = NoCall /\ Orderly = TRUE
  BY DEF Init, Orderly
<1> QED BY <1>2, <1>3 DEF Store!Init, NoCall

(* An archive without crashes and recover() is a store of named files: for *)
(* all names and lengths, readFile finds each file exactly as the last     *)
(* writeFile of it left it until removeFile or clear() is called for it,   *)
(* and no other step, closing and opening the archive included, changes    *)
(* what is found (Core/Archive.hh:164-173, Core/FileArchive.cc).           *)
THEOREM ArchiveImplementsStore == Spec => StoreOK
<1>1. Init => Store!Init
  BY StoreInit
<1>2. SInv /\ SInv' /\ [Next]_vars => [Store!Next]_Store!vars
  BY StoreStep DEF Store!vars
<1> QED BY <1>1, <1>2, Invariance, PTL DEF Spec, StoreOK, Store!Spec

-----------------------------------------------------------------------------
(* The segments cover the archive.                                         *)

(* As many elements as names of them.                                      *)
LEMMA SameNumber ==
  ASSUME NEW S, NEW T, IsFiniteSet(S), NEW f \in [S -> T],
         \A x, y \in S : f[x] = f[y] => x = y, \A t \in T : \E x \in S : f[x] = t
  PROVE  Cardinality(T) = Cardinality(S) /\ IsFiniteSet(T)
<1>1. f \in Bijection(S, T)
  BY DEF Bijection, Injection, Surjection, IsInjective
<1> QED BY <1>1, FS_Bijection DEF ExistsBijection

(* There are as many names of segments as files and empty segments.        *)
LEMMA IdsNumber ==
  ASSUME NEW m, MemOK(m)
  PROVE  IsFiniteSet(Ids(m)) /\ Cardinality(Ids(m)) = Cardinality(DOMAIN m.files) + Len(m.empties)
<1> DEFINE F == DOMAIN m.files
           E == 1 .. Len(m.empties)
           A == {<<1, n>> : n \in F}
           B == {<<2, i>> : i \in E}
           l == Len(m.empties)
<1>1. IsFiniteSet(F) /\ l \in Nat
  BY DEF MemOK
<1>2. IsFiniteSet(E) /\ Cardinality(E) = l
  <2> HIDE DEF l
  <2>1. IsFiniteSet(1 .. l) /\ Cardinality(1 .. l) = IF 1 > l THEN 0 ELSE l - 1 + 1
    BY <1>1, FS_Interval
  <2>2. (IF 1 > l THEN 0 ELSE l - 1 + 1) = l
    BY <1>1
  <2> QED BY <2>1, <2>2 DEF l
<1>i. Ids(m) = A \cup B
  BY DEF Ids
<1> HIDE DEF F, E, l
<1>3. Cardinality(A) = Cardinality(F) /\ IsFiniteSet(A)
  <2> DEFINE f == [n \in F |-> <<1, n>>]
  <2>1. f \in [F -> A]
    OBVIOUS
  <2>2. \A x, y \in F : f[x] = f[y] => x = y
    OBVIOUS
  <2>3. \A t \in A : \E x \in F : f[x] = t
    OBVIOUS
  <2> HIDE DEF f, A
  <2> QED BY <1>1, <2>1, <2>2, <2>3, SameNumber
<1>4. Cardinality(B) = Cardinality(E) /\ IsFiniteSet(B)
  <2> DEFINE f == [n \in E |-> <<2, n>>]
  <2>1. f \in [E -> B]
    OBVIOUS
  <2>2. \A x, y \in E : f[x] = f[y] => x = y
    OBVIOUS
  <2>3. \A t \in B : \E x \in E : f[x] = t
    OBVIOUS
  <2> HIDE DEF f, B
  <2> QED BY <1>2, <2>1, <2>2, <2>3, SameNumber
<1>5. A \cap B = {}
  OBVIOUS
<1> HIDE DEF A, B
<1>6. /\ IsFiniteSet(A \cup B)
      /\ Cardinality(A \cup B) = Cardinality(A) + Cardinality(B) - Cardinality(A \cap B)
  BY <1>3, <1>4, FS_Union
<1>7. Cardinality(A \cap B) = 0
  BY <1>5, FS_EmptySet
<1>8. Cardinality(F) \in Nat
  BY <1>1, FS_CardinalityType
<1>9. Cardinality(A \cup B) = Cardinality(F) + l
  BY <1>1, <1>2, <1>3, <1>4, <1>6, <1>7, <1>8
<1> QED BY <1>i, <1>6, <1>9 DEF F, l

(* The segments that Tiled speaks of are those of Ids, Lo and Hi.          *)
LEMMA SegmentsAre ==
  ASSUME NEW m
  PROVE  SegmentsOf(m) = {<<Lo(m)[k], Hi(m)[k]>> : k \in Ids(m)}
<1>1. ASSUME NEW n \in DOMAIN m.files
      PROVE  /\ <<1, n>> \in Ids(m)
             /\ <<Lo(m)[<<1, n>>], Hi(m)[<<1, n>>]>> = <<m.files[n].pos - 3, m.files[n].pos + m.files[n].size + 1>>
  BY DEF Ids, Lo, Hi
<1>2. ASSUME NEW i \in 1 .. Len(m.empties)
      PROVE  /\ <<2, i>> \in Ids(m)
             /\ <<Lo(m)[<<2, i>>], Hi(m)[<<2, i>>]>> = <<m.empties[i].pos - 2, m.empties[i].pos + m.empties[i].size + 1>>
  BY DEF Ids, Lo, Hi
<1>3. \A k \in Ids(m) : \/ \E n \in DOMAIN m.files : k = <<1, n>>
                        \/ \E i \in 1 .. Len(m.empties) : k = <<2, i>>
  BY DEF Ids
<1>4. ASSUME NEW k \in Ids(m) PROVE <<Lo(m)[k], Hi(m)[k]>> \in SegmentsOf(m)
  BY <1>1, <1>2, <1>3 DEF SegmentsOf
<1>5. ASSUME NEW g \in SegmentsOf(m) PROVE \E k \in Ids(m) : g = <<Lo(m)[k], Hi(m)[k]>>
  <2>1. \/ \E n \in DOMAIN m.files : g = <<m.files[n].pos - 3, m.files[n].pos + m.files[n].size + 1>>
        \/ \E i \in 1 .. Len(m.empties) : g = <<m.empties[i].pos - 2, m.empties[i].pos + m.empties[i].size + 1>>
    BY DEF SegmentsOf
  <2> QED BY <1>1, <1>2, <2>1
<1> QED BY <1>4, <1>5

(* The segments of an archive that is described: each position in front of *)
(* its end lies in one of them, and there is one for each file and each    *)
(* empty segment.                                                          *)
LEMMA SegmentsTile ==
  ASSUME NEW m, NEW d, Described(m, d.cells)
  PROVE  LET segs == SegmentsOf(m) IN
         /\ \A i \in 1 .. m.eoa - 1 : Cardinality({g \in segs : i \in g[1] .. g[2]}) = 1
         /\ \A g \in segs : g[2] < m.eoa /\ CellAt(d, g[1]) = Start /\ CellAt(d, g[2]) = End
         /\ Cardinality(segs) = Cardinality(DOMAIN m.files) + Len(m.empties)
<1> DEFINE segs == SegmentsOf(m)
           I  == Ids(m)
           lo == Lo(m)
           hi == Hi(m)
           e  == m.eoa
<1>1. MemOK(m) /\ Tiling(I, lo, hi, e)
  BY DEF Described
<1>2. segs = {<<lo[k], hi[k]>> : k \in I}
  BY SegmentsAre
<1>3. IsFiniteSet(I) /\ Cardinality(I) = Cardinality(DOMAIN m.files) + Len(m.empties)
  BY <1>1, IdsNumber
<1>4. \A k \in I : CellAt(d, lo[k]) = Start /\ CellAt(d, hi[k]) = End
  BY TagsThere
<1> SUFFICES /\ \A i \in 1 .. e - 1 : Cardinality({g \in segs : i \in g[1] .. g[2]}) = 1
             /\ \A g \in segs : g[2] < e /\ CellAt(d, g[1]) = Start /\ CellAt(d, g[2]) = End
             /\ Cardinality(segs) = Cardinality(DOMAIN m.files) + Len(m.empties)
  BY DEF segs
<1> HIDE DEF segs, I, lo, hi, e
<1>5. ASSUME NEW i \in 1 .. e - 1 PROVE Cardinality({g \in segs : i \in g[1] .. g[2]}) = 1
  <2>0. i \in Int /\ lo \in [I -> Nat] /\ hi \in [I -> Nat]
    BY <1>1 DEF Tiling
  <2>1. PICK k \in I : lo[k] <= i /\ i <= hi[k]
    BY <1>1 DEF Tiling
  <2>2. \A l \in I : lo[l] <= i /\ i <= hi[l] => l = k
    <3> SUFFICES ASSUME NEW l \in I, lo[l] <= i, i <= hi[l], l # k PROVE FALSE
      OBVIOUS
    <3>1. hi[k] < lo[l] \/ hi[l] < lo[k]
      BY <1>1 DEF Tiling
    <3>2. lo[k] \in Nat /\ hi[k] \in Nat /\ lo[l] \in Nat /\ hi[l] \in Nat
      BY <2>0
    <3> QED BY <2>0, <2>1, <3>1, <3>2
  <2> DEFINE s == <<lo[k], hi[k]>>
             T == {g \in segs : i \in g[1] .. g[2]}
  <2>3. s \in T
    BY <1>2, <2>0, <2>1
  <2>4. ASSUME NEW g \in T PROVE g = s
    <3>1. PICK l \in I : g = <<lo[l], hi[l]>>
      BY <1>2
    <3>2. i \in lo[l] .. hi[l]
      BY <3>1
    <3>3. lo[l] <= i /\ i <= hi[l]
      BY <2>0, <3>2
    <3> QED BY <2>2, <3>1, <3>3
  <2> HIDE DEF s
  <2>5. T = {s}
    BY <2>3, <2>4
  <2> HIDE DEF T
  <2>6. Cardinality(T) = 1
    BY <2>5, FS_Singleton
  <2> QED BY <2>6 DEF T
<1>6. ASSUME NEW g \in segs PROVE g[2] < e /\ CellAt(d, g[1]) = Start /\ CellAt(d, g[2]) = End
  <2>1. PICK k \in I : g = <<lo[k], hi[k]>>
    BY <1>2
  <2>2. hi[k] < e
    BY <1>1 DEF Tiling
  <2> QED BY <1>4, <2>1, <2>2
<1>7. Cardinality(segs) = Cardinality(I)
  <2> DEFINE f == [k \in I |-> <<lo[k], hi[k]>>]
  <2>1. f \in [I -> segs]
    BY <1>2
  <2>2. ASSUME NEW x \in I, NEW y \in I, f[x] = f[y] PROVE x = y
    <3>1. lo[x] = lo[y] /\ hi[x] = hi[y]
      BY <2>2
    <3>2. x # y => hi[x] < lo[y] \/ hi[y] < lo[x]
      BY <1>1 DEF Tiling
    <3>3. lo[x] <= hi[x] /\ lo[y] <= hi[y]
      BY <1>1 DEF Tiling
    <3>4. lo[x] \in Nat /\ hi[x] \in Nat
      BY <1>1 DEF Tiling
    <3> QED BY <3>1, <3>2, <3>3, <3>4
  <2>3. \A g \in segs : \E k \in I : f[k] = g
    BY <1>2
  <2> HIDE DEF f
  <2>4. Cardinality(segs) = Cardinality(I) /\ IsFiniteSet(segs)
    <3>1. \A x, y \in I : f[x] = f[y] => x = y
      BY <2>2
    <3> QED BY <1>3, <2>1, <2>3, <3>1, SameNumber
  <2> QED BY <2>4
<1>8. Cardinality(segs) = Cardinality(DOMAIN m.files) + Len(m.empties)
  BY <1>3, <1>7
<1> QED BY <1>5, <1>6, <1>8

(* Without crashes the segments that an open archive knows cover the data  *)
(* region without gap and overlap, whatever is written, replaced, removed  *)
(* and put into an empty segment (write(), remove() and the table of       *)
(* Core/FileArchive.cc), for all names and lengths.                        *)
THEOREM SegmentsStayTiled == Spec => []Tiled
<1>1. SInv => Tiled
  <2> SUFFICES ASSUME SInv, status = "open", Orderly
               PROVE  LET segs == SegmentsOf(mem) IN
                      /\ \A i \in 1 .. mem.eoa - 1 : Cardinality({g \in segs : i \in g[1] .. g[2]}) = 1
                      /\ \A g \in segs : g[2] < mem.eoa /\ CellAt(Image, g[1]) = Start /\ CellAt(Image, g[2]) = End
                      /\ Cardinality(segs) = Cardinality(DOMAIN mem.files) + Len(mem.empties)
    BY DEF Tiled
  <2>1. Described(mem, Image.cells)
    BY DEF SInv, OInv
  <2> QED BY <2>1, SegmentsTile
<1> QED BY <1>1, Invariance, PTL

-----------------------------------------------------------------------------
(* The flag, with crashes: no index is described here, only the runs.      *)

(* A run that does not set the flag.                                       *)
Harmless(r) == RunOK(r) /\ ("flag" \in DOMAIN r => r.flag = 0)

(* The memory of a process that has the archive open, as TypeOK has it.    *)
Typed(m) ==
  /\ m \in [files : [DOMAIN m.files -> Place], empties : Seq(Place), eoa : Nat \ {0}, changed : BOOLEAN]
  /\ DOMAIN m.files \subseteq Name /\ IsFiniteSet(DOMAIN m.files)

(* Runs that clear the flag first, unless it is clear.                     *)
Quiet(m, runs) ==
  /\ IsList(runs) /\ Len(runs) \in 0 .. 3
  /\ \A i \in 1 .. Len(runs) : Harmless(runs[i])
  /\ ~m.changed /\ Len(runs) # 0 => runs[1] = FlagRun(0)

(* The index that TypeOK describes is one that can be written as a table.  *)
LEMMA TypedIs ==
  ASSUME NEW m, Typed(m)
  PROVE  MemOK(m)
<1>1. /\ m.files \in [DOMAIN m.files -> Place] /\ m.empties \in Seq(Place)
      /\ m.eoa \in Nat \ {0} /\ m.changed \in BOOLEAN
      /\ m = [files |-> m.files, empties |-> m.empties, eoa |-> m.eoa, changed |-> m.changed]
  BY DEF Typed
<1>2. Place \subseteq Piece
  BY DEF Place, Piece
<1>3. m.files \in [DOMAIN m.files -> Piece] /\ m.empties \in Seq(Piece)
  BY <1>1, <1>2
<1> QED BY <1>1, <1>3 DEF Typed, MemOK

(* What a harmless run leaves.                                             *)
LEMMA HarmlessRun ==
  ASSUME NEW d, DiskOK(d), NEW r, Harmless(r)
  PROVE  /\ DiskOK(Apply(d, r)) /\ (d.flag # 1 => Apply(d, r).flag # 1)
         /\ (r = FlagRun(0) => Apply(d, r).flag # 1) /\ (d.flag # -1 => Apply(d, r).flag # -1)
<1>1. DiskOK(Apply(d, r))
  BY ApplyKeepsDisk DEF Harmless
<1>2. CASE "flag" \in DOMAIN r /\ r = FlagRun(r.flag)
  <2>1. r = FlagRun(0)
    BY <1>2 DEF Harmless
  <2>2. Apply(d, r) = [flag |-> 0, cells |-> d.cells]
    BY <2>1, ApplyIs
  <2> QED BY <1>1, <2>2
<1>3. CASE r = Run(r.at, r.cells)
  <2> DEFINE at == r.at
             c == r.cells
  <2>1. r = Run(at, c)
    BY <1>3
  <2> HIDE DEF at, c
  <2>2. Apply(d, r) = [flag |-> d.flag, cells |-> Overwritten(d.cells, at, c)]
    BY <2>1, ApplyIs
  <2>3. r # FlagRun(0)
    <3>1. "flag" \notin DOMAIN r
      BY <2>1 DEF Run
    <3> QED BY <3>1 DEF FlagRun
  <2> QED BY <1>1, <2>2, <2>3
<1> QED BY <1>2, <1>3 DEF Harmless, RunOK

(* Up to four harmless runs: the flag stays clear, or is cleared by the    *)
(* first of them.                                                          *)
LEMMA HarmlessRuns ==
  ASSUME NEW d, DiskOK(d), NEW runs, Len(runs) \in 0 .. 4, \A i \in 1 .. Len(runs) : Harmless(runs[i])
  PROVE  /\ DiskOK(ApplyAll(d, runs)) /\ (d.flag # 1 => ApplyAll(d, runs).flag # 1)
         /\ (Len(runs) # 0 /\ runs[1] = FlagRun(0) => ApplyAll(d, runs).flag # 1)
         /\ (d.flag # -1 => ApplyAll(d, runs).flag # -1)
<1> DEFINE n == Len(runs)
<1>1. PICK f : After(f, d, runs) /\ ApplyAll(d, runs) = f[n]
  BY AppliedSteps
<1>2. f[0] = d /\ \A k \in 1 .. n : f[k] = Apply(f[k - 1], runs[k])
  BY <1>1 DEF After
<1> HIDE DEF n
<1>3. n \in 0 .. 4 /\ \A k \in 1 .. n : Harmless(runs[k])
  BY DEF n
<1> DEFINE clear == d.flag # 1 \/ (n # 0 /\ runs[1] = FlagRun(0))
           Good(k) == DiskOK(f[k]) /\ (clear => f[k].flag # 1) /\ (d.flag # -1 => f[k].flag # -1)
<1>4. ASSUME NEW k \in 1 .. n, DiskOK(f[k - 1]), clear => f[k - 1].flag # 1,
             d.flag # -1 => f[k - 1].flag # -1
      PROVE  Good(k)
  <2>1. f[k] = Apply(f[k - 1], runs[k]) /\ Harmless(runs[k])
    BY <1>2, <1>3
  <2>2. /\ DiskOK(f[k]) /\ (f[k - 1].flag # 1 => f[k].flag # 1)
        /\ (f[k - 1].flag # -1 => f[k].flag # -1)
    BY <1>4, <2>1, HarmlessRun
  <2> HIDE DEF clear
  <2> QED BY <1>4, <2>2
<1>5. DiskOK(f[0]) /\ (d.flag # 1 => f[0].flag # 1)
  BY <1>2
<1>6. n >= 1 => Good(1)
  <2> SUFFICES ASSUME n >= 1 PROVE Good(1)
    OBVIOUS
  <2>1. 1 \in 1 .. n
    BY <1>3
  <2>2. f[1] = Apply(d, runs[1]) /\ Harmless(runs[1])
    BY <1>2, <1>3, <2>1
  <2>3. /\ DiskOK(f[1]) /\ (d.flag # 1 => f[1].flag # 1)
        /\ (runs[1] = FlagRun(0) => f[1].flag # 1) /\ (d.flag # -1 => f[1].flag # -1)
    BY <2>2, HarmlessRun
  <2> QED BY <2>3
<1>g. ASSUME NEW k \in 2 .. 4, n >= k, Good(k - 1) PROVE Good(k)
  <2>1. k \in 1 .. n
    BY <1>3, <1>g
  <2> HIDE DEF clear
  <2>2. DiskOK(f[k - 1]) /\ (clear => f[k - 1].flag # 1) /\ (d.flag # -1 => f[k - 1].flag # -1)
    BY <1>g
  <2> HIDE DEF Good
  <2> QED BY <1>4, <2>1, <2>2
<1> HIDE DEF Good
<1>7. n >= 2 => Good(2)
  BY <1>3, <1>6, <1>g
<1>8. n >= 3 => Good(3)
  BY <1>3, <1>7, <1>g
<1>9. n >= 4 => Good(4)
  BY <1>3, <1>8, <1>g
<1>10. n # 0 => Good(n)
  BY <1>3, <1>6, <1>7, <1>8, <1>9
<1>11. CASE n = 0
  <2>1. ApplyAll(d, runs) = d
    BY <1>1, <1>2, <1>11
  <2> QED BY <1>11, <2>1 DEF n
<1>12. CASE n # 0
  <2>1. /\ DiskOK(ApplyAll(d, runs)) /\ (clear => ApplyAll(d, runs).flag # 1)
        /\ (d.flag # -1 => ApplyAll(d, runs).flag # -1)
    BY <1>1, <1>10, <1>12 DEF Good
  <2> QED BY <2>1 DEF n
<1> QED BY <1>11, <1>12

(* Clearing the flag is harmless, and so is writing cells.                 *)
LEMMA HarmlessKinds ==
  /\ Harmless(FlagRun(0))
  /\ \A at \in Nat \ {0} : \A c : IsList(c) => Harmless(Run(at, c))
<1>1. Harmless(FlagRun(0))
  BY DEF Harmless, RunOK, FlagRun
<1>2. ASSUME NEW at \in Nat \ {0}, NEW c, IsList(c) PROVE Harmless(Run(at, c))
  <2>1. RunOK(Run(at, c))
    BY <1>2, CellRun
  <2>2. "flag" \notin DOMAIN Run(at, c)
    BY DEF Run
  <2> QED BY <2>1, <2>2 DEF Harmless
<1> QED BY <1>1, <1>2

(* Nothing at all is quiet, and so is clearing the flag.                   *)
LEMMA QuietClear ==
  ASSUME NEW m
  PROVE  /\ Quiet(m, <<>>) /\ Quiet(m, ClearFlag(m))
         /\ (m.changed => ClearFlag(m) = <<>>) /\ (~m.changed => Len(ClearFlag(m)) = 1)
<1>1. IsList(<<>>) /\ Len(<<>>) = 0 /\ IsList(<<FlagRun(0)>>) /\ Len(<<FlagRun(0)>>) = 1
  BY DEF IsList
<1>2. Quiet(m, <<>>)
  BY <1>1 DEF Quiet
<1>3. CASE m.changed
  BY <1>2, <1>3 DEF ClearFlag
<1>4. CASE ~m.changed
  <2> DEFINE q == <<FlagRun(0)>>
  <2>1. IsList(q) /\ Len(q) = 1 /\ q[1] = FlagRun(0) /\ Harmless(FlagRun(0))
    BY <1>1, HarmlessKinds
  <2>2. ClearFlag(m) = q
    BY <1>4 DEF ClearFlag
  <2> HIDE DEF q
  <2>3. Quiet(m, q)
    BY <2>1 DEF Quiet
  <2> QED BY <1>2, <1>4, <2>1, <2>2, <2>3
<1> QED BY <1>3, <1>4

(* Quiet runs one after the other: the second start where the first end.   *)
LEMMA QuietThen ==
  ASSUME NEW m, NEW p, Quiet(m, p), NEW w, NEW q, Quiet(w, q), Len(p) + Len(q) \in 0 .. 3,
         Len(p) = 0 /\ ~m.changed => ~w.changed
  PROVE  Quiet(m, p \o q) /\ Len(p \o q) = Len(p) + Len(q)
<1> DEFINE a == Len(p)
           b == Len(q)
           u == p \o q
<1>1. IsList(p) /\ IsList(q) /\ a \in 0 .. 3 /\ b \in 0 .. 3
  BY DEF Quiet
<1>2. /\ IsList(u) /\ Len(u) = a + b
      /\ \A i \in 1 .. a : u[i] = p[i]
      /\ \A i \in 1 .. b : u[a + i] = q[i]
  BY <1>1, ConcatCells
<1>3. (\A i \in 1 .. a : Harmless(p[i])) /\ (\A i \in 1 .. b : Harmless(q[i])) /\ a + b \in 0 .. 3
  BY DEF Quiet
<1>4. /\ ~m.changed /\ a # 0 => p[1] = FlagRun(0)
      /\ ~w.changed /\ b # 0 => q[1] = FlagRun(0)
      /\ a = 0 /\ ~m.changed => ~w.changed
  BY DEF Quiet
<1> HIDE DEF a, b, u
<1>5. ASSUME NEW i \in 1 .. Len(u) PROVE Harmless(u[i])
  <2>1. CASE i <= a
    BY <1>1, <1>2, <1>3, <2>1
  <2>2. CASE i > a
    <3>1. i - a \in 1 .. b /\ a + (i - a) = i
      BY <1>1, <1>2, <2>2
    <3> QED BY <1>2, <1>3, <3>1
  <2> QED BY <1>1, <1>2, <2>1, <2>2
<1>6. ASSUME ~m.changed, Len(u) # 0 PROVE u[1] = FlagRun(0)
  <2>1. CASE a # 0
    <3>1. 1 \in 1 .. a
      BY <1>1, <2>1
    <3> QED BY <1>2, <1>4, <1>6, <2>1, <3>1
  <2>2. CASE a = 0
    <3>1. 1 \in 1 .. b /\ b # 0 /\ a + 1 = 1
      BY <1>1, <1>2, <1>6, <2>2
    <3>2. u[a + 1] = q[1]
      BY <1>2, <3>1
    <3> QED BY <1>4, <1>6, <2>2, <3>1, <3>2
  <2> QED BY <2>1, <2>2
<1>7. Quiet(m, u)
  <2>1. Len(u) \in 0 .. 3
    BY <1>2, <1>3
  <2> QED BY <1>2, <1>5, <1>6, <2>1 DEF Quiet
<1> QED BY <1>2, <1>7 DEF u, a, b

(* Cells are written behind a flag that is clear.                          *)
LEMMA QuietWrite ==
  ASSUME NEW m, NEW at \in Nat \ {0}, NEW c, IsList(c), NEW runs, runs = ClearFlag(m) \o <<Run(at, c)>>
  PROVE  /\ Quiet(m, runs) /\ Len(runs) \in 1 .. 2
         /\ (m.changed => Len(runs) = 1) /\ (~m.changed => Len(runs) = 2)
<1> DEFINE p == ClearFlag(m)
           q == <<Run(at, c)>>
<1>1. Harmless(Run(at, c))
  BY HarmlessKinds
<1>2. IsList(q) /\ Len(q) = 1 /\ q[1] = Run(at, c)
  BY CellRun
<1>3. IsList(p) /\ (m.changed => Len(p) = 0) /\ (~m.changed => Len(p) = 1)
      /\ (\A i \in 1 .. Len(p) : Harmless(p[i])) /\ (~m.changed => p[1] = FlagRun(0))
  <2>1. Quiet(m, p) /\ (m.changed => p = <<>>) /\ (~m.changed => Len(p) = 1)
    BY QuietClear
  <2> HIDE DEF p
  <2> QED BY <2>1 DEF Quiet
<1>4. runs = p \o q
  OBVIOUS
<1> HIDE DEF p, q
<1>c. /\ IsList(runs) /\ Len(runs) = Len(p) + Len(q)
      /\ \A i \in 1 .. Len(p) : runs[i] = p[i]
      /\ \A i \in 1 .. Len(q) : runs[Len(p) + i] = q[i]
  <2>1. IsList(p) /\ IsList(q)
    BY <1>2, <1>3
  <2>2. /\ IsList(p \o q) /\ Len(p \o q) = Len(p) + Len(q)
        /\ \A i \in 1 .. Len(p) : (p \o q)[i] = p[i]
        /\ \A i \in 1 .. Len(q) : (p \o q)[Len(p) + i] = q[i]
    BY <2>1, ConcatCells
  <2> QED BY <1>4, <2>2
<1>5. IsList(runs) /\ Len(runs) = Len(p) + 1 /\ \A i \in 1 .. Len(p) : runs[i] = p[i]
  BY <1>2, <1>c
<1>6. runs[Len(p) + 1] = Run(at, c)
  <2>1. 1 \in 1 .. Len(q)
    BY <1>2
  <2> QED BY <1>2, <1>c, <2>1
<1>7. CASE m.changed
  <2>1. Len(runs) = 1 /\ Harmless(runs[1])
    BY <1>1, <1>3, <1>5, <1>6, <1>7
  <2>2. \A i \in 1 .. Len(runs) : Harmless(runs[i])
    BY <2>1
  <2> QED BY <1>5, <1>7, <2>1, <2>2 DEF Quiet
<1>8. CASE ~m.changed
  <2>1. Len(runs) = 2 /\ runs[1] = FlagRun(0) /\ Harmless(runs[1]) /\ Harmless(runs[2])
    <3>1. Len(p) = 1 /\ 1 \in 1 .. Len(p) /\ p[1] = FlagRun(0) /\ Harmless(p[1])
      BY <1>3, <1>8
    <3>2. runs[1] = p[1] /\ runs[2] = Run(at, c) /\ Len(runs) = 2
      BY <1>5, <1>6, <3>1
    <3> QED BY <1>1, <3>1, <3>2
  <2>2. \A i \in 1 .. Len(runs) : Harmless(runs[i])
    BY <2>1
  <2> QED BY <1>5, <1>8, <2>1, <2>2 DEF Quiet
<1> QED BY <1>7, <1>8

(* The runs of remove(), whatever the archive looks like.                  *)
LEMMA RemovalQuiet ==
  ASSUME DiskOK(Image), NEW m, Typed(m), NEW n \in DOMAIN m.files
  PROVE  LET r == Removal(m, n) IN
         /\ Quiet(m, r.runs) /\ Len(r.runs) \in 0 .. 2
         /\ (Len(r.runs) # 0 => r.m.changed) /\ (Len(r.runs) = 0 /\ ~m.changed => r.m = m)
         /\ (m.changed => r.m.changed)
         /\ r.m.eoa \in Nat \ {0} /\ r.m.empties \in Seq(Place) /\ "changed" \in DOMAIN r.m
<1> DEFINE r == Removal(m, n)
           info == m.files[n]
           begin == info.pos - 3
<1> SUFFICES /\ Quiet(m, r.runs) /\ Len(r.runs) \in 0 .. 2
             /\ (Len(r.runs) # 0 => r.m.changed) /\ (Len(r.runs) = 0 /\ ~m.changed => r.m = m)
             /\ (m.changed => r.m.changed)
             /\ r.m.eoa \in Nat \ {0} /\ r.m.empties \in Seq(Place) /\ "changed" \in DOMAIN r.m
  OBVIOUS
<1>1. /\ info \in Place /\ m.empties \in Seq(Place) /\ m.eoa \in Nat \ {0}
      /\ m = [files |-> m.files, empties |-> m.empties, eoa |-> m.eoa, changed |-> m.changed]
  BY DEF Typed
<1>d. "changed" \in DOMAIN m
  BY <1>1
<1>2. Quiet(m, <<>>) /\ Quiet(m, ClearFlag(m)) /\ Len(<<>>) = 0
      /\ (m.changed => Len(ClearFlag(m)) = 0) /\ (~m.changed => Len(ClearFlag(m)) = 1)
  BY QuietClear
<1>3. CASE CellAt(Image, begin) # Start
  <2>1. r = [runs |-> <<>>, m |-> m, ok |-> FALSE, verified |-> TRUE]
    BY <1>3 DEF Removal
  <2>2. r.runs = <<>> /\ r.m = m
    BY <2>1
  <2> HIDE DEF r
  <2> QED BY <1>1, <1>2, <1>d, <2>2
<1>4. CASE CellAt(Image, begin) = Start
  <2>1. begin \in Nat \ {0}
    <3>1. CASE begin \in 1 .. Len(Image.cells)
      <4>1. Len(Image.cells) \in Nat
        BY DEF DiskOK, IsList
      <4> HIDE DEF begin
      <4> QED BY <3>1, <4>1
    <3>2. CASE begin \notin 1 .. Len(Image.cells)
      <4>1. Start = [eof |-> TRUE]
        BY <1>4, <3>2 DEF CellAt
      <4>2. "tag" \in DOMAIN Start
        BY DEF Start
      <4>3. "tag" \notin DOMAIN [eof |-> TRUE]
        OBVIOUS
      <4> QED BY <4>1, <4>2, <4>3
    <3> QED BY <3>1, <3>2
  <2>2. CASE info.pos + info.size + 2 = m.eoa
    <3>1. r = [runs |-> ClearFlag(m), m |-> CutOff(m, n), ok |-> TRUE, verified |-> TRUE]
      BY <1>4, <2>2 DEF Removal, CutOff, Gone
    <3>2. r.runs = ClearFlag(m) /\ r.m = CutOff(m, n)
      BY <3>1
    <3>3. CutOff(m, n).changed = TRUE /\ CutOff(m, n).eoa = begin /\ CutOff(m, n).empties = m.empties
      BY <1>1 DEF CutOff, Gone
    <3>d. "changed" \in DOMAIN CutOff(m, n)
      BY <1>d DEF CutOff, Gone
    <3> HIDE DEF r, begin
    <3>4. Len(ClearFlag(m)) \in 0 .. 2
      BY <1>2
    <3>5. r.m.changed /\ r.m.eoa \in Nat \ {0} /\ r.m.empties \in Seq(Place) /\ "changed" \in DOMAIN r.m
      BY <1>1, <2>1, <3>2, <3>3, <3>d
    <3>6. Len(ClearFlag(m)) = 0 => m.changed
      BY <1>2
    <3> QED BY <1>2, <3>2, <3>4, <3>5, <3>6
  <2>3. CASE info.pos + info.size + 2 # m.eoa
    <3> DEFINE at == begin + 1
               new == <<Len1(0), Size(info.size + 1)>>
               w == [Gone(m, n) EXCEPT !.empties = Append(@, [pos |-> begin + 2, size |-> info.size + 1])]
               runs == ClearFlag(m) \o <<Run(at, new)>>
    <3>1. r.runs = runs /\ r.m = w
      BY <1>4, <2>3 DEF Removal, Gone
    <3>2. at \in Nat \ {0} /\ IsList(new)
      <4>1. IsList(new)
        BY DEF IsList
      <4> HIDE DEF begin
      <4> QED BY <2>1, <4>1
    <3>3. [pos |-> begin + 2, size |-> info.size + 1] \in Place
      <4>1. info.size \in Nat
        BY <1>1 DEF Place
      <4> HIDE DEF begin, info
      <4> QED BY <2>1, <4>1 DEF Place
    <3>4. w.changed = TRUE /\ w.eoa = m.eoa /\ w.empties = Append(m.empties, [pos |-> begin + 2, size |-> info.size + 1])
      BY <1>1 DEF Gone
    <3>d. "changed" \in DOMAIN w
      BY <1>d DEF Gone
    <3>5. w.empties \in Seq(Place)
      <4> DEFINE x == [pos |-> begin + 2, size |-> info.size + 1]
      <4>1. x \in Place /\ w.empties = Append(m.empties, x)
        BY <3>3, <3>4
      <4> HIDE DEF x, w
      <4> QED BY <1>1, <4>1
    <3> HIDE DEF w, r, begin, info, new, at
    <3>6. /\ Quiet(m, runs) /\ Len(runs) \in 1 .. 2
      BY <3>2, QuietWrite
    <3>7. Len(runs) \in 0 .. 2 /\ Len(runs) # 0
      BY <3>6
    <3> HIDE DEF runs
    <3>8. Quiet(m, r.runs) /\ Len(r.runs) \in 0 .. 2 /\ Len(r.runs) # 0
      BY <3>1, <3>6, <3>7
    <3>9. r.m.changed = TRUE /\ r.m.eoa \in Nat \ {0} /\ r.m.empties \in Seq(Place) /\ "changed" \in DOMAIN r.m
      BY <1>1, <3>1, <3>4, <3>5, <3>d
    <3> QED BY <3>8, <3>9
  <2> QED BY <2>2, <2>3
<1> QED BY <1>3, <1>4

(* The runs of write().                                                    *)
LEMMA AdditionQuiet ==
  ASSUME NEW m, m.eoa \in Nat \ {0}, m.empties \in Seq(Place), NEW n, NEW v, NEW s \in Nat,
         "changed" \in DOMAIN m
  PROVE  LET a == Addition(m, n, v, s) IN
         /\ Quiet(m, a.runs) /\ Len(a.runs) \in 1 .. 2
         /\ (m.changed => Len(a.runs) = 1) /\ (~m.changed => Len(a.runs) = 2)
         /\ a.m.changed
<1> DEFINE a == Addition(m, n, v, s)
           fits == {i \in 1 .. Len(m.empties) : m.empties[i].size = s + 1}
           new == FileCells(n, v, s)
<1> SUFFICES /\ Quiet(m, a.runs) /\ Len(a.runs) \in 1 .. 2
             /\ (m.changed => Len(a.runs) = 1) /\ (~m.changed => Len(a.runs) = 2)
             /\ a.m.changed
  OBVIOUS
<1>1. IsList(new)
  BY FileCellsAre
<1>2. a.m.changed = TRUE
  <2>1. \E x, y, z : a.m = [m EXCEPT !.changed = TRUE, !.empties = x, !.eoa = y, !.files = z]
    BY DEF Addition
  <2> HIDE DEF a
  <2> QED BY <2>1, SMTT(30)
<1>3. ASSUME NEW at \in Nat \ {0}, a.runs = ClearFlag(m) \o <<Run(at, new)>>
      PROVE  /\ Quiet(m, a.runs) /\ Len(a.runs) \in 1 .. 2
             /\ (m.changed => Len(a.runs) = 1) /\ (~m.changed => Len(a.runs) = 2)
  <2> HIDE DEF a, new
  <2> QED BY <1>1, <1>3, QuietWrite
<1>4. CASE fits = {}
  <2>1. a.runs = ClearFlag(m) \o <<Run(m.eoa, new)>>
    BY <1>4 DEF Addition, FileCells
  <2> HIDE DEF a, new
  <2> QED BY <1>2, <1>3, <2>1
<1>5. CASE fits # {}
  <2> DEFINE j == Min(fits)
             at == m.empties[j].pos - 2
  <2>1. j \in fits
    <3>1. fits \subseteq Nat
      OBVIOUS
    <3> HIDE DEF fits
    <3> QED BY <1>5, <3>1, LeastIs
  <2>2. a.runs = ClearFlag(m) \o <<Run(at, new)>>
    BY <1>5 DEF Addition, FileCells
  <2>3. at \in Nat \ {0}
    <3>1. m.empties[j] \in Place
      <4>1. j \in 1 .. Len(m.empties)
        BY <2>1
      <4> HIDE DEF j, fits
      <4> QED BY <4>1
    <3> DEFINE x == m.empties[j].pos
    <3>2. x \in Nat \ 0 .. 2
      BY <3>1 DEF Place
    <3> HIDE DEF x, j
    <3>3. x - 2 \in Nat \ {0}
      BY <3>2
    <3> QED BY <3>3 DEF x
  <2> HIDE DEF a, new, at
  <2> QED BY <1>2, <1>3, <2>2, <2>3
<1> QED BY <1>4, <1>5

(* The runs of writeFile: a removal of the old file, then the new one.     *)
LEMMA WriteQuiet ==
  ASSUME DiskOK(Image), Typed(mem), NEW n, NEW v, NEW s \in Nat
  PROVE  LET r == Replaced(n)
             a == Addition(r.m, n, v, s)
         IN  /\ Quiet(mem, r.runs) /\ Quiet(mem, r.runs \o a.runs)
             /\ Len(r.runs \o a.runs) # 0 /\ (~mem.changed => Len(r.runs \o a.runs) \in 2 .. 3)
             /\ a.m.changed
<1> DEFINE r == Replaced(n)
           a == Addition(r.m, n, v, s)
           p == r.runs
           q == a.runs
<1> SUFFICES /\ Quiet(mem, p) /\ Quiet(mem, p \o q)
             /\ Len(p \o q) # 0 /\ (~mem.changed => Len(p \o q) \in 2 .. 3)
             /\ a.m.changed
  OBVIOUS
<1>1. /\ Quiet(mem, p) /\ Len(p) \in 0 .. 2
      /\ (Len(p) # 0 => r.m.changed) /\ (Len(p) = 0 /\ ~mem.changed => ~r.m.changed)
      /\ r.m.eoa \in Nat \ {0} /\ r.m.empties \in Seq(Place) /\ "changed" \in DOMAIN r.m
  <2>1. CASE n \in DOMAIN mem.files
    <3>1. r = Removal(mem, n)
      BY <2>1 DEF Replaced
    <3> HIDE DEF r
    <3> QED BY <2>1, <3>1, RemovalQuiet
  <2>2. CASE n \notin DOMAIN mem.files
    <3>1. r.m = mem /\ r.runs = <<>>
      BY <2>2 DEF Replaced, NoRemoval
    <3>2. mem.eoa \in Nat \ {0} /\ mem.empties \in Seq(Place) /\ Quiet(mem, <<>>) /\ Len(<<>>) = 0
          /\ "changed" \in DOMAIN mem
      BY QuietClear DEF Typed
    <3> HIDE DEF r
    <3> QED BY <3>1, <3>2
  <2> QED BY <2>1, <2>2
<1> HIDE DEF r
<1>3. /\ Quiet(r.m, q) /\ Len(q) \in 1 .. 2
      /\ (r.m.changed => Len(q) = 1) /\ (~r.m.changed => Len(q) = 2)
      /\ a.m.changed
  BY <1>1, AdditionQuiet
<1> HIDE DEF a, p, q
<1>4. Len(p) + Len(q) \in 1 .. 3 /\ (~mem.changed => Len(p) + Len(q) \in 2 .. 3)
  <2> DEFINE k == Len(p)
             l == Len(q)
  <2>1. k \in 0 .. 2 /\ l \in 1 .. 2 /\ (k # 0 => l = 1) /\ (k = 0 /\ ~mem.changed => l = 2)
    BY <1>1, <1>3
  <2> HIDE DEF k, l
  <2>2. k + l \in 1 .. 3 /\ (~mem.changed => k + l \in 2 .. 3)
    BY <2>1
  <2> QED BY <2>2 DEF k, l
<1>5. Quiet(mem, p \o q) /\ Len(p \o q) = Len(p) + Len(q)
  <2>1. Len(p) + Len(q) \in 0 .. 3
    BY <1>4
  <2> QED BY <1>1, <1>3, <2>1, QuietThen
<1> QED BY <1>1, <1>3, <1>4, <1>5

(* An index is typed when its parts are.                                   *)
LEMMA TypedMade ==
  ASSUME NEW F, DOMAIN F \subseteq Name, IsFiniteSet(DOMAIN F), F \in [DOMAIN F -> Place],
         NEW E \in Seq(Place), NEW e \in Nat \ {0}, NEW b \in BOOLEAN,
         NEW m, m = [files |-> F, empties |-> E, eoa |-> e, changed |-> b]
  PROVE  Typed(m)
<1>1. m.files = F
  OBVIOUS
<1>2. m \in [files : [DOMAIN F -> Place], empties : Seq(Place), eoa : Nat \ {0}, changed : BOOLEAN]
  OBVIOUS
<1> QED BY <1>1, <1>2 DEF Typed

(* add() adds a file to those there are.                                   *)
LEMMA AddFileTyped ==
  ASSUME NEW F, DOMAIN F \subseteq Name, IsFiniteSet(DOMAIN F), F \in [DOMAIN F -> Place],
         NEW n \in Name, NEW p \in Nat \ 0 .. 2, NEW s \in Nat, NEW H, H = AddFile(F, n, p, s)
  PROVE  DOMAIN H \subseteq Name /\ IsFiniteSet(DOMAIN H) /\ H \in [DOMAIN H -> Place]
<1>1. [pos |-> p, size |-> s] \in Place
  BY DEF Place
<1>2. CASE n \in DOMAIN F
  BY <1>2 DEF AddFile
<1>3. CASE n \notin DOMAIN F
  <2> DEFINE N == DOMAIN F \cup {n}
             x == [pos |-> p, size |-> s]
  <2>1. H = [y \in N |-> IF y = n THEN x ELSE F[y]]
    BY <1>3 DEF AddFile
  <2>2. IsFiniteSet(N) /\ N \subseteq Name
    BY FS_AddElement
  <2>3. \A y \in N : y # n => F[y] \in Place
    OBVIOUS
  <2> HIDE DEF x, N
  <2>4. x \in Place
    BY <1>1 DEF x
  <2> QED BY <2>1, <2>2, <2>3, <2>4
<1> QED BY <1>2, <1>3

(* An index without the file n, with all parts spelt out.                  *)
LEMMA GoneIs ==
  ASSUME NEW m, Typed(m), NEW n
  PROVE  Gone(m, n) = [files |-> [x \in DOMAIN m.files \ {n} |-> m.files[x]],
                       empties |-> m.empties, eoa |-> m.eoa, changed |-> TRUE]
<1> DEFINE a == m.files
           b == m.empties
           e == m.eoa
           g == m.changed
           rest == [x \in DOMAIN m.files \ {n} |-> m.files[x]]
           P(x, f) == [m EXCEPT !.files = x, !.changed = f] = [files |-> x, empties |-> b, eoa |-> e, changed |-> f]
<1>1. m = [files |-> a, empties |-> b, eoa |-> e, changed |-> g]
  BY DEF Typed
<1>2. ASSUME NEW x, NEW f PROVE P(x, f)
  <2> HIDE DEF a, b, e, g
  <2> DEFINE w == [m EXCEPT !.files = x, !.changed = f]
             r == [files |-> x, empties |-> b, eoa |-> e, changed |-> f]
             D == {"files", "empties", "eoa", "changed"}
  <2>1. DOMAIN m = D
    BY <1>1
  <2>2. w = [y \in D |-> IF y = "changed" THEN f ELSE IF y = "files" THEN x ELSE m[y]]
    BY <2>1
  <2>3. r = [y \in D |-> r[y]]
    OBVIOUS
  <2>4. r.files = x /\ r.empties = m.empties /\ r.eoa = m.eoa /\ r.changed = f
    BY <1>1
  <2> HIDE DEF r, w
  <2>5. \A y \in D : r[y] = IF y = "changed" THEN f ELSE IF y = "files" THEN x ELSE m[y]
    BY <2>4
  <2>6. w = r
    BY <2>2, <2>3, <2>5
  <2> QED BY <2>6 DEF w, r
<1> HIDE DEF P
<1>3. P(rest, TRUE)
  BY <1>2
<1> QED BY <1>3 DEF P, Gone

(* remove() leaves an index that is typed.                                 *)
LEMMA RemovalTyped ==
  ASSUME DiskOK(Image), NEW m, Typed(m), NEW n \in DOMAIN m.files
  PROVE  Typed(Removal(m, n).m)
<1> DEFINE r == Removal(m, n)
           w == r.m
           rest == [x \in DOMAIN m.files \ {n} |-> m.files[x]]
<1>1. w.eoa \in Nat \ {0} /\ w.empties \in Seq(Place)
  BY RemovalQuiet
<1>2. /\ m = [files |-> m.files, empties |-> m.empties, eoa |-> m.eoa, changed |-> m.changed]
      /\ m.files \in [DOMAIN m.files -> Place] /\ DOMAIN m.files \subseteq Name /\ IsFiniteSet(DOMAIN m.files)
  BY DEF Typed
<1>3. \/ w = m
      \/ \E E, e : w = [files |-> rest, empties |-> E, eoa |-> e, changed |-> TRUE]
  <2> DEFINE gone == Gone(m, n)
  <2>1. \/ w = m
        \/ \E e : w = [gone EXCEPT !.eoa = e]
        \/ \E E : w = [gone EXCEPT !.empties = E]
    BY DEF Removal, Gone
  <2> HIDE DEF w, r
  <2>2. gone = [files |-> rest, empties |-> m.empties, eoa |-> m.eoa, changed |-> TRUE]
    BY GoneIs
  <2> DEFINE b == m.empties
             q == m.eoa
             yes == TRUE
             D == {"files", "empties", "eoa", "changed"}
  <2>3. gone = [files |-> rest, empties |-> b, eoa |-> q, changed |-> yes]
    BY <2>2
  <2> HIDE DEF rest, gone, b, q, yes
  <2>4. DOMAIN gone = D /\ gone.files = rest /\ gone.empties = b /\ gone.eoa = q /\ gone.changed = yes
    BY <2>3
  <2>5. \A p, s, t, u : [files |-> p, empties |-> s, eoa |-> t, changed |-> u]
          = [y \in D |-> IF y = "files" THEN p ELSE IF y = "empties" THEN s ELSE IF y = "eoa" THEN t ELSE u]
    OBVIOUS
  <2>6. ASSUME NEW e PROVE [gone EXCEPT !.eoa = e] = [files |-> rest, empties |-> b, eoa |-> e, changed |-> yes]
    <3>1. [gone EXCEPT !.eoa = e] = [y \in D |-> IF y = "eoa" THEN e ELSE gone[y]]
      BY <2>4
    <3> QED BY <2>4, <2>5, <3>1
  <2>7. ASSUME NEW E PROVE [gone EXCEPT !.empties = E] = [files |-> rest, empties |-> E, eoa |-> q, changed |-> yes]
    <3>1. [gone EXCEPT !.empties = E] = [y \in D |-> IF y = "empties" THEN E ELSE gone[y]]
      BY <2>4
    <3> QED BY <2>4, <2>5, <3>1
  <2>8. \E E, e : w = [files |-> rest, empties |-> E, eoa |-> e, changed |-> yes] \/ w = m
    BY <2>1, <2>6, <2>7
  <2> QED BY <2>8, SMTT(30) DEF yes
<1>4. ASSUME NEW E, NEW e, w = [files |-> rest, empties |-> E, eoa |-> e, changed |-> TRUE]
      PROVE  Typed(w)
  <2> HIDE DEF w, r
  <2>1. E = w.empties /\ e = w.eoa /\ w.files = rest
    BY <1>4
  <2>2. DOMAIN rest = DOMAIN m.files \ {n} /\ rest \in [DOMAIN rest -> Place]
    BY <1>2
  <2>3. IsFiniteSet(DOMAIN rest) /\ DOMAIN rest \subseteq Name
    BY <1>2, <2>2, FS_Subset
  <2> HIDE DEF rest
  <2>4. Typed(w)
    BY <1>1, <1>4, <2>1, <2>2, <2>3, TypedMade
  <2> QED BY <2>4
<1> QED BY <1>3, <1>4

(* write() leaves an index that is typed.                                  *)
LEMMA AdditionTyped ==
  ASSUME NEW m, Typed(m), NEW n \in Name, NEW v, NEW s \in Nat
  PROVE  Typed(Addition(m, n, v, s).m)
<1> DEFINE a == Addition(m, n, v, s)
           w == a.m
           fits == {i \in 1 .. Len(m.empties) : m.empties[i].size = s + 1}
           j == Min(fits)
<1>1. /\ m = [files |-> m.files, empties |-> m.empties, eoa |-> m.eoa, changed |-> m.changed]
      /\ m.files \in [DOMAIN m.files -> Place] /\ DOMAIN m.files \subseteq Name /\ IsFiniteSet(DOMAIN m.files)
      /\ m.empties \in Seq(Place) /\ m.eoa \in Nat \ {0}
  BY DEF Typed
<1>2. ASSUME NEW q \in Nat \ {0}, NEW F, F = AddFile(m.files, n, q + 3, s)
      PROVE  DOMAIN F \subseteq Name /\ IsFiniteSet(DOMAIN F) /\ F \in [DOMAIN F -> Place]
  <2>1. q + 3 \in Nat \ 0 .. 2
    OBVIOUS
  <2> QED BY <1>1, <1>2, <2>1, AddFileTyped
<1>3. CASE fits = {}
  <2> DEFINE e == m.eoa
             F == AddFile(m.files, n, e + 3, s)
  <2>1. w = [m EXCEPT !.changed = TRUE, !.empties = @, !.eoa = e + s + 5, !.files = AddFile(@, n, e + 3, s)]
    BY <1>3 DEF Addition
  <2>2. w = [files |-> F, empties |-> m.empties, eoa |-> e + s + 5, changed |-> TRUE]
    <3> HIDE DEF w, e
    <3> QED BY <1>1, <2>1 DEF F
  <2>3. e \in Nat \ {0} /\ e + s + 5 \in Nat \ {0}
    BY <1>1
  <2> HIDE DEF w, e
  <2>4. DOMAIN F \subseteq Name /\ IsFiniteSet(DOMAIN F) /\ F \in [DOMAIN F -> Place]
    BY <1>2, <2>3
  <2> HIDE DEF F
  <2>5. TRUE \in BOOLEAN
    OBVIOUS
  <2>6. Typed(w)
    BY <1>1, <2>2, <2>3, <2>4, <2>5, TypedMade
  <2> QED BY <2>6 DEF w
<1>4. CASE fits # {}
  <2> DEFINE q == m.empties[j].pos - 2
             F == AddFile(m.files, n, q + 3, s)
             E == RemoveAt(m.empties, j)
  <2>1. j \in fits
    <3>1. fits \subseteq Nat
      OBVIOUS
    <3> HIDE DEF fits
    <3> QED BY <1>4, <3>1, LeastIs
  <2>2. j \in 1 .. Len(m.empties)
    BY <2>1
  <2>3. w = [m EXCEPT !.changed = TRUE, !.empties = RemoveAt(@, j), !.eoa = @, !.files = AddFile(@, n, q + 3, s)]
    BY <1>4 DEF Addition
  <2> HIDE DEF j, fits
  <2>4. w = [files |-> F, empties |-> E, eoa |-> m.eoa, changed |-> TRUE]
    <3> HIDE DEF w, q
    <3> QED BY <1>1, <2>3 DEF F, E
  <2>5. q \in Nat \ {0}
    <3>1. m.empties[j] \in Place
      BY <1>1, <2>2
    <3> DEFINE x == m.empties[j].pos
    <3>2. x \in Nat \ 0 .. 2
      BY <3>1 DEF Place
    <3> HIDE DEF x
    <3>3. x - 2 \in Nat \ {0}
      BY <3>2
    <3> QED BY <3>3 DEF x
  <2>6. E \in Seq(Place)
    BY <1>1, <2>2, RemoveAtIs
  <2> HIDE DEF w, q, E
  <2>7. DOMAIN F \subseteq Name /\ IsFiniteSet(DOMAIN F) /\ F \in [DOMAIN F -> Place]
    BY <1>2, <2>5
  <2> HIDE DEF F
  <2>8. TRUE \in BOOLEAN
    OBVIOUS
  <2>9. Typed(w)
    BY <1>1, <2>4, <2>6, <2>7, <2>8, TypedMade
  <2> QED BY <2>9 DEF w
<1> QED BY <1>3, <1>4

(* So does reading its table.                                              *)
LEMMA UnflaggedTyped ==
  ASSUME NEW m, Typed(m), NEW w, w = [m EXCEPT !.changed = FALSE]
  PROVE  Typed(w)
<1>1. /\ m.files \in [DOMAIN m.files -> Place] /\ DOMAIN m.files \subseteq Name /\ IsFiniteSet(DOMAIN m.files)
      /\ m.empties \in Seq(Place) /\ m.eoa \in Nat \ {0}
  BY DEF Typed
<1>2. w = [files |-> m.files, empties |-> m.empties, eoa |-> m.eoa, changed |-> FALSE]
  BY TypedIs, Unflagged
<1>3. FALSE \in BOOLEAN
  OBVIOUS
<1> QED BY <1>1, <1>2, <1>3, TypedMade

(* So is the index of an archive without files.                            *)
LEMMA ClosedTyped ==
  Typed(Closed) /\ Typed([Closed EXCEPT !.changed = TRUE])
<1> DEFINE c == <<>>
<1>1. /\ Closed = [files |-> c, empties |-> c, eoa |-> 1, changed |-> FALSE]
      /\ [Closed EXCEPT !.changed = TRUE] = [files |-> c, empties |-> c, eoa |-> 1, changed |-> TRUE]
  <2> DEFINE C(f) == [Closed EXCEPT !.changed = f] = [files |-> c, empties |-> c, eoa |-> 1, changed |-> f]
  <2>1. Closed = [files |-> c, empties |-> c, eoa |-> 1, changed |-> FALSE]
    BY DEF Closed
  <2>2. ASSUME NEW f PROVE C(f)
    <3> HIDE DEF c
    <3> QED BY <2>1
  <2> HIDE DEF C
  <2>3. C(TRUE)
    BY <2>2
  <2> QED BY <2>1, <2>3 DEF C
<1>2. DOMAIN c = {} /\ c \in Seq(Place) /\ c \in [DOMAIN c -> Place]
  OBVIOUS
<1>3. IsFiniteSet(DOMAIN c) /\ DOMAIN c \subseteq Name
  BY <1>2, FS_EmptySet
<1> HIDE DEF c
<1>4. 1 \in Nat \ {0} /\ TRUE \in BOOLEAN /\ FALSE \in BOOLEAN
  OBVIOUS
<1> QED BY <1>1, <1>2, <1>3, <1>4, TypedMade

(* And that after remove() and after a file was replaced.                  *)
LEMMA ReplacedTyped ==
  ASSUME DiskOK(Image), Typed(mem), NEW n
  PROVE  /\ Typed(Replaced(n).m)
         /\ n \in DOMAIN mem.files => Typed(Removal(mem, n).m)
<1>1. ASSUME n \in DOMAIN mem.files PROVE Typed(Removal(mem, n).m)
  BY <1>1, RemovalTyped
<1>2. CASE n \in DOMAIN mem.files
  BY <1>1, <1>2 DEF Replaced
<1>3. CASE n \notin DOMAIN mem.files
  BY <1>3 DEF Replaced, NoRemoval
<1> QED BY <1>1, <1>2, <1>3

-----------------------------------------------------------------------------
(* The types, for every usage: wherever a process dies, each cell of the   *)
(* file is one that the archive writes, so that a scan or a table is read  *)
(* back as an index.                                                       *)

(* A cell as the archive writes it: a length, a name, a size, ...          *)
CellOK(c) ==
  /\ "len" \in DOMAIN c => c.len \in Nat
  /\ "str" \in DOMAIN c => c.str \in Name
  /\ "size" \in DOMAIN c => c.size \in Nat
  /\ "count" \in DOMAIN c => c.count \in Nat
  /\ "file" \in DOMAIN c => c.file[1] \in Name /\ c.file[2] \in Nat \ 0 .. 2 /\ c.file[3] \in Nat
  /\ "ecount" \in DOMAIN c => c.ecount \in Nat
  /\ "empty" \in DOMAIN c => c.empty \in Place
  /\ "table" \in DOMAIN c => c.table \in Nat \ {0}

CellsOK(c) == IsList(c) /\ \A i \in 1 .. Len(c) : CellOK(c[i])

(* A segment as the scan reports it. *)
EntryOK(e) ==
  /\ e.name = Absent \/ e.name \in Name
  /\ e.pos \in Nat \ 0 .. 2 /\ e.size \in Nat /\ e.next \in Nat \ {0}

(* Adding a segment to an index leaves one.                                *)
LEMMA AddEntryTyped ==
  ASSUME NEW m, Typed(m), NEW e, EntryOK(e)
  PROVE  Typed(AddEntry(m, e))
<1> DEFINE F == IF e.name = Absent THEN m.files ELSE AddFile(m.files, e.name, e.pos, e.size)
           E == IF e.name = Absent THEN Append(m.empties, [pos |-> e.pos, size |-> e.size]) ELSE m.empties
           q == IF e.good THEN e.next ELSE m.eoa
           b == m.changed
           w == AddEntry(m, e)
<1>1. /\ m = [files |-> m.files, empties |-> m.empties, eoa |-> m.eoa, changed |-> m.changed]
      /\ m.files \in [DOMAIN m.files -> Place] /\ DOMAIN m.files \subseteq Name /\ IsFiniteSet(DOMAIN m.files)
      /\ m.empties \in Seq(Place) /\ m.eoa \in Nat \ {0} /\ b \in BOOLEAN
  BY DEF Typed
<1>2. /\ e.name = Absent \/ e.name \in Name
      /\ e.pos \in Nat \ 0 .. 2 /\ e.size \in Nat /\ e.next \in Nat \ {0}
  BY DEF EntryOK
<1>3. DOMAIN F \subseteq Name /\ IsFiniteSet(DOMAIN F) /\ F \in [DOMAIN F -> Place]
  <2>1. CASE e.name = Absent
    BY <1>1, <2>1
  <2>2. CASE e.name # Absent
    <3>1. e.name \in Name /\ F = AddFile(m.files, e.name, e.pos, e.size)
      BY <1>2, <2>2
    <3> HIDE DEF F
    <3> QED BY <1>1, <1>2, <3>1, AddFileTyped
  <2> QED BY <2>1, <2>2
<1>4. E \in Seq(Place)
  <2>1. [pos |-> e.pos, size |-> e.size] \in Place
    BY <1>2 DEF Place
  <2> QED BY <1>1, <2>1
<1>5. q \in Nat \ {0}
  BY <1>1, <1>2
<1>6. w = [m EXCEPT !.files = F, !.empties = E, !.eoa = q]
  BY DEF AddEntry
<1> HIDE DEF F, E, q, w
<1>7. w = [files |-> F, empties |-> E, eoa |-> q, changed |-> b]
  BY <1>1, <1>6
<1> HIDE DEF b
<1>8. Typed(w)
  BY <1>1, <1>3, <1>4, <1>5, <1>7, TypedMade
<1> QED BY <1>8 DEF w

(* A segment whose header is whole has a name, a position and a size.      *)
LEMMA SegmentOK ==
  ASSUME NEW c, CellsOK(c), NEW p \in 1 .. Len(c), WholeHeader(c, p)
  PROVE  EntryOK(SegmentAt(c, p))
<1> DEFINE n == Len(c)
           l == c[p + 1].len
           pos == p + 2 + l
           size == c[pos].size
           e == SegmentAt(c, p)
<1>1. n \in Nat /\ \A i \in 1 .. n : CellOK(c[i])
  BY DEF CellsOK, IsList
<1>2. /\ p + 1 <= n /\ "len" \in DOMAIN c[p + 1] /\ pos <= n /\ "size" \in DOMAIN c[pos]
      /\ (pos = p + 3 => "str" \in DOMAIN c[p + 2])
  BY DEF WholeHeader
<1>3. /\ e.name = IF pos = p + 3 THEN c[p + 2].str ELSE Absent
      /\ e.pos = pos /\ e.size = size /\ e.next = pos + size + 1 + 1
  BY DEF SegmentAt
<1> HIDE DEF e
<1>4. l \in Nat
  <2>1. p + 1 \in 1 .. n
    BY <1>1, <1>2
  <2>2. CellOK(c[p + 1])
    BY <1>1, <2>1
  <2> QED BY <1>2, <2>2 DEF CellOK
<1> HIDE DEF l
<1>5. pos \in 1 .. n /\ pos \in Nat \ 0 .. 2
  BY <1>1, <1>2, <1>4
<1>6. size \in Nat
  <2> HIDE DEF pos
  <2>2. CellOK(c[pos])
    BY <1>1, <1>5
  <2> QED BY <1>2, <2>2 DEF CellOK
<1>7. pos = p + 3 => c[p + 2].str \in Name
  <2> SUFFICES ASSUME pos = p + 3 PROVE c[p + 2].str \in Name
    OBVIOUS
  <2>1. p + 2 \in 1 .. n
    BY <1>1, <1>5
  <2>2. CellOK(c[p + 2])
    BY <1>1, <2>1
  <2> QED BY <1>2, <2>2 DEF CellOK
<1> HIDE DEF pos, size
<1>8. e.next \in Nat \ {0}
  BY <1>3, <1>5, <1>6
<1> QED BY <1>3, <1>5, <1>6, <1>7, <1>8 DEF EntryOK, e


(* The scan has come to a cell, or to the end.                             *)
Indices ==
  {m \in [files : UNION {[N -> Place] : N \in SUBSET Name}, empties : Seq(Place),
          eoa : Nat \ {0}, changed : BOOLEAN] : Typed(m)}
ScanStates(n) == {[at |-> p, m |-> m] : p \in 1 .. n + 1, m \in Indices}

(* Indices are what Typed says.                                            *)
LEMMA TypedIndices ==
  ASSUME NEW m
  PROVE  m \in Indices <=> Typed(m)
<1>1. ASSUME Typed(m) PROVE m \in Indices
  <2>1. m.files \in UNION {[N -> Place] : N \in SUBSET Name}
    BY <1>1 DEF Typed
  <2>2. m \in [files : UNION {[N -> Place] : N \in SUBSET Name}, empties : Seq(Place),
               eoa : Nat \ {0}, changed : BOOLEAN]
    <3> DEFINE U == UNION {[N -> Place] : N \in SUBSET Name}
    <3>1. /\ m.files \in U /\ m.empties \in Seq(Place) /\ m.eoa \in Nat \ {0} /\ m.changed \in BOOLEAN
          /\ m = [files |-> m.files, empties |-> m.empties, eoa |-> m.eoa, changed |-> m.changed]
      BY <1>1, <2>1 DEF Typed
    <3> HIDE DEF U
    <3>2. m \in [files : U, empties : Seq(Place), eoa : Nat \ {0}, changed : BOOLEAN]
      BY <3>1
    <3> QED BY <3>2 DEF U
  <2> QED BY <1>1, <2>2 DEF Indices
<1>2. m \in Indices => Typed(m)
  BY DEF Indices
<1> QED BY <1>1, <1>2

(* One pass of the scan loop keeps an index, and does not leave the file.  *)
LEMMA PassedTyped ==
  ASSUME NEW c, CellsOK(c), NEW resync \in BOOLEAN, NEW s \in ScanStates(Len(c))
  PROVE  Passed(c, resync, s) \in ScanStates(Len(c))
<1> DEFINE n == Len(c)
           w == Passed(c, resync, s)
<1>1. n \in Nat
  BY DEF CellsOK, IsList
<1>2. PICK p \in 1 .. n + 1, m \in Indices : s = [at |-> p, m |-> m]
  BY DEF ScanStates
<1>3. s.at = p /\ s.m = m /\ Typed(m)
  BY <1>2, TypedIndices
<1>4. ASSUME NEW q \in 1 .. n + 1 PROVE [s EXCEPT !.at = q] \in ScanStates(n)
  <2>1. [s EXCEPT !.at = q] = [at |-> q, m |-> m]
    BY <1>2
  <2> QED BY <2>1 DEF ScanStates
<1>5. CASE p = n + 1
  <2>1. w = s
    BY <1>3, <1>5 DEF Passed
  <2> QED BY <2>1
<1>6. CASE p # n + 1 /\ c[p] # Start
  <2>1. p + 1 \in 1 .. n + 1 /\ n + 1 \in 1 .. n + 1
    BY <1>1, <1>6
  <2>2. w = [s EXCEPT !.at = IF resync THEN p + 1 ELSE n + 1]
    BY <1>3, <1>6 DEF Passed
  <2> QED BY <1>4, <2>1, <2>2
<1>7. CASE p # n + 1 /\ c[p] = Start /\ (~WholeHeader(c, p) \/ SegmentAt(c, p).next > n + 1)
  <2>1. n + 1 \in 1 .. n + 1
    BY <1>1
  <2>2. w = [s EXCEPT !.at = n + 1]
    BY <1>3, <1>7 DEF Passed
  <2> QED BY <1>4, <2>1, <2>2
<1>8. CASE p # n + 1 /\ c[p] = Start /\ WholeHeader(c, p) /\ ~(SegmentAt(c, p).next > n + 1)
  <2> DEFINE e == SegmentAt(c, p)
             x == e.next
             y == AddEntry(m, e)
  <2>1. w = [at |-> x, m |-> y]
    BY <1>3, <1>8 DEF Passed
  <2>2. p \in 1 .. n
    BY <1>1, <1>8
  <2>3. EntryOK(e)
    BY <1>8, <2>2, SegmentOK
  <2>4. x \in Nat \ {0} /\ ~(x > n + 1)
    BY <1>8, <2>3 DEF EntryOK
  <2> HIDE DEF e
  <2>5. Typed(y)
    BY <1>3, <2>3, AddEntryTyped
  <2> HIDE DEF x, y, w
  <2>6. x \in 1 .. n + 1 /\ y \in Indices
    BY <1>1, <2>4, <2>5, TypedIndices
  <2>7. w \in ScanStates(n)
    BY <2>1, <2>6 DEF ScanStates
  <2> QED BY <2>7 DEF w
<1> QED BY <1>5, <1>6, <1>7, <1>8

(* The passes of the loop, one for every cell: each leaves a state.        *)
LEMMA ScanPasses ==
  ASSUME NEW c, CellsOK(c), NEW resync \in BOOLEAN
  PROVE  \E g : /\ g[0] = [at |-> 1, m |-> Closed]
                /\ \A k \in 1 .. Len(c) : g[k] = Passed(c, resync, g[k - 1])
                /\ \A k \in 0 .. Len(c) : g[k] \in ScanStates(Len(c))
                /\ Scanned(c, resync) = g[Len(c)].m
<1> DEFINE n == Len(c)
           S == ScanStates(n)
           d == [at |-> 1, m |-> Closed]
           Go(s) == CHOOSE t \in {Passed(c, resync, x) : x \in {s}} : TRUE
           G == [s \in S |-> Passed(c, resync, s)]
           Passes(f) == f = [k \in 0 .. n |-> IF k = 0 THEN d ELSE Go(f[k - 1])]
<1>1. n \in Nat
  BY DEF CellsOK, IsList
<1>2. d \in S
  <2>1. Closed \in Indices /\ 1 \in 1 .. n + 1
    BY <1>1, ClosedTyped, TypedIndices
  <2> QED BY <2>1 DEF ScanStates
<1>3. \A s : Go(s) = Passed(c, resync, s)
  OBVIOUS
<1>4. G \in [S -> S]
  BY PassedTyped
<1>5. Scanned(c, resync) = (CHOOSE f : Passes(f))[n].m
  BY DEF Scanned
<1>6. ASSUME NEW s \in S PROVE G[s] = Go(s) /\ G[s] \in S
  BY <1>3, <1>4, <1>6
<1>a. \A s : Passed(c, resync, s) = Go(s)
  BY <1>3
<1> HIDE DEF S, d, G, Go
<1>7. PICK f : Iterates(f, S, d, G, n)
  <2> HIDE DEF n
  <2> QED BY <1>1, <1>2, <1>4, Iteration
<1>8. Passes(f)
  <2> HIDE DEF n
  <2>1. ASSUME NEW k \in 0 .. n PROVE f[k] = IF k = 0 THEN d ELSE Go(f[k - 1])
    <3>1. f \in [0 .. n -> S] /\ f[k] = IF k = 0 THEN d ELSE G[f[k - 1]]
      BY <1>7 DEF Iterates
    <3>2. k # 0 => k - 1 \in 0 .. n
      BY <1>1
    <3>3. k # 0 => f[k - 1] \in S
      BY <3>1, <3>2
    <3> QED BY <1>6, <3>1, <3>3
  <2>2. f = [k \in 0 .. n |-> f[k]]
    BY <1>7 DEF Iterates
  <2> QED BY <2>1, <2>2
<1> DEFINE g == CHOOSE h : Passes(h)
<1>9. Passes(g)
  BY <1>8
<1> HIDE DEF g
<1> DEFINE T == {k \in 0 .. n : g[k] \in S}
<1>10. \A k \in 0 .. n : g[k] = IF k = 0 THEN d ELSE Go(g[k - 1])
  BY <1>9
<1> HIDE DEF n
<1>11. 0 \in T
  BY <1>1, <1>2, <1>10
<1>12. ASSUME NEW k \in 0 .. n - 1, k \in T PROVE k + 1 \in T
  <2>1. k + 1 \in 0 .. n /\ k + 1 # 0 /\ (k + 1) - 1 = k /\ k \in 0 .. n
    BY <1>1
  <2>2. g[k + 1] = Go(g[k])
    BY <1>10, <2>1
  <2>3. g[k] \in S
    BY <1>12
  <2> QED BY <1>6, <2>1, <2>2, <2>3
<1>13. \A k \in 0 .. n : k \in T
  <2> HIDE DEF T
  <2> QED BY <1>1, <1>11, <1>12, Counting
<1>14. g[0] = d /\ \A k \in 1 .. n : g[k] = Passed(c, resync, g[k - 1])
  <2>1. g[0] = d
    BY <1>1, <1>10
  <2>2. ASSUME NEW k \in 1 .. n PROVE g[k] = Passed(c, resync, g[k - 1])
    <3>1. k \in 0 .. n /\ k # 0
      BY <1>1
    <3>2. g[k] = Go(g[k - 1])
      BY <1>10, <3>1
    <3> QED BY <1>a, <3>2
  <2> QED BY <2>1, <2>2
<1>15. \A k \in 0 .. n : g[k] \in S
  BY <1>13
<1>16. Scanned(c, resync) = g[n].m
  BY <1>5 DEF g, n
<1> HIDE DEF T
<1> QED BY <1>14, <1>15, <1>16 DEF S, d, n

(* scanArchive() finds an index, whatever a crash has left in the file.    *)
LEMMA ScannedTyped ==
  ASSUME NEW c, CellsOK(c), NEW resync \in BOOLEAN
  PROVE  Typed(Scanned(c, resync))
<1> DEFINE n == Len(c)
<1>1. PICK g : (\A k \in 0 .. n : g[k] \in ScanStates(n)) /\ Scanned(c, resync) = g[n].m
  BY ScanPasses
<1>2. n \in 0 .. n
  BY DEF CellsOK, IsList
<1>3. PICK p \in 1 .. n + 1, m \in Indices : g[n] = [at |-> p, m |-> m]
  BY <1>1, <1>2 DEF ScanStates
<1> QED BY <1>1, <1>3, TypedIndices

(* The cells the archive writes.                                           *)
LEMMA CellKinds ==
  /\ CellOK(Hole) /\ CellOK(Start) /\ CellOK(End)
  /\ \A x \in Nat : /\ CellOK(Len1(x)) /\ CellOK(Size(x)) /\ CellOK([count |-> x]) /\ CellOK([ecount |-> x])
                    /\ x # 0 => CellOK([table |-> x])
  /\ \A n \in Name : CellOK(Str(n))
  /\ \A v : CellOK(Data(v))
  /\ \A p \in Place : CellOK([empty |-> p])
  /\ \A n \in Name, p \in Nat \ 0 .. 2, s \in Nat : CellOK([file |-> <<n, p, s>>])
<1>1. CellOK(Hole) /\ CellOK(Start) /\ CellOK(End)
  BY DEF CellOK, Hole, Start, End
<1>2. ASSUME NEW x \in Nat
      PROVE  CellOK(Len1(x)) /\ CellOK(Size(x)) /\ CellOK([count |-> x]) /\ CellOK([ecount |-> x])
  BY DEF CellOK, Len1, Size
<1>3. \A x \in Nat : x # 0 => CellOK([table |-> x])
  BY DEF CellOK
<1>4. (\A n \in Name : CellOK(Str(n))) /\ (\A v : CellOK(Data(v))) /\ (\A p \in Place : CellOK([empty |-> p]))
  BY DEF CellOK, Str, Data
<1>5. ASSUME NEW n \in Name, NEW p \in Nat \ 0 .. 2, NEW s \in Nat PROVE CellOK([file |-> <<n, p, s>>])
  <2> DEFINE c == [file |-> <<n, p, s>>]
  <2>1. DOMAIN c = {"file"} /\ c.file[1] = n /\ c.file[2] = p /\ c.file[3] = s
    OBVIOUS
  <2> HIDE DEF c
  <2>2. CellOK(c)
    BY <2>1 DEF CellOK
  <2> QED BY <2>2 DEF c
<1> QED BY <1>1, <1>2, <1>3, <1>4, <1>5

(* The file, and the runs that are written to it. *)
FileTyped(d) == DiskOK(d) /\ d.flag \in {-1, 0, 1} /\ CellsOK(d.cells)

RunTyped(r) ==
  \/ r = FlagRun(0) \/ r = FlagRun(1)
  \/ r = Run(r.at, r.cells) /\ r.at \in Nat \ {0} /\ CellsOK(r.cells)

RunsTyped(runs) == IsList(runs) /\ \A i \in 1 .. Len(runs) : RunTyped(runs[i])

(* Cells that are overwritten by such cells.                               *)
LEMMA OverwrittenTyped ==
  ASSUME NEW c, CellsOK(c), NEW new, CellsOK(new), NEW at \in Nat \ {0}
  PROVE  CellsOK(Overwritten(c, at, new))
<1> DEFINE o == Overwritten(c, at, new)
           n == Len(c)
           m == Len(new)
           x == Max({n, at + m - 1})
<1>1. IsList(o)
  BY OverwrittenCells DEF CellsOK
<1>2. o = [i \in 1 .. x |-> IF i \in at .. at + m - 1 THEN new[i - at + 1] ELSE IF i <= n THEN c[i] ELSE Hole]
  BY DEF Overwritten
<1>3. n \in Nat /\ m \in Nat /\ (\A i \in 1 .. n : CellOK(c[i])) /\ (\A i \in 1 .. m : CellOK(new[i]))
  BY DEF CellsOK, IsList
<1>4. x \in Nat
  BY <1>3, MaxOfTwo
<1> HIDE DEF n, m, x, o
<1>5. Len(o) = x
  BY <1>2, <1>4
<1>6. ASSUME NEW i \in 1 .. x PROVE CellOK(o[i])
  <2>1. CASE i \in at .. at + m - 1
    <3>1. i - at + 1 \in 1 .. m
      BY <1>3, <2>1
    <3> QED BY <1>2, <1>3, <2>1, <3>1
  <2>2. CASE i \notin at .. at + m - 1 /\ i <= n
    <3>1. i \in 1 .. n
      BY <1>3, <2>2
    <3> QED BY <1>2, <1>3, <2>2, <3>1
  <2>3. CASE i \notin at .. at + m - 1 /\ ~(i <= n)
    BY <1>2, <2>3, CellKinds
  <2> QED BY <2>1, <2>2, <2>3
<1> QED BY <1>1, <1>5, <1>6 DEF CellsOK, o

(* One run more in the file.                                               *)
LEMMA ApplyTyped ==
  ASSUME NEW d, FileTyped(d), NEW r, RunTyped(r)
  PROVE  FileTyped(Apply(d, r))
<1>1. DiskOK(d) /\ d.flag \in {-1, 0, 1} /\ CellsOK(d.cells)
  BY DEF FileTyped
<1>2. CASE r = FlagRun(0) \/ r = FlagRun(1)
  <2>1. \E f \in {0, 1} : Apply(d, r) = [flag |-> f, cells |-> d.cells]
    BY <1>1, <1>2, ApplyIs
  <2> QED BY <1>1, <2>1 DEF FileTyped, DiskOK, CellsOK
<1>3. CASE r = Run(r.at, r.cells) /\ r.at \in Nat \ {0} /\ CellsOK(r.cells)
  <2> DEFINE at == r.at
             c == r.cells
             o == Overwritten(d.cells, at, c)
  <2>1. Apply(d, r) = [flag |-> d.flag, cells |-> o]
    BY <1>1, <1>3, ApplyIs
  <2>2. at \in Nat \ {0} /\ CellsOK(c)
    BY <1>3
  <2> HIDE DEF at, c
  <2>3. CellsOK(o)
    BY <1>1, <2>2, OverwrittenTyped
  <2> HIDE DEF o
  <2> QED BY <1>1, <2>1, <2>3 DEF FileTyped, DiskOK, CellsOK
<1> QED BY <1>2, <1>3 DEF RunTyped

(* Several of them.                                                        *)
LEMMA AppliedTyped ==
  ASSUME NEW d, FileTyped(d), NEW runs, RunsTyped(runs), Len(runs) \in 0 .. 4
  PROVE  FileTyped(ApplyAll(d, runs))
<1> DEFINE n == Len(runs)
<1>1. PICK f : After(f, d, runs) /\ ApplyAll(d, runs) = f[n]
  BY AppliedSteps
<1>2. f[0] = d /\ \A k \in 1 .. n : f[k] = Apply(f[k - 1], runs[k])
  BY <1>1 DEF After
<1>3. \A k \in 1 .. n : RunTyped(runs[k])
  BY DEF RunsTyped
<1> HIDE DEF n
<1>n. n \in Nat
  BY DEF n
<1> DEFINE T == {k \in 0 .. n : FileTyped(f[k])}
<1>4. ASSUME NEW k \in 0 .. n - 1, k \in T PROVE k + 1 \in T
  <2>1. k + 1 \in 1 .. n /\ k + 1 \in 0 .. n /\ (k + 1) - 1 = k
    BY <1>n
  <2>2. f[k + 1] = Apply(f[k], runs[k + 1])
    BY <1>2, <2>1
  <2>3. FileTyped(f[k])
    BY <1>4
  <2>4. RunTyped(runs[k + 1])
    BY <1>3, <2>1
  <2> QED BY <2>1, <2>2, <2>3, <2>4, ApplyTyped
<1>5. 0 \in T
  BY <1>2, <1>n
<1> HIDE DEF T
<1>6. n \in T
  <2>1. \A k \in 0 .. n : k \in T
    BY <1>4, <1>5, <1>n, Counting
  <2> QED BY <1>n, <2>1
<1> QED BY <1>1, <1>6 DEF T, n

(* Such a run can be applied.                                              *)
LEMMA RunTypedOK == ASSUME NEW r, RunTyped(r) PROVE RunOK(r)
<1>1. CASE r = FlagRun(0) \/ r = FlagRun(1)
  BY <1>1 DEF RunOK, FlagRun
<1>2. CASE r = Run(r.at, r.cells) /\ r.at \in Nat \ {0} /\ CellsOK(r.cells)
  BY <1>2 DEF RunOK, CellsOK
<1> QED BY <1>1, <1>2 DEF RunTyped

(* A run of cells.                                                         *)
LEMMA RunIs ==
  ASSUME NEW at \in Nat \ {0}, NEW c, CellsOK(c)
  PROVE  RunTyped(Run(at, c))
BY DEF RunTyped, Run

(* The first cells of some.                                                *)
LEMMA FirstTyped ==
  ASSUME NEW c, CellsOK(c), NEW k \in 0 .. Len(c)
  PROVE  CellsOK(SubSeq(c, 1, k)) /\ Len(SubSeq(c, 1, k)) = k
<1> DEFINE o == SubSeq(c, 1, k)
           n == Len(c)
<1>1. IsList(c) /\ n \in Nat /\ \A i \in 1 .. n : CellOK(c[i])
  BY DEF CellsOK, IsList
<1>2. IsList(o) /\ Len(o) = k /\ \A i \in 1 .. k : o[i] = c[i]
  BY <1>1, FirstCells
<1>3. \A i \in 1 .. k : i \in 1 .. n
  <2>1. k \in 0 .. n
    OBVIOUS
  <2> HIDE DEF n
  <2> QED BY <1>1, <2>1
<1> HIDE DEF o, n
<1> QED BY <1>1, <1>2, <1>3 DEF CellsOK, o

(* The first runs of some.                                                 *)
LEMMA FirstRunsTyped ==
  ASSUME NEW runs, RunsTyped(runs), NEW k \in 0 .. Len(runs)
  PROVE  RunsTyped(SubSeq(runs, 1, k)) /\ Len(SubSeq(runs, 1, k)) = k
<1> DEFINE o == SubSeq(runs, 1, k)
           n == Len(runs)
<1>1. IsList(runs) /\ n \in Nat /\ \A i \in 1 .. n : RunTyped(runs[i])
  BY DEF RunsTyped, IsList
<1>2. IsList(o) /\ Len(o) = k /\ \A i \in 1 .. k : o[i] = runs[i]
  BY <1>1, FirstCells
<1>3. \A i \in 1 .. k : i \in 1 .. n
  <2>1. k \in 0 .. n
    OBVIOUS
  <2> HIDE DEF n
  <2> QED BY <1>1, <2>1
<1> HIDE DEF o, n
<1> QED BY <1>1, <1>2, <1>3 DEF RunsTyped, o

(* What is left of a run that is torn.                                     *)
LEMMA TornTyped ==
  ASSUME NEW r, RunTyped(r), NEW t \in Torn(r)
  PROVE  RunTyped(t)
<1>1. HasPayload(r)
  BY DEF Torn
<1>2. "cells" \in DOMAIN r
  BY <1>1 DEF HasPayload
<1>3. r = Run(r.at, r.cells) /\ r.at \in Nat \ {0} /\ CellsOK(r.cells)
  <2>1. \A f : "cells" \notin DOMAIN FlagRun(f)
    BY DEF FlagRun
  <2> QED BY <1>2, <2>1 DEF RunTyped
<1>4. PICK j \in 1 .. Len(r.cells) : t = [r EXCEPT !.cells = SubSeq(@, 1, j)]
  BY <1>1 DEF Torn
<1> DEFINE c == SubSeq(r.cells, 1, j)
<1>5. CellsOK(c)
  <2>1. j \in 0 .. Len(r.cells)
    OBVIOUS
  <2> QED BY <1>3, <2>1, FirstTyped
<1>6. t = Run(r.at, c)
  BY <1>3, <1>4 DEF Run
<1> HIDE DEF c
<1> QED BY <1>3, <1>5, <1>6, RunIs

(* Runs one after the other.                                               *)
LEMMA ConcatTyped ==
  ASSUME NEW p, NEW q, RunsTyped(p), RunsTyped(q)
  PROVE  RunsTyped(p \o q) /\ Len(p) \in Nat /\ Len(q) \in Nat /\ Len(p \o q) = Len(p) + Len(q)
<1> DEFINE a == Len(p)
           b == Len(q)
           u == p \o q
<1>1. /\ IsList(u) /\ a \in Nat /\ b \in Nat /\ Len(u) = a + b
      /\ \A i \in 1 .. a : u[i] = p[i]
      /\ \A i \in 1 .. b : u[a + i] = q[i]
  BY ConcatCells DEF RunsTyped
<1>2. (\A i \in 1 .. a : RunTyped(p[i])) /\ (\A i \in 1 .. b : RunTyped(q[i]))
  BY DEF RunsTyped
<1> HIDE DEF a, b, u
<1>3. ASSUME NEW i \in 1 .. a + b PROVE RunTyped(u[i])
  <2>1. CASE i <= a
    BY <1>1, <1>2, <2>1
  <2>2. CASE i > a
    <3>1. i - a \in 1 .. b /\ a + (i - a) = i
      BY <1>1, <2>2
    <3> QED BY <1>1, <1>2, <3>1
  <2> QED BY <1>1, <2>1, <2>2
<1> QED BY <1>1, <1>3 DEF a, b, u, RunsTyped

(* No run, the one that clears the flag, and any other one.                *)
LEMMA OneRunTyped ==
  /\ RunsTyped(<<>>) /\ \A m : RunsTyped(ClearFlag(m)) /\ Len(ClearFlag(m)) \in 0 .. 1
  /\ \A r : RunTyped(r) => RunsTyped(<<r>>)
<1>1. RunsTyped(<<>>)
  BY DEF RunsTyped, IsList
<1>2. ASSUME NEW r, RunTyped(r) PROVE RunsTyped(<<r>>)
  BY <1>2 DEF RunsTyped, IsList
<1>3. ASSUME NEW m PROVE RunsTyped(ClearFlag(m)) /\ Len(ClearFlag(m)) \in 0 .. 1
  <2> DEFINE r == FlagRun(0)
             q == <<r>>
             none == <<>>
  <2>1. RunTyped(r)
    BY DEF RunTyped
  <2> HIDE DEF r
  <2>2. RunsTyped(q) /\ Len(q) = 1 /\ RunsTyped(none) /\ Len(none) = 0
    BY <1>1, <1>2, <2>1
  <2>3. ClearFlag(m) = none \/ ClearFlag(m) = q
    BY DEF ClearFlag, r
  <2> HIDE DEF q, none
  <2> QED BY <2>2, <2>3
<1> QED BY <1>1, <1>2, <1>3

(* Clearing the flag and writing cells.                                    *)
LEMMA WrittenTyped ==
  ASSUME NEW m, NEW at \in Nat \ {0}, NEW c, CellsOK(c)
  PROVE  RunsTyped(ClearFlag(m) \o <<Run(at, c)>>)
<1> DEFINE p == ClearFlag(m)
           q == <<Run(at, c)>>
<1>1. RunsTyped(p) /\ RunsTyped(q)
  BY RunIs, OneRunTyped
<1> HIDE DEF p, q
<1>2. RunsTyped(p \o q)
  BY <1>1, ConcatTyped
<1> QED BY <1>2 DEF p, q

(* The runs of remove().                                                   *)
LEMMA RemovalRuns ==
  ASSUME DiskOK(Image), NEW m, Typed(m), NEW n \in DOMAIN m.files
  PROVE  RunsTyped(Removal(m, n).runs)
<1> DEFINE r == Removal(m, n)
           info == m.files[n]
           begin == info.pos - 3
           at == begin + 1
           new == <<Len1(0), Size(info.size + 1)>>
<1>1. info \in Place
  BY DEF Typed
<1>2. info.pos \in Nat \ 0 .. 2 /\ info.size \in Nat
  BY <1>1 DEF Place
<1>3. r.runs = <<>> \/ r.runs = ClearFlag(m) \/ r.runs = ClearFlag(m) \o <<Run(at, new)>>
  BY DEF Removal
<1>4. CellsOK(new)
  <2> DEFINE a == Len1(0)
             b == Size(info.size + 1)
  <2>1. CellOK(a) /\ CellOK(b)
    <3> HIDE DEF info
    <3>1. 0 \in Nat /\ info.size + 1 \in Nat
      BY <1>2
    <3> QED BY <3>1, CellKinds
  <2>2. IsList(new) /\ Len(new) = 2 /\ new[1] = a /\ new[2] = b
    BY DEF IsList
  <2> HIDE DEF a, b, new
  <2> QED BY <2>1, <2>2 DEF CellsOK
<1>5. at \in Nat \ {0}
  <2> DEFINE x == info.pos
  <2>1. x \in Nat \ 0 .. 2
    BY <1>2
  <2> HIDE DEF x
  <2>2. x - 3 + 1 \in Nat \ {0}
    BY <2>1
  <2> QED BY <2>2 DEF x
<1> HIDE DEF r, at, new
<1>6. RunsTyped(ClearFlag(m) \o <<Run(at, new)>>)
  BY <1>4, <1>5, WrittenTyped
<1> DEFINE u == ClearFlag(m) \o <<Run(at, new)>>
           none == <<>>
<1>7. RunsTyped(none) /\ RunsTyped(ClearFlag(m)) /\ RunsTyped(u)
  BY <1>6, OneRunTyped
<1>8. r.runs = none \/ r.runs = ClearFlag(m) \/ r.runs = u
  BY <1>3
<1> HIDE DEF u, none
<1> QED BY <1>7, <1>8 DEF r

(* The cells of a file.                                                    *)
LEMMA FileCellsTyped ==
  ASSUME NEW n \in Name, NEW v, NEW s \in Nat
  PROVE  CellsOK(FileCells(n, v, s))
<1> DEFINE a == <<Start, Len1(1), Str(n), Size(s)>>
           b == Payload(v, s)
           z == <<End>>
           C == {c \in {Start, Len1(1), Str(n), Size(s), Data(v), End} : CellOK(c)}
<1>1. CellOK(Start) /\ CellOK(Len1(1)) /\ CellOK(Str(n)) /\ CellOK(Size(s)) /\ CellOK(Data(v)) /\ CellOK(End)
  <2>1. 1 \in Nat
    OBVIOUS
  <2> QED BY <2>1, CellKinds
<1>2. Start \in C /\ Len1(1) \in C /\ Str(n) \in C /\ Size(s) \in C /\ Data(v) \in C /\ End \in C
  BY <1>1
<1>3. \A c \in C : CellOK(c)
  OBVIOUS
<1> HIDE DEF C
<1>4. a \in Seq(C) /\ z \in Seq(C)
  BY <1>2
<1>5. b \in Seq(C)
  BY <1>2 DEF Payload
<1> HIDE DEF a, b, z
<1>6. a \o b \in Seq(C)
  BY <1>4, <1>5
<1>7. a \o b \o z \in Seq(C)
  BY <1>4, <1>6
<1> DEFINE u == FileCells(n, v, s)
<1>8. u \in Seq(C)
  BY <1>7 DEF FileCells, a, b, z
<1> HIDE DEF u
<1>9. IsList(u) /\ \A i \in 1 .. Len(u) : u[i] \in C
  BY <1>8, SeqCells
<1> QED BY <1>3, <1>9 DEF CellsOK, u

(* The runs of write().                                                    *)
LEMMA AdditionRuns ==
  ASSUME NEW m, Typed(m), NEW n \in Name, NEW v, NEW s \in Nat
  PROVE  RunsTyped(Addition(m, n, v, s).runs)
<1> DEFINE a == Addition(m, n, v, s)
           fits == {i \in 1 .. Len(m.empties) : m.empties[i].size = s + 1}
           new == FileCells(n, v, s)
<1> SUFFICES RunsTyped(a.runs)
  OBVIOUS
<1>1. CellsOK(new)
  BY FileCellsTyped
<1>t. m.eoa \in Nat \ {0} /\ m.empties \in Seq(Place)
  BY DEF Typed
<1>3. ASSUME NEW at \in Nat \ {0}, a.runs = ClearFlag(m) \o <<Run(at, new)>>
      PROVE  RunsTyped(a.runs)
  <2> HIDE DEF a, new
  <2> QED BY <1>1, <1>3, WrittenTyped
<1>4. CASE fits = {}
  <2>1. a.runs = ClearFlag(m) \o <<Run(m.eoa, new)>>
    BY <1>4 DEF Addition, FileCells
  <2> HIDE DEF a, new
  <2> QED BY <1>3, <1>t, <2>1
<1>5. CASE fits # {}
  <2> DEFINE j == Min(fits)
             at == m.empties[j].pos - 2
  <2>1. j \in fits
    <3>1. fits \subseteq Nat
      OBVIOUS
    <3> HIDE DEF fits
    <3> QED BY <1>5, <3>1, LeastIs
  <2>2. a.runs = ClearFlag(m) \o <<Run(at, new)>>
    BY <1>5 DEF Addition, FileCells
  <2>3. at \in Nat \ {0}
    <3>1. m.empties[j] \in Place
      <4>1. j \in 1 .. Len(m.empties)
        BY <2>1
      <4> HIDE DEF j, fits
      <4> QED BY <1>t, <4>1
    <3> DEFINE x == m.empties[j].pos
    <3>2. x \in Nat \ 0 .. 2
      BY <3>1 DEF Place
    <3> HIDE DEF x, j
    <3>3. x - 2 \in Nat \ {0}
      BY <3>2
    <3> QED BY <3>3 DEF x
  <2> HIDE DEF a, new, at
  <2> QED BY <1>3, <2>2, <2>3
<1> QED BY <1>4, <1>5

(* The runs and the index of writeFile and of removeFile.                  *)
LEMMA ReplacedRuns ==
  ASSUME DiskOK(Image), Typed(mem), NEW n \in Name, NEW v, NEW s \in Nat
  PROVE  LET r == Replaced(n)
             a == Addition(r.m, n, v, s)
         IN  /\ RunsTyped(r.runs) /\ Len(r.runs) \in 0 .. 3 /\ RunsTyped(r.runs \o a.runs)
             /\ Len(r.runs \o a.runs) \in 0 .. 3 /\ Typed(a.m)
             /\ n \in DOMAIN mem.files => RunsTyped(Removal(mem, n).runs) /\ Len(Removal(mem, n).runs) \in 0 .. 3
                                          /\ Typed(Removal(mem, n).m)
<1> DEFINE r == Replaced(n)
           w == r.m
           a == Addition(w, n, v, s)
           p == r.runs
           q == a.runs
           g == Removal(mem, n)
<1>1. Quiet(mem, p) /\ Quiet(mem, p \o q)
  BY WriteQuiet
<1>2. Typed(w) /\ (n \in DOMAIN mem.files => Typed(g.m))
  BY ReplacedTyped
<1>3. n \in DOMAIN mem.files => RunsTyped(g.runs) /\ Quiet(mem, g.runs)
  BY RemovalRuns, RemovalQuiet
<1>4. RunsTyped(p)
  <2>1. CASE n \in DOMAIN mem.files
    <3>1. r = g
      BY <2>1 DEF Replaced
    <3> HIDE DEF r, g
    <3> QED BY <1>3, <2>1, <3>1
  <2>2. CASE n \notin DOMAIN mem.files
    <3> DEFINE none == <<>>
    <3>1. p = none
      BY <2>2 DEF Replaced, NoRemoval
    <3>2. RunsTyped(none)
      BY OneRunTyped
    <3> HIDE DEF none, p
    <3> QED BY <3>1, <3>2
  <2> QED BY <2>1, <2>2
<1> HIDE DEF w, r, g
<1>5. RunsTyped(q) /\ Typed(a.m)
  BY <1>2, AdditionRuns, AdditionTyped
<1> HIDE DEF a, p, q
<1>6. RunsTyped(p \o q)
  BY <1>4, <1>5, ConcatTyped
<1>7. Len(p) \in 0 .. 3 /\ Len(p \o q) \in 0 .. 3 /\ (n \in DOMAIN mem.files => Len(g.runs) \in 0 .. 3)
  BY <1>1, <1>3 DEF Quiet
<1> QED BY <1>2, <1>3, <1>4, <1>5, <1>6, <1>7 DEF a, p, q, r, w, g

(* The cells of the table.                                                 *)
LEMMA TableTyped ==
  ASSUME NEW m, Typed(m)
  PROVE  CellsOK(TableCells(m))
<1> DEFINE T == TableCells(m)
           names == SetToSeq(DOMAIN m.files)
           f == Len(names)
           e == Len(m.empties)
<1>1. MemOK(m)
  BY TypedIs
<1>2. /\ IsList(T) /\ f \in Nat /\ e \in Nat /\ Len(T) = f + e + 3
      /\ T[1] = [count |-> f]
      /\ \A i \in 1 .. f : T[1 + i] = [file |-> <<names[i], m.files[names[i]].pos, m.files[names[i]].size>>]
      /\ T[f + 2] = [ecount |-> e]
      /\ \A i \in 1 .. e : T[f + 2 + i] = [empty |-> m.empties[i]]
      /\ T[f + e + 3] = [table |-> m.eoa]
  BY <1>1, TableLayout DEF Layout
<1>3. /\ m.files \in [DOMAIN m.files -> Place] /\ DOMAIN m.files \subseteq Name /\ IsFiniteSet(DOMAIN m.files)
      /\ m.empties \in Seq(Place) /\ m.eoa \in Nat \ {0}
  BY DEF Typed
<1>4. \A i \in 1 .. f : names[i] \in DOMAIN m.files
  <2>1. names \in Seq(DOMAIN m.files)
    BY <1>3, SetToSeqEnumerates
  <2> HIDE DEF names
  <2> QED BY <2>1
<1>5. \A i \in 1 .. e : m.empties[i] \in Place
  BY <1>3
<1> HIDE DEF T, names, f, e
<1>6. ASSUME NEW i \in 1 .. f PROVE CellOK(T[1 + i])
  <2> DEFINE x == names[i]
             p == m.files[x].pos
             s == m.files[x].size
  <2>1. x \in DOMAIN m.files /\ x \in Name /\ m.files[x] \in Place
    BY <1>3, <1>4
  <2>2. p \in Nat \ 0 .. 2 /\ s \in Nat
    BY <2>1 DEF Place
  <2>3. T[1 + i] = [file |-> <<x, p, s>>]
    BY <1>2
  <2> HIDE DEF x, p, s
  <2>4. CellOK([file |-> <<x, p, s>>])
    BY <2>1, <2>2, CellKinds
  <2> QED BY <2>3, <2>4
<1>7. ASSUME NEW i \in 1 .. Len(T) PROVE CellOK(T[i])
  <2>1. CASE i = 1
    BY <1>2, <2>1, CellKinds
  <2>2. CASE i \in 2 .. f + 1
    <3>1. i - 1 \in 1 .. f /\ 1 + (i - 1) = i
      BY <1>2, <2>2
    <3>2. CellOK(T[1 + (i - 1)])
      BY <1>6, <3>1
    <3> QED BY <3>1, <3>2
  <2>3. CASE i = f + 2
    BY <1>2, <2>3, CellKinds
  <2>4. CASE i \in f + 3 .. f + e + 2
    <3>1. i - (f + 2) \in 1 .. e /\ f + 2 + (i - (f + 2)) = i
      BY <1>2, <2>4
    <3> DEFINE j == i - (f + 2)
    <3> HIDE DEF j
    <3>2. T[f + 2 + j] = [empty |-> m.empties[j]] /\ m.empties[j] \in Place
      BY <1>2, <1>5, <3>1 DEF j
    <3>3. CellOK(T[f + 2 + j])
      BY <3>2, CellKinds
    <3> QED BY <3>1, <3>3 DEF j
  <2>5. CASE i = f + e + 3
    BY <1>2, <1>3, <2>5, CellKinds
  <2> QED BY <1>2, <2>1, <2>2, <2>3, <2>4, <2>5
<1> QED BY <1>2, <1>7 DEF CellsOK, T

(* The index that a table gives is one, wherever the table came from.      *)
LEMMA TableIndexTyped ==
  ASSUME NEW d, FileTyped(d), HasTable(d)
  PROVE  Typed(TableIndex(d))
<1> DEFINE c == d.cells
           n == Len(c)
           t == c[n].table
           f == c[t].count
           e == c[t + f + 1].ecount
           infos == [i \in 1 .. f |-> d.cells[t + i].file]
           first(x) == infos[Min({i \in 1 .. f : infos[i][1] = x})]
           N == {infos[i][1] : i \in 1 .. f}
           F == [x \in N |-> [pos |-> first(x)[2], size |-> first(x)[3]]]
           E == [i \in 1 .. e |-> d.cells[t + f + 1 + i].empty]
           no == FALSE
           w == TableIndex(d)
<1>1. n \in Nat /\ \A i \in 1 .. n : CellOK(c[i])
  BY DEF FileTyped, CellsOK, IsList
<1>2. /\ n > 0 /\ DOMAIN c[n] = {"table"} /\ t < n /\ DOMAIN c[t] = {"count"} /\ t + f + 1 < n
      /\ \A i \in t + 1 .. t + f : DOMAIN c[i] = {"file"}
      /\ DOMAIN c[t + f + 1] = {"ecount"} /\ t + f + 1 + e + 1 = n
      /\ \A i \in t + f + 2 .. n - 1 : DOMAIN c[i] = {"empty"}
  BY DEF HasTable
<1>3. w = [files |-> F, empties |-> E, eoa |-> t, changed |-> no]
  BY DEF TableIndex
<1> HIDE DEF w
<1>4. t \in Nat \ {0}
  <2>1. n \in 1 .. n /\ "table" \in DOMAIN c[n]
    BY <1>1, <1>2
  <2> HIDE DEF n
  <2> QED BY <1>1, <2>1, SMTT(30) DEF CellOK
<1> HIDE DEF t
<1>5. f \in Nat
  <2>1. t \in 1 .. n /\ "count" \in DOMAIN c[t]
    BY <1>1, <1>2, <1>4
  <2> QED BY <1>1, <2>1 DEF CellOK
<1> HIDE DEF f
<1>6. e \in Nat
  <2>1. t + f + 1 \in 1 .. n /\ "ecount" \in DOMAIN c[t + f + 1]
    BY <1>1, <1>2, <1>4, <1>5
  <2> QED BY <1>1, <2>1 DEF CellOK
<1> HIDE DEF e
<1>7. \A i \in 1 .. f : infos[i][1] \in Name /\ infos[i][2] \in Nat \ 0 .. 2 /\ infos[i][3] \in Nat
  <2> SUFFICES ASSUME NEW i \in 1 .. f
               PROVE  infos[i][1] \in Name /\ infos[i][2] \in Nat \ 0 .. 2 /\ infos[i][3] \in Nat
    OBVIOUS
  <2> DEFINE cell == c[t + i]
  <2>1. t + i \in 1 .. n /\ t + i \in t + 1 .. t + f
    BY <1>1, <1>2, <1>4, <1>5
  <2>2. "file" \in DOMAIN cell /\ CellOK(cell)
    BY <1>1, <1>2, <2>1
  <2>3. infos[i] = cell.file
    OBVIOUS
  <2> HIDE DEF cell, infos
  <2> QED BY <2>2, <2>3 DEF CellOK
<1>8. N \subseteq Name /\ IsFiniteSet(N)
  <2>1. N \subseteq Name
    BY <1>7
  <2>2. IsFiniteSet(1 .. f)
    BY <1>5, FS_Interval
  <2> DEFINE h == [i \in 1 .. f |-> infos[i][1]]
  <2>3. IsFiniteSet({h[i] : i \in 1 .. f})
    <3>1. h \in Surjection(1 .. f, {h[i] : i \in 1 .. f})
      BY DEF Surjection
    <3> HIDE DEF h
    <3> QED BY <2>2, <3>1, FS_Surjection
  <2>4. N = {h[i] : i \in 1 .. f}
    OBVIOUS
  <2> QED BY <2>1, <2>3, <2>4
<1>9. F \in [N -> Place]
  <2> SUFFICES ASSUME NEW x \in N PROVE [pos |-> first(x)[2], size |-> first(x)[3]] \in Place
    OBVIOUS
  <2> DEFINE S == {i \in 1 .. f : infos[i][1] = x}
             y == Min(S)
  <2>1. S # {}
    OBVIOUS
  <2>2. S \subseteq Nat
    BY <1>5
  <2>3. y \in S
    <3> HIDE DEF S
    <3> QED BY <2>1, <2>2, LeastIs
  <2>4. first(x) = infos[y]
    OBVIOUS
  <2>5. y \in 1 .. f
    BY <2>3
  <2> HIDE DEF y, first, infos
  <2>6. first(x)[2] \in Nat \ 0 .. 2 /\ first(x)[3] \in Nat
    BY <1>7, <2>4, <2>5
  <2> QED BY <2>6, SMTT(30) DEF Place
<1>10. E \in Seq(Place)
  <2>1. ASSUME NEW i \in 1 .. e PROVE d.cells[t + f + 1 + i].empty \in Place
    <3> DEFINE cell == c[t + f + 1 + i]
    <3>1. t + f + 1 + i \in 1 .. n /\ t + f + 1 + i \in t + f + 2 .. n - 1
      BY <1>1, <1>2, <1>4, <1>5, <1>6
    <3>2. "empty" \in DOMAIN cell /\ CellOK(cell)
      BY <1>1, <1>2, <3>1
    <3>3. cell.empty \in Place
      <4> HIDE DEF cell
      <4> QED BY <3>2 DEF CellOK
    <3> QED BY <3>3
  <2>2. E \in [1 .. e -> Place]
    BY <2>1
  <2> HIDE DEF E
  <2> QED BY <1>6, <2>2
<1>11. DOMAIN F = N
  OBVIOUS
<1>12. no \in BOOLEAN
  OBVIOUS
<1> HIDE DEF F, E, N, no
<1>13. Typed(w)
  BY <1>3, <1>4, <1>8, <1>9, <1>10, <1>11, <1>12, TypedMade
<1> QED BY <1>13 DEF w

(* The part of the file that the table ends with. *)
Ending(m) == m.eoa + Len(TableCells(m)) - 1

(* Cutting the file off behind the table.                                  *)
LEMMA TruncatedTyped ==
  ASSUME NEW d, FileTyped(d), NEW m, Typed(m), m.changed => Ending(m) <= Len(d.cells)
  PROVE  FileTyped(Truncated(d, m))
<1>1. CASE ~m.changed
  BY <1>1 DEF Truncated
<1>2. CASE m.changed
  <2> DEFINE k == Ending(m)
             c == d.cells
             o == SubSeq(c, 1, k)
  <2>1. DiskOK(d) /\ d.flag \in {-1, 0, 1} /\ CellsOK(c)
    BY DEF FileTyped
  <2>2. Truncated(d, m) = [flag |-> d.flag, cells |-> o]
    BY <1>2, <2>1 DEF Truncated, DiskOK, Ending
  <2>3. k \in 0 .. Len(c)
    <3> DEFINE l == Len(TableCells(m))
               n == Len(c)
               q == m.eoa
    <3>1. l \in Nat /\ n \in Nat /\ q \in Nat \ {0} /\ k = q + l - 1 /\ k <= n
      BY <1>2, <2>1, TableTyped DEF Typed, CellsOK, IsList, Ending
    <3> HIDE DEF l, n, q, k
    <3>2. k \in 0 .. n
      BY <3>1
    <3> QED BY <3>2 DEF n
  <2> HIDE DEF k
  <2>4. CellsOK(o)
    BY <2>1, <2>3, FirstTyped
  <2> HIDE DEF o
  <2> QED BY <2>1, <2>2, <2>4 DEF FileTyped, DiskOK, CellsOK
<1> QED BY <1>1, <1>2

(* writeFileInfoTable() leaves a file that is long enough to be cut off    *)
(* behind the table.                                                       *)
LEMMA FinishTyped ==
  ASSUME NEW d, FileTyped(d), NEW m, Typed(m), NEW runs, runs = Finish(m)
  PROVE  /\ RunsTyped(runs) /\ Len(runs) \in 0 .. 2
         /\ m.changed => /\ Ending(m) <= Len(ApplyAll(d, runs).cells)
                         /\ ApplyAll(d, runs).cells = Overwritten(d.cells, m.eoa, TableCells(m))
<1> DEFINE T == TableCells(m)
           at == m.eoa
           r == Run(at, T)
           f == FlagRun(1)
           one == <<r>>
           two == <<r, f>>
           none == <<>>
           o == Overwritten(d.cells, at, T)
<1>1. runs = none \/ runs = two
  BY DEF Finish
<1>2. ~m.changed => runs = none
  BY DEF Finish
<1>3. m.changed => runs = two
  BY DEF Finish
<1>4. CellsOK(T) /\ at \in Nat \ {0} /\ DiskOK(d) /\ IsList(d.cells) /\ IsList(T)
  BY TableTyped DEF Typed, FileTyped, CellsOK
<1>5. RunTyped(r) /\ RunTyped(f)
  <2>1. RunTyped(f)
    BY DEF RunTyped
  <2> HIDE DEF T, at
  <2> QED BY <1>4, <2>1, RunIs
<1>6. /\ IsList(o) /\ Len(o) >= at + Len(T) - 1
  <2>1. o = Overwritten(d.cells, at, T)
    OBVIOUS
  <2> HIDE DEF o, T, at
  <2> QED BY <1>4, <2>1, OverwrittenCells
<1>7. ApplyAll(d, one) = [flag |-> d.flag, cells |-> o]
  <2>1. ApplyAll(d, one) = Apply(d, r)
    BY ApplyOne
  <2> QED BY <1>4, <2>1, ApplyIs
<1>8. RunsTyped(none) /\ Len(none) = 0 /\ RunsTyped(two) /\ Len(two) = 2
  <2> HIDE DEF r, f
  <2>1. RunsTyped(none) /\ Len(none) = 0
    BY OneRunTyped
  <2>2. RunsTyped(two)
    BY <1>5 DEF RunsTyped, IsList
  <2> QED BY <2>1, <2>2
<1> HIDE DEF r, f, o
<1>9. ApplyAll(d, two).cells = o
  <2>1. /\ Len(one) = 1 /\ Len(two) = 2 /\ two[1] = r /\ two[2] = f /\ one[1] = r
    OBVIOUS
  <2> HIDE DEF one, two
  <2>2. Len(one) \in 0 .. 3 /\ Len(two) = Len(one) + 1 /\ \A i \in 1 .. Len(one) : two[i] = one[i]
    BY <2>1
  <2>3. ApplyAll(d, two) = Apply(ApplyAll(d, one), f)
    <3>1. ApplyAll(d, two) = Apply(ApplyAll(d, one), two[Len(two)])
      BY <2>2, ApplyLast
    <3> QED BY <2>1, <3>1
  <2> DEFINE g == ApplyAll(d, one)
  <2>4. g.cells = o /\ DiskOK(g)
    BY <1>6, <1>7 DEF DiskOK
  <2> HIDE DEF g
  <2>5. Apply(g, f) = [flag |-> 1, cells |-> g.cells]
    BY <2>4, ApplyIs DEF f
  <2> QED BY <2>3, <2>4, <2>5 DEF g
<1> HIDE DEF two, none
<1>10. m.changed => Ending(m) <= Len(ApplyAll(d, runs).cells)
  <2> SUFFICES ASSUME m.changed PROVE Ending(m) <= Len(ApplyAll(d, runs).cells)
    OBVIOUS
  <2>1. ApplyAll(d, runs).cells = o
    BY <1>3, <1>9
  <2>2. Len(o) \in Nat /\ Len(T) \in Nat
    BY <1>4, <1>6 DEF IsList
  <2>3. Ending(m) = at + Len(T) - 1
    BY DEF Ending
  <2> DEFINE x == Len(o)
             l == Len(T)
  <2>4. x \in Nat /\ l \in Nat /\ at \in Nat /\ x >= at + l - 1 /\ Ending(m) = at + l - 1
    BY <1>4, <1>6, <2>2, <2>3
  <2> HIDE DEF x, l, at
  <2>5. Ending(m) <= x
    BY <2>4
  <2> QED BY <2>1, <2>5 DEF x
<1>11. m.changed => ApplyAll(d, runs).cells = Overwritten(d.cells, m.eoa, TableCells(m))
  BY <1>3, <1>9 DEF o
<1> QED BY <1>1, <1>8, <1>10, <1>11

Buffered(p) == p = <<>> \/ (Len(p) = 1 /\ p = <<p[1]>> /\ RunTyped(p[1]))

(* The invariant for the types: what is in the file, in the buffer and in   *)
(* memory, and that there is a table to be cut off behind.                  *)
TypeInv ==
  /\ FileTyped(disk) /\ Buffered(pending) /\ Typed(mem)
  /\ status \in {"closed", "open", "truncating", "aborted", "unreadable"}
  /\ status = "truncating" /\ mem.changed => Ending(mem) <= Len(disk.cells)
  /\ usage \in Usage /\ ops \in 0 .. usage.ops /\ crashes \in 0 .. usage.crashes

(* The file as its own stream sees it.                                     *)
LEMMA StreamTyped ==
  ASSUME TypeInv
  PROVE  /\ RunsTyped(pending) /\ Len(pending) \in 0 .. 1 /\ FileTyped(Image) /\ DiskOK(Image)
<1>1. RunsTyped(pending) /\ Len(pending) \in 0 .. 1
  <2>1. CASE pending = <<>>
    BY <2>1, OneRunTyped
  <2>2. CASE Len(pending) = 1 /\ pending = <<pending[1]>> /\ RunTyped(pending[1])
    <3> DEFINE x == pending[1]
               p == <<x>>
    <3>1. RunsTyped(p)
      <4> HIDE DEF x
      <4> QED BY <2>2, OneRunTyped DEF x
    <3>2. pending = p
      BY <2>2
    <3> QED BY <2>2, <3>1, <3>2
  <2> QED BY <2>1, <2>2 DEF TypeInv, Buffered
<1>2. FileTyped(Image)
  <2>1. Len(pending) \in 0 .. 4
    BY <1>1
  <2> QED BY <1>1, <2>1, AppliedTyped DEF Image, TypeInv
<1> QED BY <1>1, <1>2 DEF FileTyped

(* What is in the buffer and what is written next, together.               *)
LEMMA StreamRuns ==
  ASSUME TypeInv, NEW runs, RunsTyped(runs), Len(runs) \in 0 .. 3, NEW all, all = pending \o runs
  PROVE  RunsTyped(all) /\ Len(all) \in 0 .. 4
<1> DEFINE a == Len(pending)
           b == Len(runs)
<1>1. RunsTyped(all) /\ Len(all) = a + b
  BY StreamTyped, ConcatTyped
<1>2. a \in 0 .. 1 /\ b \in 0 .. 3
  BY StreamTyped
<1> HIDE DEF a, b
<1>3. Len(all) \in 0 .. 4
  BY <1>1, <1>2
<1> QED BY <1>1, <1>3

(* What is written and flushed.                                            *)
LEMMA FlushTyped ==
  ASSUME TypeInv, NEW runs, RunsTyped(runs), Len(runs) \in 0 .. 3, EmitAndFlush(runs)
  PROVE  FileTyped(disk') /\ Buffered(pending')
<1> DEFINE all == pending \o runs
<1>1. RunsTyped(all) /\ Len(all) \in 0 .. 4
  BY StreamRuns
<1>2. disk' = ApplyAll(disk, all) /\ pending' = <<>>
  BY DEF EmitAndFlush
<1> HIDE DEF all
<1>3. FileTyped(disk')
  BY <1>1, <1>2, AppliedTyped DEF TypeInv
<1> QED BY <1>2, <1>3 DEF Buffered

(* What is written and stays in the buffer in part.                        *)
LEMMA EmitTyped ==
  ASSUME TypeInv, NEW runs, RunsTyped(runs), Len(runs) \in 0 .. 3, Emit(runs)
  PROVE  FileTyped(disk') /\ Buffered(pending')
<1> DEFINE all == pending \o runs
<1>1. RunsTyped(all) /\ Len(all) \in 0 .. 4
  BY StreamRuns
<1>2. /\ disk' = ApplyAll(disk, IF all = <<>> THEN all ELSE Front(all))
      /\ pending' = IF all = <<>> THEN all ELSE <<Last(all)>>
  BY DEF Emit
<1> HIDE DEF all
<1>3. CASE all = <<>>
  <2>1. FileTyped(disk')
    BY <1>1, <1>2, <1>3, AppliedTyped DEF TypeInv
  <2> QED BY <1>2, <1>3, <2>1 DEF Buffered
<1>4. CASE all # <<>>
  <2> DEFINE n == Len(all)
             x == all[n]
             f == SubSeq(all, 1, n - 1)
             p == <<x>>
  <2>1. disk' = ApplyAll(disk, f) /\ pending' = p
    BY <1>2, <1>4 DEF Front, Last
  <2>2. n # 0
    <3>1. n = 0 => all = <<>>
      BY <1>1 DEF RunsTyped, IsList
    <3> QED BY <1>4, <3>1
  <2>3. n - 1 \in 0 .. n /\ n \in 1 .. n /\ n - 1 \in 0 .. 4
    <3> HIDE DEF n
    <3> QED BY <1>1, <2>2 DEF n
  <2>4. RunsTyped(f) /\ Len(f) = n - 1
    <3> DEFINE k == n - 1
    <3>1. k \in 0 .. Len(all)
      BY <2>3
    <3> HIDE DEF k
    <3>2. RunsTyped(SubSeq(all, 1, k)) /\ Len(SubSeq(all, 1, k)) = k
      BY <1>1, <3>1, FirstRunsTyped
    <3> QED BY <3>2 DEF k
  <2>5. RunTyped(x)
    BY <1>1, <2>3 DEF RunsTyped
  <2> HIDE DEF n, f, x
  <2>6. FileTyped(disk')
    BY <2>1, <2>3, <2>4, AppliedTyped DEF TypeInv
  <2>7. Buffered(p)
    BY <2>5 DEF Buffered
  <2> QED BY <2>1, <2>6, <2>7
<1> QED BY <1>3, <1>4

(* What a crash leaves of the runs that were written.                      *)
LEMMA CrashTyped ==
  ASSUME TypeInv, NEW runs, RunsTyped(runs), Len(runs) \in 0 .. 3, CrashDuring(runs)
  PROVE  TypeInv'
<1> DEFINE all == pending \o runs
<1>1. RunsTyped(all) /\ Len(all) \in 0 .. 4
  BY StreamRuns
<1>2. /\ pending' = <<>> /\ status' = "closed" /\ mem' = Closed
      /\ crashes < usage.crashes /\ crashes' = crashes + 1 /\ ops' = ops /\ usage' = usage
  BY DEF CrashDuring
<1>3. PICK k \in 0 .. Len(all) :
        \/ disk' = ApplyAll(disk, SubSeq(all, 1, k))
        \/ k < Len(all) /\ \E t \in Torn(all[k + 1]) : disk' = Apply(ApplyAll(disk, SubSeq(all, 1, k)), t)
  BY DEF CrashDuring
<1> HIDE DEF all
<1> DEFINE s == SubSeq(all, 1, k)
           d == ApplyAll(disk, s)
<1>4. FileTyped(d)
  <2>1. RunsTyped(s) /\ Len(s) = k
    BY <1>1, FirstRunsTyped
  <2> HIDE DEF s
  <2>2. Len(s) \in 0 .. 4
    <3> DEFINE n == Len(all)
    <3>1. n \in 0 .. 4 /\ k \in 0 .. n
      BY <1>1
    <3> HIDE DEF n
    <3> QED BY <2>1, <3>1
  <2> QED BY <2>1, <2>2, AppliedTyped DEF TypeInv
<1> HIDE DEF d
<1>5. FileTyped(disk')
  <2>1. CASE disk' = d
    BY <1>4, <2>1
  <2>2. CASE k < Len(all) /\ \E t \in Torn(all[k + 1]) : disk' = Apply(d, t)
    <3>1. k + 1 \in 1 .. Len(all)
      <4> DEFINE n == Len(all)
      <4>1. n \in 0 .. 4 /\ k \in 0 .. n /\ k < n
        BY <1>1, <2>2
      <4> HIDE DEF n
      <4>2. k + 1 \in 1 .. n
        BY <4>1
      <4> QED BY <4>2 DEF n
    <3>2. RunTyped(all[k + 1])
      BY <1>1, <3>1 DEF RunsTyped
    <3>3. PICK t \in Torn(all[k + 1]) : disk' = Apply(d, t)
      BY <2>2
    <3>4. RunTyped(t)
      BY <3>2, TornTyped
    <3> QED BY <1>4, <3>3, <3>4, ApplyTyped
  <2> QED BY <1>3, <2>1, <2>2 DEF d
<1>6. crashes' \in 0 .. usage'.crashes
  <2>1. usage.crashes \in Nat /\ crashes \in 0 .. usage.crashes
    BY UsageOK DEF TypeInv
  <2> QED BY <1>2, <2>1
<1>7. Typed(mem')
  BY <1>2, ClosedTyped
<1>8. Buffered(pending')
  BY <1>2 DEF Buffered
<1>9. usage' \in Usage /\ ops' \in 0 .. usage'.ops
  BY <1>2 DEF TypeInv
<1> QED BY <1>2, <1>5, <1>6, <1>7, <1>8, <1>9 DEF TypeInv

(* A scan may be marked as changed.                                        *)
LEMMA ChangedTyped ==
  ASSUME NEW m, Typed(m), NEW w, w = [m EXCEPT !.changed = TRUE]
  PROVE  Typed(w)
<1> DEFINE a == m.files
           b == m.empties
           e == m.eoa
           g == m.changed
           yes == TRUE
<1>1. /\ m = [files |-> a, empties |-> b, eoa |-> e, changed |-> g]
      /\ a \in [DOMAIN a -> Place] /\ DOMAIN a \subseteq Name /\ IsFiniteSet(DOMAIN a)
      /\ b \in Seq(Place) /\ e \in Nat \ {0}
  BY DEF Typed
<1>2. w = [m EXCEPT !.changed = yes]
  OBVIOUS
<1>3. yes \in BOOLEAN
  OBVIOUS
<1> HIDE DEF a, b, e, g, yes
<1>4. w = [files |-> a, empties |-> b, eoa |-> e, changed |-> yes]
  BY <1>1, <1>2
<1> QED BY <1>1, <1>3, <1>4, TypedMade

(* One more operation is allowed.                                          *)
LEMMA OpsCounted ==
  ASSUME TypeInv, ops < usage.ops, ops' = ops + 1, usage' = usage, crashes' = crashes
  PROVE  usage' \in Usage /\ ops' \in 0 .. usage'.ops /\ crashes' \in 0 .. usage'.crashes
<1>1. usage \in Usage /\ usage.ops \in Nat /\ ops \in 0 .. usage.ops /\ crashes \in 0 .. usage.crashes
  <2>1. usage.ops \in 0 .. MaxOps /\ MaxOps \in Nat
    BY UsageIs DEF TypeInv
  <2>2. usage.ops \in Nat
    BY <2>1
  <2> QED BY <2>2 DEF TypeInv
<1> QED BY <1>1

(* Opening reads the table or scans.                                       *)
LEMMA OpenTyped ==
  ASSUME TypeInv, Open
  PROVE  TypeInv'
<1>1. /\ disk' = disk /\ ops' = ops /\ crashes' = crashes /\ usage' = usage
      /\ FileTyped(disk) /\ Typed(mem) /\ Buffered(pending)
  BY DEF Open, TypeInv
<1>2. CASE disk.flag = -1
  <2>1. pending' = <<FlagRun(0)>> /\ mem' = [Closed EXCEPT !.changed = TRUE] /\ status' = "open"
    BY <1>2 DEF Open
  <2>2. Buffered(pending')
    <3> DEFINE x == FlagRun(0)
               p == <<x>>
    <3>1. RunTyped(x) /\ Len(p) = 1 /\ p[1] = x
      BY DEF RunTyped
    <3> HIDE DEF x
    <3>2. Buffered(p)
      BY <3>1 DEF Buffered
    <3> QED BY <2>1, <3>2 DEF x
  <2>3. Typed(mem')
    BY <2>1, ClosedTyped
  <2> QED BY <1>1, <2>1, <2>2, <2>3 DEF TypeInv
<1>3. CASE disk.flag # -1 /\ ~Readable(disk)
  BY <1>1, <1>3 DEF Open, TypeInv
<1>4. CASE disk.flag # -1 /\ Readable(disk)
  <2>1. status' = "open" /\ pending' = pending
    BY <1>4 DEF Open
  <2>2. PICK resync \in BOOLEAN : mem' = Index(disk, resync)
    BY <1>4, UsageIs DEF Open, TypeInv
  <2>3. CASE disk.flag = 1
    <3>1. mem' = TableIndex(disk) /\ HasTable(disk)
      BY <1>4, <2>2, <2>3 DEF Index, Readable
    <3>2. Typed(mem')
      BY <1>1, <3>1, TableIndexTyped
    <3> QED BY <1>1, <2>1, <3>2 DEF TypeInv
  <2>4. CASE disk.flag # 1
    <3>1. mem' = Scanned(disk.cells, resync)
      BY <2>2, <2>4 DEF Index
    <3>2. Typed(mem')
      BY <1>1, <3>1, ScannedTyped DEF FileTyped
    <3> QED BY <1>1, <2>1, <3>2 DEF TypeInv
  <2> QED BY <2>3, <2>4
<1> QED BY <1>2, <1>3, <1>4

(* writeFile.                                                              *)
LEMMA WriteTyped ==
  ASSUME TypeInv, NEW n \in Name, NEW s \in Nat, WriteFile(n, s)
  PROVE  TypeInv'
<1> DEFINE v == ops'
           r == Replaced(n)
           p == r.runs
           w == Addition(r.m, n, v, s).m
           u == p \o Addition(r.m, n, v, s).runs
<1>1. DiskOK(Image) /\ Typed(mem)
  BY StreamTyped DEF TypeInv
<1>2. /\ RunsTyped(p) /\ Len(p) \in 0 .. 3 /\ RunsTyped(u) /\ Len(u) \in 0 .. 3 /\ Typed(w)
  BY <1>1, ReplacedRuns
<1>3. /\ \/ Emit(u) /\ mem' = w /\ status' = status
         \/ EmitAndFlush(p) /\ mem' = mem /\ status' = "aborted"
      /\ status = "open" /\ ops < usage.ops /\ ops' = ops + 1 /\ crashes' = crashes /\ usage' = usage
  BY DEF WriteFile, Called
<1> HIDE DEF p, w, u
<1>4. usage' \in Usage /\ ops' \in 0 .. usage'.ops /\ crashes' \in 0 .. usage'.crashes
  BY <1>3, OpsCounted
<1>5. CASE Emit(u) /\ mem' = w /\ status' = status
  <2>1. FileTyped(disk') /\ Buffered(pending')
    BY <1>2, <1>5, EmitTyped
  <2> QED BY <1>2, <1>3, <1>4, <1>5, <2>1 DEF TypeInv
<1>6. CASE EmitAndFlush(p) /\ mem' = mem /\ status' = "aborted"
  <2>1. FileTyped(disk') /\ Buffered(pending')
    BY <1>2, <1>6, FlushTyped
  <2> QED BY <1>1, <1>4, <1>6, <2>1 DEF TypeInv
<1> QED BY <1>3, <1>5, <1>6

(* removeFile.                                                             *)
LEMMA RemoveTyped ==
  ASSUME TypeInv, NEW n \in Name, RemoveFile(n)
  PROVE  TypeInv'
<1> DEFINE r == Removal(mem, n)
           p == r.runs
           w == r.m
<1>1. DiskOK(Image) /\ Typed(mem)
  BY StreamTyped DEF TypeInv
<1>2. /\ EmitAndFlush(p)
      /\ (mem' = w /\ status' = status) \/ (mem' = mem /\ status' = "aborted")
      /\ n \in DOMAIN mem.files
      /\ status = "open" /\ ops < usage.ops /\ ops' = ops + 1 /\ crashes' = crashes /\ usage' = usage
  BY DEF RemoveFile, Called
<1>3. RunsTyped(p) /\ Len(p) \in 0 .. 3 /\ Typed(w)
  <2>1. 0 \in Nat
    OBVIOUS
  <2> QED BY <1>1, <1>2, <2>1, ReplacedRuns
<1> HIDE DEF p, w
<1>4. usage' \in Usage /\ ops' \in 0 .. usage'.ops /\ crashes' \in 0 .. usage'.crashes
  BY <1>2, OpsCounted
<1>5. FileTyped(disk') /\ Buffered(pending')
  BY <1>2, <1>3, FlushTyped
<1> QED BY <1>1, <1>2, <1>3, <1>4, <1>5 DEF TypeInv

(* Closing writes the table that the file is then cut off behind.          *)
LEMMA CloseTyped ==
  ASSUME TypeInv, Close
  PROVE  TypeInv'
<1> DEFINE runs == Finish(mem)
<1>1. /\ EmitAndFlush(runs) /\ status' = "truncating" /\ mem' = mem
      /\ ops' = ops /\ crashes' = crashes /\ usage' = usage
  BY DEF Close
<1>2. FileTyped(Image) /\ Typed(mem) /\ DiskOK(disk) /\ RunsTyped(pending) /\ Len(pending) \in 0 .. 1
  BY StreamTyped DEF TypeInv, FileTyped
<1>3. /\ RunsTyped(runs) /\ Len(runs) \in 0 .. 2
      /\ mem.changed => Ending(mem) <= Len(ApplyAll(Image, runs).cells)
  BY <1>2, FinishTyped
<1> HIDE DEF runs
<1>4. Len(runs) \in 0 .. 3
  <2> DEFINE l == Len(runs)
  <2>1. l \in 0 .. 2
    BY <1>3
  <2> HIDE DEF l
  <2>2. l \in 0 .. 3
    BY <2>1
  <2> QED BY <2>2 DEF l
<1>5. FileTyped(disk') /\ Buffered(pending')
  BY <1>1, <1>3, <1>4, FlushTyped
<1>6. disk' = ApplyAll(Image, runs)
  <2>1. /\ IsList(pending) /\ IsList(runs)
        /\ \A i \in 1 .. Len(pending) : RunOK(pending[i])
        /\ \A i \in 1 .. Len(runs) : RunOK(runs[i])
    BY <1>2, <1>3, RunTypedOK DEF RunsTyped
  <2>2. ApplyAll(disk, pending \o runs) = ApplyAll(Image, runs)
    BY <1>2, <1>4, <2>1, Flushed
  <2> QED BY <1>1, <2>2 DEF EmitAndFlush
<1>7. mem'.changed => Ending(mem') <= Len(disk'.cells)
  BY <1>1, <1>3, <1>6
<1>8. Typed(mem')
  BY <1>1, <1>2
<1> QED BY <1>1, <1>5, <1>7, <1>8 DEF TypeInv

(* recover() scans, writes the table and cuts the file off.                *)
LEMMA RecoverTyped ==
  ASSUME TypeInv, Recover
  PROVE  TypeInv'
<1>1. PICK resync \in BOOLEAN :
        LET m == [Scanned(Image.cells, resync) EXCEPT !.changed = TRUE] IN
        /\ disk' = Truncated(ApplyAll(Image, ClearFlag(mem) \o Finish(m)), m)
        /\ mem' = m
  BY UsageIs DEF Recover, TypeInv
<1> DEFINE m == [Scanned(Image.cells, resync) EXCEPT !.changed = TRUE]
           p == ClearFlag(mem)
           q == Finish(m)
<1>2. disk' = Truncated(ApplyAll(Image, p \o q), m) /\ mem' = m
  BY <1>1
<1>3. /\ pending' = <<>> /\ status = "open" /\ status' = status
      /\ ops < usage.ops /\ ops' = ops + 1 /\ crashes' = crashes /\ usage' = usage
  BY DEF Recover, Called
<1>4. FileTyped(Image) /\ CellsOK(Image.cells)
  BY StreamTyped DEF FileTyped
<1>5. Typed(m)
  <2> DEFINE x == Scanned(Image.cells, resync)
  <2>1. Typed(x)
    BY <1>4, ScannedTyped
  <2> HIDE DEF x
  <2>2. Typed([x EXCEPT !.changed = TRUE])
    BY <2>1, ChangedTyped
  <2> QED BY <2>2 DEF x
<1> HIDE DEF m
<1>6. RunsTyped(p) /\ Len(p) \in 0 .. 1
  BY OneRunTyped
<1> HIDE DEF p
<1> DEFINE d == ApplyAll(Image, p)
<1>7. FileTyped(d)
  <2>1. Len(p) \in 0 .. 4
    BY <1>6
  <2> QED BY <1>4, <1>6, <2>1, AppliedTyped
<1> HIDE DEF d
<1>8. /\ RunsTyped(q) /\ Len(q) \in 0 .. 2
      /\ m.changed => Ending(m) <= Len(ApplyAll(d, q).cells)
  BY <1>5, <1>7, FinishTyped
<1> HIDE DEF q
<1> DEFINE e == ApplyAll(d, q)
<1>9. ApplyAll(Image, p \o q) = e
  <2>1. IsList(p) /\ IsList(q)
    BY <1>6, <1>8 DEF RunsTyped
  <2>2. Len(p) + Len(q) \in 0 .. 4
    <3> DEFINE a == Len(p)
               b == Len(q)
    <3>1. a \in 0 .. 1 /\ b \in 0 .. 2
      BY <1>6, <1>8
    <3> HIDE DEF a, b
    <3>2. a + b \in 0 .. 4
      BY <3>1
    <3> QED BY <3>2 DEF a, b
  <2> QED BY <2>1, <2>2, ApplyConcat DEF d
<1>10. FileTyped(e)
  <2>1. Len(q) \in 0 .. 4
    <3> DEFINE b == Len(q)
    <3>1. b \in 0 .. 2
      BY <1>8
    <3> HIDE DEF b
    <3>2. b \in 0 .. 4
      BY <3>1
    <3> QED BY <3>2 DEF b
  <2> QED BY <1>7, <1>8, <2>1, AppliedTyped
<1>11. m.changed => Ending(m) <= Len(e.cells)
  BY <1>8
<1> HIDE DEF e
<1>12. FileTyped(disk')
  <2>1. disk' = Truncated(e, m)
    BY <1>2, <1>9
  <2> QED BY <1>5, <1>10, <1>11, <2>1, TruncatedTyped
<1>13. usage' \in Usage /\ ops' \in 0 .. usage'.ops /\ crashes' \in 0 .. usage'.crashes
  BY <1>3, OpsCounted
<1>14. Typed(mem')
  BY <1>2, <1>5
<1>15. Buffered(pending')
  BY <1>3 DEF Buffered
<1> QED BY <1>3, <1>12, <1>13, <1>14, <1>15 DEF TypeInv

(* truncate64.                                                             *)
LEMMA TruncateTyped ==
  ASSUME TypeInv, Truncate
  PROVE  TypeInv'
<1>1. /\ disk' = Truncated(disk, mem) /\ status' = "closed" /\ mem' = Closed /\ status = "truncating"
      /\ pending' = pending /\ ops' = ops /\ crashes' = crashes /\ usage' = usage
  BY DEF Truncate
<1>2. FileTyped(disk')
  BY <1>1, TruncatedTyped DEF TypeInv
<1>3. Typed(mem')
  BY <1>1, ClosedTyped
<1> QED BY <1>1, <1>2, <1>3 DEF TypeInv

(* clear().                                                                *)
LEMMA ClearTyped ==
  ASSUME TypeInv, ClearArchive
  PROVE  TypeInv'
<1> DEFINE c == <<>>
<1>1. /\ disk' = [flag |-> 0, cells |-> c] /\ pending' = <<>> /\ mem' = [Closed EXCEPT !.changed = TRUE]
      /\ status = "open" /\ status' = status /\ ops < usage.ops /\ ops' = ops + 1 /\ crashes' = crashes /\ usage' = usage
  BY DEF ClearArchive, Called
<1>2. CellsOK(c)
  BY DEF CellsOK, IsList
<1> HIDE DEF c
<1>3. FileTyped(disk')
  BY <1>1, <1>2 DEF FileTyped, DiskOK, CellsOK
<1>4. Typed(mem')
  BY <1>1, ClosedTyped
<1>5. usage' \in Usage /\ ops' \in 0 .. usage'.ops /\ crashes' \in 0 .. usage'.crashes
  BY <1>1, OpsCounted
<1> QED BY <1>1, <1>3, <1>4, <1>5 DEF TypeInv, Buffered

(* Every crash.                                                            *)
LEMMA AnyCrashTyped ==
  ASSUME TypeInv, Crash
  PROVE  TypeInv'
<1>1. DiskOK(Image) /\ Typed(mem) /\ usage \in Usage /\ FileTyped(Image)
  BY StreamTyped DEF TypeInv
<1>2. CASE CrashIdle
  <2> DEFINE none == <<>>
  <2>1. RunsTyped(none) /\ Len(none) \in 0 .. 3 /\ CrashDuring(none)
    BY <1>2, OneRunTyped DEF CrashIdle
  <2> HIDE DEF none
  <2> QED BY <2>1, CrashTyped
<1>3. CASE CrashInFinish
  <2> DEFINE r == Run(mem.eoa, TableCells(mem))
             q == <<r>>
  <2>1. CrashDuring(q)
    BY <1>3 DEF CrashInFinish, Finish
  <2>2. RunTyped(r)
    <3>1. mem.eoa \in Nat \ {0} /\ CellsOK(TableCells(mem))
      BY <1>1, TableTyped DEF Typed
    <3> QED BY <3>1, RunIs
  <2> HIDE DEF r
  <2>3. RunsTyped(q) /\ Len(q) \in 0 .. 3
    BY <2>2, OneRunTyped
  <2> HIDE DEF q
  <2> QED BY <2>1, <2>3, CrashTyped
<1>4. CASE CrashBeforeTruncate
  <2>1. /\ status' = "closed" /\ mem' = Closed /\ crashes < usage.crashes /\ crashes' = crashes + 1
        /\ disk' = disk /\ pending' = pending /\ ops' = ops /\ usage' = usage
    BY <1>4 DEF CrashBeforeTruncate
  <2>2. crashes' \in 0 .. usage'.crashes
    <3>1. usage.crashes \in Nat /\ crashes \in 0 .. usage.crashes
      BY UsageOK DEF TypeInv
    <3> QED BY <2>1, <3>1
  <2>3. Typed(mem')
    BY <2>1, ClosedTyped
  <2> QED BY <2>1, <2>2, <2>3 DEF TypeInv
<1>5. CASE \E n \in Name : CrashInRemove(n)
  <2>1. PICK n \in Name : CrashInRemove(n)
    BY <1>5
  <2> DEFINE p == Removal(mem, n).runs
  <2>2. n \in DOMAIN mem.files /\ CrashDuring(p)
    BY <2>1 DEF CrashInRemove
  <2>3. RunsTyped(p) /\ Len(p) \in 0 .. 3
    <3>1. 0 \in Nat
      OBVIOUS
    <3> QED BY <1>1, <2>2, <3>1, ReplacedRuns
  <2> HIDE DEF p
  <2> QED BY <2>2, <2>3, CrashTyped
<1>6. CASE \E n \in Name : \E s \in usage.lengths : CrashInWrite(n, s)
  <2>1. PICK n \in Name, s \in usage.lengths : CrashInWrite(n, s)
    BY <1>6
  <2> DEFINE r == Replaced(n)
             v == ops + 1
             u == r.runs \o Addition(r.m, n, v, s).runs
  <2>2. CrashDuring(u)
    BY <2>1 DEF CrashInWrite
  <2>3. s \in Nat
    BY <1>1, UsageIs
  <2>4. RunsTyped(u) /\ Len(u) \in 0 .. 3
    BY <1>1, <2>3, ReplacedRuns
  <2> HIDE DEF u
  <2> QED BY <2>2, <2>4, CrashTyped
<1> QED BY <1>2, <1>3, <1>4, <1>5, <1>6 DEF Crash

(* TypeInv is inductive.                                                   *)
LEMMA TypeStep ==
  ASSUME TypeInv, [Next]_vars
  PROVE  TypeInv'
<1>1. CASE ReadFile
  <2> DEFINE none == <<>>
  <2>1. /\ EmitAndFlush(none) /\ status = "open"
        /\ status' = status /\ mem' = mem /\ ops' = ops /\ crashes' = crashes /\ usage' = usage
    BY <1>1 DEF ReadFile
  <2>2. RunsTyped(none) /\ Len(none) \in 0 .. 3
    BY OneRunTyped
  <2> HIDE DEF none
  <2>3. FileTyped(disk') /\ Buffered(pending')
    BY <2>1, <2>2, FlushTyped
  <2> QED BY <2>1, <2>3 DEF TypeInv
<1>2. CASE \E n \in Name : \E s \in usage.lengths : WriteFile(n, s)
  <2>1. PICK n \in Name, s \in usage.lengths : WriteFile(n, s)
    BY <1>2
  <2>2. s \in Nat
    BY UsageIs DEF TypeInv
  <2> QED BY <2>1, <2>2, WriteTyped
<1>3. CASE Finished \/ UNCHANGED vars
  <2>1. UNCHANGED vars
    BY <1>3 DEF Finished
  <2> QED BY <2>1 DEF vars, TypeInv
<1> QED BY <1>1, <1>2, <1>3, OpenTyped, ClearTyped, RecoverTyped, CloseTyped, TruncateTyped, RemoveTyped,
           AnyCrashTyped DEF Next

(* It holds always.                                                        *)
LEMMA TypeInvariance == Spec => []TypeInv
<1>1. Init => TypeInv
  <2> SUFFICES ASSUME Init PROVE TypeInv
    OBVIOUS
  <2> DEFINE c == <<>>
  <2>1. /\ disk = [flag |-> -1, cells |-> c] /\ pending = <<>> /\ status = "closed"
        /\ mem = Closed /\ usage \in Usage /\ ops = 0 /\ crashes = 0
    BY DEF Init, NoFile
  <2>2. CellsOK(c)
    BY DEF CellsOK, IsList
  <2> HIDE DEF c
  <2>3. FileTyped(disk)
    BY <2>1, <2>2 DEF FileTyped, DiskOK, CellsOK
  <2>4. Typed(mem)
    BY <2>1, ClosedTyped
  <2>5. usage.ops \in Nat /\ usage.crashes \in Nat
    <3>1. usage.ops \in 0 .. MaxOps /\ MaxOps \in Nat
      BY <2>1, UsageIs
    <3> QED BY <2>1, <3>1, UsageOK
  <2> QED BY <2>1, <2>3, <2>4, <2>5 DEF TypeInv, Buffered
<1> QED BY <1>1, TypeStep, PTL DEF Spec

(* The calls are what writeFile, removeFile, clear and recover are given.  *)
LEMMA CallStep ==
  ASSUME call \in Call, TypeInv, [Next]_vars
  PROVE  call' \in Call
<1>1. ASSUME NEW op \in {"write", "remove", "clear", "recover"}, NEW n \in Name \cup {Absent},
             NEW c \in Value \cup {Missing}, Called(op, n, c)
      PROVE  call' \in Call
  BY <1>1 DEF Called, Call
<1>2. CASE \E n \in Name : \E s \in usage.lengths : WriteFile(n, s)
  <2>1. PICK n \in Name, s \in usage.lengths : WriteFile(n, s)
    BY <1>2
  <2>2. ops < usage.ops /\ ops \in Nat /\ usage \in Usage
    <3>1. usage.ops \in 0 .. MaxOps /\ MaxOps \in Nat
      BY UsageIs DEF TypeInv
    <3>2. usage.ops \in Nat
      BY <3>1
    <3> QED BY <2>1, <3>2 DEF WriteFile, TypeInv
  <2>3. ops + 1 \in 1 .. MaxOps
    <3>1. usage.ops \in 0 .. MaxOps /\ MaxOps \in Nat
      BY <2>2, UsageIs
    <3> QED BY <2>2, <3>1
  <2>4. Stored(Payload(ops + 1, s)) \in Value
    BY <2>2, <2>3, ValueIs
  <2>5. Called("write", n, Stored(Payload(ops + 1, s)))
    BY <2>1 DEF WriteFile
  <2> DEFINE c == Stored(Payload(ops + 1, s))
  <2> HIDE DEF c
  <2>6. c \in Value /\ Called("write", n, c)
    BY <2>4, <2>5 DEF c
  <2> QED BY <1>1, <2>6
<1>3. CASE \E n \in Name : RemoveFile(n)
  BY <1>1, <1>3 DEF RemoveFile
<1>4. CASE ClearArchive
  BY <1>1, <1>4 DEF ClearArchive
<1>5. CASE Recover
  BY <1>1, <1>5 DEF Recover
<1>6. CASE Open \/ ReadFile \/ Close \/ Truncate \/ Finished \/ UNCHANGED vars
  <2>1. call' = call
    BY <1>6 DEF Open, ReadFile, Close, Truncate, Finished, vars
  <2> QED BY <2>1
<1>7. CASE Crash
  <2>1. \A runs : CrashDuring(runs) => call' = call
    BY DEF CrashDuring
  <2>2. call' = call
    BY <1>7, <2>1 DEF Crash, CrashIdle, CrashInFinish, CrashBeforeTruncate, CrashInRemove, CrashInWrite
  <2> QED BY <2>2
<1> QED BY <1>2, <1>3, <1>4, <1>5, <1>6, <1>7 DEF Next

(* They are so always.                                                     *)
LEMMA CallTyped == Spec => [](call \in Call)
<1>1. Init => call \in Call
  BY DEF Init, NoCall, Call
<1>2. call \in Call /\ TypeInv /\ [Next]_vars => (call \in Call)'
  BY CallStep
<1> QED BY <1>1, <1>2, TypeInvariance, PTL DEF Spec

(* What openArchive reads into files_, emptyFiles_ and endOfArchive_        *)
(* (readFileInfoTable and scanArchive, Core/FileArchive.cc) is an index in  *)
(* every state: names, positions behind a header, sizes; whatever part of  *)
(* its writes a process that died left in the file, with recover() and      *)
(* without, for all names, lengths, numbers of operations and of crashes.   *)
THEOREM TypeCorrect == Spec => []TypeOK
<1>1. TypeInv /\ SInv /\ call \in Call => TypeOK
  <2> SUFFICES ASSUME TypeInv, SInv, call \in Call PROVE TypeOK
    OBVIOUS
  <2>1. Len(pending) <= 1
    <3> DEFINE l == Len(pending)
    <3>1. l \in 0 .. 1
      BY StreamTyped
    <3> HIDE DEF l
    <3>2. l <= 1
      BY <3>1
    <3> QED BY <3>2 DEF l
  <2> QED BY <2>1 DEF TypeInv, SInv, TypeOK, Typed, FileTyped
<1> QED BY <1>1, TypeInvariance, Invariance, CallTyped, PTL

-----------------------------------------------------------------------------
(* The flag: the invariant.                                                *)

(* A flag that is set comes with a table, and the table has an index.      *)
TableSaved(d) == d.flag = 1 => HasTable(d) /\ Typed(TableIndex(d))

(* The invariant for the flag: while a process has the archive open, the    *)
(* flag is clear in the file from its first change on, although the buffer *)
(* may hold the latest run; and when the archive was closed, or was not    *)
(* changed, a flag that is set comes with a table.                         *)
FlagInv ==
  /\ DiskOK(disk) /\ Typed(mem)
  /\ \/ pending = <<>>
     \/ /\ status = "open" /\ mem.changed
        /\ Len(pending) = 1 /\ pending = <<pending[1]>> /\ Harmless(pending[1])
  /\ status = "open" /\ mem.changed => disk.flag # 1
  /\ status = "truncating" /\ mem.changed => Written(mem, disk.cells)
  /\ status \notin {"open", "truncating"} \/ ~mem.changed => TableSaved(disk)

(* What it says of the buffer.                                             *)
LEMMA FlagStream ==
  ASSUME FlagInv
  PROVE  /\ IsList(pending) /\ Len(pending) \in 0 .. 1 /\ \A i \in 1 .. Len(pending) : Harmless(pending[i])
         /\ (~mem.changed \/ status # "open" => pending = <<>>) /\ DiskOK(disk) /\ DiskOK(Image)
<1>1. IsList(pending) /\ Len(pending) \in 0 .. 1 /\ \A i \in 1 .. Len(pending) : Harmless(pending[i])
  <2>1. CASE pending = <<>>
    BY <2>1 DEF IsList
  <2>2. CASE Len(pending) = 1 /\ pending = <<pending[1]>> /\ Harmless(pending[1])
    <3> DEFINE x == pending[1]
    <3>1. pending = <<x>>
      BY <2>2
    <3>2. IsList(<<x>>)
      BY DEF IsList
    <3>3. IsList(pending)
      BY <3>1, <3>2
    <3> QED BY <2>2, <3>3
  <2> QED BY <2>1, <2>2 DEF FlagInv
<1>2. DiskOK(disk)
  BY DEF FlagInv
<1>3. DiskOK(Image)
  <2>1. Len(pending) \in 0 .. 4
    BY <1>1
  <2> QED BY <1>1, <1>2, <2>1, HarmlessRuns DEF Image
<1> QED BY <1>1, <1>2, <1>3 DEF FlagInv

(* What is in the buffer and what is written next, together.               *)
LEMMA FlagRuns ==
  ASSUME FlagInv, status = "open", NEW runs, Quiet(mem, runs), NEW all, all = pending \o runs
  PROVE  /\ IsList(all) /\ Len(all) \in 0 .. 4 /\ Len(all) >= Len(runs)
         /\ \A i \in 1 .. Len(all) : Harmless(all[i])
         /\ (~mem.changed => Len(all) = Len(runs) /\ (Len(all) # 0 => all[1] = FlagRun(0)))
<1> DEFINE a == Len(pending)
           b == Len(runs)
<1>1. /\ IsList(pending) /\ a \in 0 .. 1 /\ \A i \in 1 .. a : Harmless(pending[i])
      /\ (~mem.changed => a = 0)
  BY FlagStream
<1>2. /\ IsList(runs) /\ b \in 0 .. 3 /\ \A i \in 1 .. b : Harmless(runs[i])
      /\ (~mem.changed /\ b # 0 => runs[1] = FlagRun(0))
  BY DEF Quiet
<1>3. /\ IsList(all) /\ Len(all) = a + b
      /\ \A i \in 1 .. a : all[i] = pending[i]
      /\ \A i \in 1 .. b : all[a + i] = runs[i]
  BY <1>1, <1>2, ConcatCells
<1> HIDE DEF a, b
<1>4. ASSUME NEW i \in 1 .. Len(all) PROVE Harmless(all[i])
  <2>1. CASE i <= a
    BY <1>1, <1>2, <1>3, <2>1
  <2>2. CASE i > a
    <3>1. i - a \in 1 .. b /\ a + (i - a) = i
      BY <1>1, <1>2, <1>3, <2>2
    <3> QED BY <1>2, <1>3, <3>1
  <2> QED BY <1>1, <1>2, <1>3, <2>1, <2>2
<1>5. ASSUME ~mem.changed PROVE Len(all) = b /\ (Len(all) # 0 => all[1] = FlagRun(0))
  <2>1. a = 0 /\ Len(all) = b
    BY <1>1, <1>2, <1>3, <1>5
  <2>2. ASSUME b # 0 PROVE all[1] = FlagRun(0)
    <3>1. 1 \in 1 .. b /\ a + 1 = 1
      BY <1>2, <2>1, <2>2
    <3>2. all[a + 1] = runs[1]
      BY <1>3, <3>1
    <3> QED BY <1>2, <1>5, <2>2, <3>1, <3>2
  <2> QED BY <2>1, <2>2
<1>6. Len(all) \in 0 .. 4 /\ Len(all) >= b
  BY <1>1, <1>2, <1>3
<1> QED BY <1>3, <1>4, <1>5, <1>6 DEF b

(* The file after the first k of them.                                     *)
LEMMA FlagPrefix ==
  ASSUME FlagInv, status = "open", NEW runs, Quiet(mem, runs), NEW all, all = pending \o runs,
         NEW k \in 0 .. Len(all), NEW d, d = ApplyAll(disk, SubSeq(all, 1, k))
  PROVE  /\ DiskOK(d) /\ (mem.changed \/ k # 0 => d.flag # 1) /\ (k = 0 => d = disk)
         /\ (disk.flag # -1 => d.flag # -1)
<1>1. /\ IsList(all) /\ Len(all) \in 0 .. 4 /\ \A i \in 1 .. Len(all) : Harmless(all[i])
      /\ (~mem.changed /\ Len(all) # 0 => all[1] = FlagRun(0))
  BY FlagRuns
<1>2. DiskOK(disk) /\ (mem.changed => disk.flag # 1)
  BY DEF FlagInv
<1> DEFINE s == SubSeq(all, 1, k)
<1>3. IsList(s) /\ Len(s) = k /\ \A i \in 1 .. k : s[i] = all[i]
  BY <1>1, FirstCells
<1>4. d = ApplyAll(disk, s)
  OBVIOUS
<1> HIDE DEF s
<1>5. k \in 0 .. 4 /\ \A i \in 1 .. k : i \in 1 .. Len(all)
  <2> DEFINE n == Len(all)
  <2>1. n \in 0 .. 4 /\ k \in 0 .. n
    BY <1>1
  <2> HIDE DEF n
  <2>2. k \in 0 .. 4 /\ \A i \in 1 .. k : i \in 1 .. n
    BY <2>1
  <2> QED BY <2>2 DEF n
<1>6. Len(s) \in 0 .. 4 /\ \A i \in 1 .. Len(s) : Harmless(s[i])
  BY <1>1, <1>3, <1>5
<1>7. /\ DiskOK(d) /\ (disk.flag # 1 => d.flag # 1) /\ (disk.flag # -1 => d.flag # -1)
      /\ (Len(s) # 0 /\ s[1] = FlagRun(0) => d.flag # 1)
  BY <1>2, <1>4, <1>6, HarmlessRuns
<1>8. CASE k = 0
  <2>1. s = <<>>
    BY <1>3, <1>8 DEF IsList
  <2>2. d = disk
    BY <1>4, <2>1, ApplyNone
  <2> QED BY <1>2, <1>7, <1>8, <2>2
<1>9. CASE k # 0
  <2>1. 1 \in 1 .. k /\ s[1] = all[1] /\ Len(all) # 0
    BY <1>1, <1>3, <1>5, <1>9
  <2> QED BY <1>1, <1>2, <1>3, <1>7, <1>9, <2>1
<1> QED BY <1>8, <1>9

(* What a run leaves that was torn.                                        *)
LEMMA TornHarmless ==
  ASSUME NEW r, Harmless(r), NEW t \in Torn(r)
  PROVE  Harmless(t) /\ r # FlagRun(0)
<1>1. HasPayload(r)
  BY DEF Torn
<1>2. "cells" \in DOMAIN r
  BY <1>1 DEF HasPayload
<1>3. r # FlagRun(0) /\ r = Run(r.at, r.cells) /\ r.at \in Nat \ {0} /\ IsList(r.cells)
  <2>1. \A f : "cells" \notin DOMAIN FlagRun(f)
    BY DEF FlagRun
  <2> QED BY <1>2, <2>1 DEF Harmless, RunOK
<1>4. PICK j \in 1 .. Len(r.cells) : t = [r EXCEPT !.cells = SubSeq(@, 1, j)]
  BY <1>1 DEF Torn
<1> DEFINE c == SubSeq(r.cells, 1, j)
<1>5. IsList(c)
  <2>1. j \in 0 .. Len(r.cells)
    OBVIOUS
  <2> QED BY <1>3, <2>1, FirstCells
<1>6. t = Run(r.at, c)
  BY <1>3, <1>4 DEF Run
<1> HIDE DEF c
<1>7. Harmless(Run(r.at, c))
  BY <1>3, <1>5, HarmlessKinds
<1> QED BY <1>3, <1>6, <1>7

(* A crash while quiet runs are written leaves the flag clear, or the file *)
(* as it was; the header that is there stays there.                        *)
LEMMA FlagCrash ==
  ASSUME FlagInv, NEW runs, Quiet(mem, runs), CrashDuring(runs)
  PROVE  FlagInv' /\ (disk' = disk \/ disk'.flag # 1) /\ (disk.flag # -1 => disk'.flag # -1)
<1> DEFINE all == pending \o runs
<1>1. status = "open" /\ pending' = <<>> /\ status' = "closed" /\ mem' = Closed
  BY DEF CrashDuring
<1>2. PICK k \in 0 .. Len(all) :
        \/ disk' = ApplyAll(disk, SubSeq(all, 1, k))
        \/ k < Len(all) /\ \E t \in Torn(all[k + 1]) : disk' = Apply(ApplyAll(disk, SubSeq(all, 1, k)), t)
  BY DEF CrashDuring
<1>3. /\ Len(all) \in 0 .. 4 /\ \A i \in 1 .. Len(all) : Harmless(all[i])
      /\ (~mem.changed /\ Len(all) # 0 => all[1] = FlagRun(0))
  BY <1>1, FlagRuns
<1> DEFINE d == ApplyAll(disk, SubSeq(all, 1, k))
<1>4. /\ DiskOK(d) /\ (mem.changed \/ k # 0 => d.flag # 1) /\ (k = 0 => d = disk)
      /\ (disk.flag # -1 => d.flag # -1)
  <2>1. all = pending \o runs /\ k \in 0 .. Len(all)
    OBVIOUS
  <2> HIDE DEF all
  <2>2. d = ApplyAll(disk, SubSeq(all, 1, k))
    OBVIOUS
  <2> HIDE DEF d
  <2> QED BY <1>1, <2>1, <2>2, FlagPrefix
<1>5. ~mem.changed => TableSaved(disk)
  BY DEF FlagInv
<1>6. /\ DiskOK(disk') /\ TableSaved(disk')
      /\ (disk' = disk \/ disk'.flag # 1) /\ (disk.flag # -1 => disk'.flag # -1)
  <2>1. CASE disk' = d
    <3> HIDE DEF d, all
    <3> QED BY <1>4, <1>5, <2>1 DEF TableSaved
  <2>2. CASE k < Len(all) /\ \E t \in Torn(all[k + 1]) : disk' = Apply(d, t)
    <3>1. PICK t \in Torn(all[k + 1]) : disk' = Apply(d, t)
      BY <2>2
    <3>2. k + 1 \in 1 .. Len(all) /\ Len(all) # 0
      BY <1>3, <2>2
    <3>3. Harmless(all[k + 1])
      BY <1>3, <3>2
    <3> HIDE DEF d, all
    <3>4. Harmless(t) /\ all[k + 1] # FlagRun(0)
      BY <3>3, TornHarmless
    <3>5. DiskOK(disk') /\ (d.flag # 1 => disk'.flag # 1) /\ (d.flag # -1 => disk'.flag # -1)
      BY <1>4, <3>1, <3>4, HarmlessRun
    <3>6. mem.changed \/ k # 0
      <4>1. k = 0 => k + 1 = 1
        OBVIOUS
      <4> QED BY <1>3, <3>2, <3>4, <4>1
    <3> QED BY <1>4, <3>5, <3>6 DEF TableSaved
  <2> HIDE DEF d, all
  <2>3. \/ disk' = d
        \/ k < Len(all) /\ \E t \in Torn(all[k + 1]) : disk' = Apply(d, t)
    BY <1>2 DEF d, all
  <2> QED BY <2>1, <2>2, <2>3
<1>7. Typed(mem')
  BY <1>1, ClosedTyped
<1> QED BY <1>1, <1>6, <1>7 DEF FlagInv

(* The steps of a process keep it.                                         *)
LEMMA FlagOpen ==
  ASSUME FlagInv, TypeInv, Open
  PROVE  FlagInv'
<1>1. /\ status = "closed" /\ disk' = disk /\ pending = <<>> /\ DiskOK(disk)
      /\ TableSaved(disk)
  BY DEF Open, FlagInv
<1>2. CASE disk.flag = -1
  <2>1. /\ pending' = <<FlagRun(0)>> /\ mem' = [Closed EXCEPT !.changed = TRUE] /\ status' = "open"
    BY <1>2 DEF Open
  <2>2. mem'.changed
    BY <2>1 DEF Closed
  <2>3. Len(pending') = 1 /\ pending'[1] = FlagRun(0) /\ pending' = <<pending'[1]>>
    BY <2>1
  <2>4. Harmless(pending'[1])
    BY <2>3, HarmlessKinds
  <2>5. Typed(mem')
    BY <2>1, ClosedTyped
  <2> QED BY <1>1, <1>2, <2>1, <2>2, <2>3, <2>4, <2>5 DEF FlagInv
<1>3. CASE disk.flag # -1
  <2>1. Readable(disk)
    BY <1>1 DEF Readable, TableSaved
  <2>2. status' = "open" /\ pending' = <<>>
    BY <1>1, <1>3, <2>1 DEF Open
  <2>3. PICK resync \in BOOLEAN : mem' = Index(disk, resync)
    BY <1>1, <1>3, <2>1, UsageIs, SMTT(30) DEF Open, TypeInv
  <2>4. disk.flag = 1 => ~mem'.changed
    BY <2>3 DEF Index, TableIndex
  <2>5. Typed(mem')
    <3>1. CASE disk.flag = 1
      BY <1>1, <2>3, <3>1 DEF Index, TableSaved
    <3>2. CASE disk.flag # 1
      BY <2>3, <3>2, ScannedTyped DEF Index, TypeInv, FileTyped
    <3> QED BY <3>1, <3>2
  <2>6. disk.flag = 1 => TableSaved(disk') /\ ~mem'.changed
    BY <1>1, <2>4
  <2>7. disk.flag # 1 => TableSaved(disk')
    BY <1>1 DEF TableSaved
  <2> QED BY <1>1, <2>2, <2>5, <2>6, <2>7 DEF FlagInv
<1> QED BY <1>2, <1>3

(* What is written and flushed.                                            *)
LEMMA FlagFlushed ==
  ASSUME FlagInv, status = "open", NEW runs, Quiet(mem, runs), EmitAndFlush(runs)
  PROVE  /\ DiskOK(disk') /\ pending' = <<>> /\ (mem.changed \/ Len(runs) # 0 => disk'.flag # 1)
         /\ (~mem.changed /\ Len(runs) = 0 => disk' = disk)
<1> DEFINE all == pending \o runs
<1>1. /\ IsList(all) /\ Len(all) \in 0 .. 4 /\ Len(all) >= Len(runs)
      /\ (~mem.changed => Len(all) = Len(runs))
  BY FlagRuns
<1>2. all = pending \o runs /\ disk' = ApplyAll(disk, all) /\ pending' = <<>>
  BY DEF EmitAndFlush
<1> HIDE DEF all
<1> DEFINE n == Len(all)
           s == SubSeq(all, 1, n)
<1>3. n \in 0 .. 4 /\ n \in 0 .. Len(all)
  BY <1>1
<1>4. s = all
  <2>1. IsList(s) /\ Len(s) = n /\ \A i \in 1 .. n : s[i] = all[i]
    BY <1>1, <1>3, FirstCells
  <2> HIDE DEF s
  <2> QED BY <1>1, <2>1 DEF IsList
<1>5. disk' = ApplyAll(disk, SubSeq(all, 1, n))
  BY <1>2, <1>4
<1> HIDE DEF n, s
<1>6. DiskOK(disk') /\ (mem.changed \/ n # 0 => disk'.flag # 1) /\ (n = 0 => disk' = disk)
  BY <1>2, <1>3, <1>5, FlagPrefix
<1>7. (Len(runs) # 0 => n # 0) /\ (~mem.changed /\ Len(runs) = 0 => n = 0)
  <2>1. Len(runs) \in 0 .. 3
    BY DEF Quiet
  <2> QED BY <1>1, <2>1 DEF n
<1> QED BY <1>2, <1>6, <1>7

(* What is written and stays in the buffer in part.                        *)
LEMMA FlagEmitted ==
  ASSUME FlagInv, status = "open", NEW runs, Quiet(mem, runs), Len(runs) # 0,
         ~mem.changed => Len(runs) \in 2 .. 3, Emit(runs)
  PROVE  /\ DiskOK(disk') /\ disk'.flag # 1
         /\ Len(pending') = 1 /\ pending' = <<pending'[1]>> /\ Harmless(pending'[1])
<1> DEFINE all == pending \o runs
<1>1. /\ IsList(all) /\ Len(all) \in 0 .. 4 /\ Len(all) >= Len(runs)
      /\ \A i \in 1 .. Len(all) : Harmless(all[i])
      /\ (~mem.changed => Len(all) = Len(runs))
  BY FlagRuns
<1>r. Len(runs) \in 0 .. 3
  BY DEF Quiet
<1>2. /\ all = pending \o runs
      /\ disk' = ApplyAll(disk, IF all = <<>> THEN all ELSE Front(all))
      /\ pending' = IF all = <<>> THEN all ELSE <<Last(all)>>
  BY DEF Emit
<1> HIDE DEF all
<1> DEFINE n == Len(all)
<1>3. n \in 1 .. 4 /\ (~mem.changed => n \in 2 .. 3)
  <2> DEFINE b == Len(runs)
  <2>1. n \in 0 .. 4 /\ b \in 0 .. 3 /\ b # 0 /\ n >= b /\ (~mem.changed => b \in 2 .. 3 /\ n = b)
    BY <1>1, <1>r
  <2> HIDE DEF n, b
  <2> QED BY <2>1
<1>4. all # <<>>
  <2>1. Len(all) # 0
    BY <1>3
  <2>2. Len(<<>>) = 0
    OBVIOUS
  <2> QED BY <2>1, <2>2
<1>5. disk' = ApplyAll(disk, SubSeq(all, 1, n - 1)) /\ pending' = <<all[n]>>
  BY <1>2, <1>4 DEF Front, Last
<1>6. n - 1 \in 0 .. Len(all) /\ n \in 1 .. Len(all)
  <2> HIDE DEF n
  <2>1. n - 1 \in 0 .. n /\ n \in 1 .. n
    BY <1>3
  <2> QED BY <2>1 DEF n
<1>7. DiskOK(disk') /\ (mem.changed \/ n - 1 # 0 => disk'.flag # 1)
  <2> DEFINE k == n - 1
  <2>1. k \in 0 .. Len(all) /\ disk' = ApplyAll(disk, SubSeq(all, 1, k))
    BY <1>5, <1>6
  <2> HIDE DEF k
  <2>2. DiskOK(disk') /\ (mem.changed \/ k # 0 => disk'.flag # 1)
    BY <1>2, <2>1, FlagPrefix
  <2> QED BY <2>2 DEF k
<1>8. Harmless(all[n])
  BY <1>1, <1>6
<1> HIDE DEF n
<1>9. disk'.flag # 1
  <2>1. ~mem.changed => n - 1 # 0
    BY <1>3
  <2> QED BY <1>7, <2>1
<1>10. Len(pending') = 1 /\ pending'[1] = all[n] /\ pending' = <<pending'[1]>>
  <2> DEFINE x == all[n]
  <2>1. pending' = <<x>>
    BY <1>5
  <2> HIDE DEF x
  <2>2. Len(pending') = 1 /\ pending'[1] = x /\ pending' = <<pending'[1]>>
    BY <2>1
  <2> QED BY <2>2 DEF x
<1> QED BY <1>7, <1>8, <1>9, <1>10

(* writeFile.                                                              *)
LEMMA FlagWrite ==
  ASSUME FlagInv, NEW n \in Name, NEW s \in Nat, WriteFile(n, s)
  PROVE  FlagInv'
<1> DEFINE v == ops'
           r == Replaced(n)
           a == Addition(r.m, n, v, s)
           runs == r.runs \o a.runs
<1>1. status = "open" /\ DiskOK(Image)
  BY FlagStream DEF WriteFile
<1>2. /\ Quiet(mem, r.runs) /\ Quiet(mem, runs)
      /\ Len(runs) # 0 /\ (~mem.changed => Len(runs) \in 2 .. 3)
      /\ a.m.changed
  <2>1. Typed(mem)
    BY DEF FlagInv
  <2> QED BY <1>1, <2>1, WriteQuiet
<1>3. IF r.verified
      THEN Emit(runs) /\ mem' = a.m /\ UNCHANGED status
      ELSE EmitAndFlush(r.runs) /\ status' = "aborted" /\ UNCHANGED mem
  BY DEF WriteFile
<1>t. Typed(a.m)
  <2> DEFINE w == r.m
  <2>1. Typed(w)
    BY <1>1, ReplacedTyped DEF FlagInv
  <2> HIDE DEF w
  <2>2. Typed(Addition(w, n, v, s).m)
    BY <2>1, AdditionTyped
  <2> QED BY <2>2 DEF w
<1> DEFINE p == r.runs
           w == a.m
<1>4. CASE r.verified
  <2>1. Emit(runs) /\ mem' = w /\ status' = "open" /\ w.changed /\ Typed(w)
    BY <1>1, <1>2, <1>3, <1>4, <1>t
  <2> HIDE DEF runs, w
  <2>2. /\ DiskOK(disk') /\ disk'.flag # 1
        /\ Len(pending') = 1 /\ pending' = <<pending'[1]>> /\ Harmless(pending'[1])
    BY <1>1, <1>2, <2>1, FlagEmitted
  <2> QED BY <2>1, <2>2 DEF FlagInv
<1>5. CASE ~r.verified
  <2>1. EmitAndFlush(p) /\ mem' = mem /\ status' = "aborted" /\ Quiet(mem, p)
    BY <1>2, <1>3, <1>5
  <2> HIDE DEF p, runs, w, r, a
  <2>2. /\ DiskOK(disk') /\ pending' = <<>> /\ (mem.changed \/ Len(p) # 0 => disk'.flag # 1)
        /\ (~mem.changed /\ Len(p) = 0 => disk' = disk)
    BY <1>1, <2>1, FlagFlushed
  <2>3. ~mem.changed => TableSaved(disk)
    BY DEF FlagInv
  <2>4. TableSaved(disk')
    BY <2>2, <2>3 DEF TableSaved
  <2> QED BY <2>1, <2>2, <2>4 DEF FlagInv
<1> QED BY <1>4, <1>5

(* removeFile.                                                             *)
LEMMA FlagRemove ==
  ASSUME FlagInv, NEW n, RemoveFile(n)
  PROVE  FlagInv'
<1> DEFINE r == Removal(mem, n)
           p == r.runs
           w == r.m
<1>1. status = "open" /\ DiskOK(Image) /\ n \in DOMAIN mem.files
  BY FlagStream DEF RemoveFile
<1>2. /\ Quiet(mem, p) /\ (Len(p) # 0 => w.changed) /\ (Len(p) = 0 /\ ~mem.changed => w = mem)
      /\ (mem.changed => w.changed)
  <2>1. Typed(mem)
    BY DEF FlagInv
  <2> QED BY <1>1, <2>1, RemovalQuiet
<1>t. Typed(w) /\ Typed(mem)
  BY <1>1, ReplacedTyped DEF FlagInv
<1>3. /\ EmitAndFlush(p)
      /\ (mem' = w /\ status' = "open") \/ (mem' = mem /\ status' = "aborted")
  BY <1>1 DEF RemoveFile
<1> HIDE DEF r, p, w
<1>4. /\ DiskOK(disk') /\ pending' = <<>> /\ (mem.changed \/ Len(p) # 0 => disk'.flag # 1)
      /\ (~mem.changed /\ Len(p) = 0 => disk' = disk)
  BY <1>1, <1>2, <1>3, FlagFlushed
<1>5. ~mem.changed => TableSaved(disk)
  BY DEF FlagInv
<1>6. TableSaved(disk')
  BY <1>4, <1>5 DEF TableSaved
<1>7. CASE mem' = w /\ status' = "open"
  <2>1. w.changed => disk'.flag # 1
    BY <1>2, <1>4
  <2> QED BY <1>4, <1>6, <1>7, <1>t, <2>1 DEF FlagInv
<1>8. CASE mem' = mem /\ status' = "aborted"
  BY <1>4, <1>6, <1>8, <1>t DEF FlagInv
<1> QED BY <1>3, <1>7, <1>8

(* Closing writes the table, before it sets the flag.                      *)
LEMMA FlagClose ==
  ASSUME FlagInv, Close
  PROVE  FlagInv'
<1> DEFINE runs == Finish(mem)
<1>1. status = "open" /\ EmitAndFlush(runs) /\ status' = "truncating" /\ mem' = mem
  BY DEF Close
<1>2. CASE mem.changed
  <2> DEFINE T == TableCells(mem)
             e == mem.eoa
             r == Run(e, T)
             f == FlagRun(1)
             one == <<r>>
             two == <<r, f>>
             c == Image.cells
             o == Overwritten(c, e, T)
  <2>1. runs = two
    BY <1>2 DEF Finish
  <2>2. MemOK(mem) /\ e \in Nat \ {0}
    BY TypedIs DEF MemOK, FlagInv
  <2>3. IsList(T)
    BY <2>2, TableLayout DEF Layout
  <2>4. DiskOK(Image) /\ DiskOK(disk)
    BY FlagStream
  <2>5. /\ IsList(o) /\ Len(o) >= e + Len(T) - 1
        /\ \A i \in 1 .. Len(T) : o[e + i - 1] = T[i]
    <3>1. IsList(c)
      BY <2>4 DEF DiskOK
    <3>2. o = Overwritten(c, e, T)
      OBVIOUS
    <3> HIDE DEF T, e, c, o
    <3> QED BY <2>2, <2>3, <3>1, <3>2, OverwrittenCells
  <2>6. Written(mem, o)
    BY <2>5 DEF Written
  <2> HIDE DEF T, e
  <2>7. RunOK(r)
    BY <2>2, <2>3, CellRun
  <2>8. RunOK(f)
    BY DEF RunOK, FlagRun
  <2>9. /\ Len(one) = 1 /\ one[1] = r /\ Len(two) = 2 /\ two[1] = r /\ two[2] = f
    OBVIOUS
  <2>10. IsList(two)
    BY DEF IsList
  <2>11. ApplyAll(Image, one) = [flag |-> Image.flag, cells |-> o]
    <3>1. ApplyAll(Image, one) = Apply(Image, r)
      BY ApplyOne
    <3> QED BY <2>4, <3>1, ApplyIs
  <2> HIDE DEF one, two, r, o
  <2>12. ApplyAll(Image, two) = Apply(ApplyAll(Image, one), f)
    <3>1. Len(one) \in 0 .. 3 /\ Len(two) = Len(one) + 1 /\ \A i \in 1 .. Len(one) : two[i] = one[i]
      BY <2>9
    <3>2. ApplyAll(Image, two) = Apply(ApplyAll(Image, one), two[Len(two)])
      BY <3>1, ApplyLast
    <3> QED BY <2>9, <3>2
  <2>13. ApplyAll(Image, two) = [flag |-> 1, cells |-> o]
    <3> DEFINE d == ApplyAll(Image, one)
    <3>1. d.cells = o /\ DiskOK(d)
      BY <2>5, <2>11 DEF DiskOK
    <3> HIDE DEF d
    <3>2. Apply(d, f) = [flag |-> 1, cells |-> d.cells]
      BY <3>1, ApplyIs
    <3> QED BY <2>12, <3>1, <3>2 DEF d
  <2> HIDE DEF f, runs
  <2>14. \A i \in 1 .. Len(two) : RunOK(two[i])
    BY <2>7, <2>8, <2>9
  <2>15. disk' = ApplyAll(disk, pending \o two) /\ pending' = <<>>
    BY <1>1, <2>1 DEF EmitAndFlush
  <2>16. ApplyAll(disk, pending \o two) = ApplyAll(Image, two)
    <3>1. /\ IsList(pending) /\ Len(pending) \in 0 .. 1 /\ \A i \in 1 .. Len(pending) : RunOK(pending[i])
      BY FlagStream DEF Harmless
    <3>2. Len(two) \in 0 .. 3
      BY <2>9
    <3> QED BY <2>4, <2>10, <2>14, <3>1, <3>2, Flushed
  <2>17. disk' = [flag |-> 1, cells |-> o] /\ DiskOK(disk')
    BY <2>5, <2>13, <2>15, <2>16 DEF DiskOK
  <2>18. Written(mem', disk'.cells)
    BY <1>1, <2>6, <2>17
  <2> QED BY <1>1, <1>2, <2>15, <2>17, <2>18 DEF FlagInv
<1>3. CASE ~mem.changed
  <2> DEFINE none == <<>>
  <2>1. runs = none
    BY <1>3 DEF Finish
  <2>2. Quiet(mem, none) /\ Len(none) = 0
    BY QuietClear
  <2> HIDE DEF none, runs
  <2>3. EmitAndFlush(none)
    BY <1>1, <2>1
  <2>4. DiskOK(disk') /\ pending' = <<>> /\ disk' = disk
    BY <1>1, <1>3, <2>2, <2>3, FlagFlushed
  <2>5. TableSaved(disk)
    BY <1>3 DEF FlagInv
  <2> QED BY <1>1, <1>3, <2>4, <2>5 DEF FlagInv
<1> QED BY <1>2, <1>3

(* Cutting the file off behind the table leaves a table at its end.        *)
LEMMA FlagTruncate ==
  ASSUME FlagInv, Truncate
  PROVE  FlagInv'
<1>1. /\ status = "truncating" /\ pending = <<>> /\ DiskOK(disk) /\ disk' = Truncated(disk, mem)
      /\ status' = "closed" /\ mem' = Closed /\ pending' = <<>>
  BY DEF Truncate, FlagInv
<1>t. Typed(mem') /\ Typed(mem)
  BY <1>1, ClosedTyped DEF FlagInv
<1>2. CASE mem.changed
  <2> DEFINE c == disk.cells
             T == TableCells(mem)
             e == mem.eoa
             k == e + Len(T) - 1
             o == SubSeq(c, 1, k)
  <2>1. Written(mem, c) /\ IsList(c) /\ MemOK(mem) /\ e \in Nat \ {0}
    BY <1>1, <1>2, TypedIs DEF FlagInv, DiskOK, MemOK
  <2>2. disk' = [flag |-> disk.flag, cells |-> o]
    BY <1>1, <1>2 DEF Truncated, DiskOK
  <2>3. Len(c) >= k /\ \A i \in 1 .. Len(T) : c[e + i - 1] = T[i]
    BY <2>1 DEF Written
  <2>4. Len(T) \in Nat \ {0}
    <3> DEFINE f == Len(SetToSeq(DOMAIN mem.files))
               q == Len(mem.empties)
               l == Len(T)
    <3>1. f \in Nat /\ q \in Nat
      BY <2>1, SetToSeqEnumerates DEF MemOK
    <3>2. l = f + q + 3
      BY <2>1, TableLayout DEF Layout
    <3> HIDE DEF f, q, l
    <3>3. l \in Nat \ {0}
      BY <3>1, <3>2
    <3> QED BY <3>3 DEF l
  <2>5. k \in 0 .. Len(c) /\ k \in Nat
    <3> DEFINE l == Len(T)
               n == Len(c)
    <3>1. l \in Nat \ {0} /\ n \in Nat /\ n >= k /\ e \in Nat \ {0} /\ k = e + l - 1
      BY <2>1, <2>3, <2>4 DEF IsList
    <3> HIDE DEF l, n, e, k
    <3>2. k \in 0 .. n /\ k \in Nat
      BY <3>1
    <3> QED BY <3>2 DEF n
  <2>k. k = e + Len(T) - 1
    OBVIOUS
  <2> HIDE DEF k
  <2>6. IsList(o) /\ Len(o) = k /\ \A i \in 1 .. k : o[i] = c[i]
    BY <2>1, <2>5, FirstCells
  <2> HIDE DEF c, T, o, e
  <2>7. ASSUME NEW i \in 1 .. Len(T) PROVE o[e + i - 1] = T[i]
    <3> DEFINE l == Len(T)
               j == e + i - 1
    <3>1. l \in Nat /\ i \in 1 .. l /\ e \in Nat \ {0} /\ k = e + l - 1
      BY <2>1, <2>4, <2>k
    <3> HIDE DEF l
    <3>2. j \in 1 .. k
      BY <3>1
    <3>3. c[j] = T[i]
      BY <2>3
    <3> HIDE DEF j
    <3>4. o[j] = T[i]
      BY <2>6, <3>2, <3>3
    <3> QED BY <3>4 DEF j
  <2>8. Len(o) >= k
    BY <2>5, <2>6
  <2>9. Written(mem, o)
    BY <2>7, <2>8, <2>k DEF Written, T, e
  <2>10. HasTable(disk') /\ TableIndex(disk') = [mem EXCEPT !.changed = FALSE]
    <3> DEFINE d == disk'
    <3>1. MemOK(mem) /\ Written(mem, d.cells) /\ Len(d.cells) = mem.eoa + Len(TableCells(mem)) - 1
      BY <2>1, <2>2, <2>6, <2>9, <2>k DEF T, e
    <3> HIDE DEF d
    <3>2. HasTable(d) /\ TableIndex(d) = [mem EXCEPT !.changed = FALSE]
      BY <3>1, TableBack
    <3> QED BY <3>2 DEF d
  <2>11. DiskOK(disk')
    BY <2>2, <2>6 DEF DiskOK
  <2>12. Typed(TableIndex(disk'))
    BY <1>t, <2>10, UnflaggedTyped
  <2>13. TableSaved(disk')
    BY <2>10, <2>12 DEF TableSaved
  <2> QED BY <1>1, <1>t, <2>11, <2>13 DEF FlagInv
<1>3. CASE ~mem.changed
  <2>1. disk' = disk
    BY <1>1, <1>3 DEF Truncated
  <2>2. TableSaved(disk)
    BY <1>3 DEF FlagInv
  <2> QED BY <1>1, <1>t, <2>1, <2>2 DEF FlagInv
<1> QED BY <1>2, <1>3

(* Only recover() and a death in front of truncate64 break it.             *)
FlagKept == usage \in Usage /\ (~recovered /\ ~usage.tailCrash => FlagInv)

(* Every step keeps it.                                                    *)
LEMMA FlagStep ==
  ASSUME FlagInv, TypeInv, usage \in Usage, ~Recover, ~CrashBeforeTruncate, Next \/ UNCHANGED vars
  PROVE  FlagInv'
<1>1. Typed(mem) /\ usage \in Usage
  BY DEF FlagInv
<1>2. \A s \in usage.lengths : s \in Nat
  BY <1>1, UsageIs
<1>3. DiskOK(Image)
  BY FlagStream
<1>4. CASE Open
  BY <1>4, FlagOpen
<1>5. CASE ReadFile
  <2> DEFINE none == <<>>
  <2>1. status = "open" /\ EmitAndFlush(none) /\ pending # <<>> /\ mem' = mem /\ status' = status
    BY <1>5 DEF ReadFile
  <2>2. Quiet(mem, none)
    BY QuietClear
  <2>3. mem.changed
    BY <2>1, FlagStream
  <2> HIDE DEF none
  <2>4. DiskOK(disk') /\ pending' = <<>> /\ disk'.flag # 1
    BY <2>1, <2>2, <2>3, FlagFlushed
  <2> QED BY <2>1, <2>3, <2>4 DEF FlagInv
<1>6. CASE ClearArchive
  <2> DEFINE c == <<>>
  <2>1. /\ disk' = [flag |-> 0, cells |-> c] /\ pending' = <<>> /\ status' = status /\ status = "open"
        /\ mem' = [Closed EXCEPT !.changed = TRUE]
    BY <1>6 DEF ClearArchive
  <2>2. IsList(c)
    BY DEF IsList
  <2> HIDE DEF c
  <2>3. DiskOK(disk') /\ disk'.flag # 1
    BY <2>1, <2>2 DEF DiskOK
  <2>4. mem'.changed
    BY <2>1 DEF Closed
  <2>5. Typed(mem')
    BY <2>1, ClosedTyped
  <2> QED BY <2>1, <2>3, <2>4, <2>5 DEF FlagInv
<1>7. CASE Recover
  BY <1>7
<1>8. CASE Close
  BY <1>1, <1>8, FlagClose
<1>9. CASE Truncate
  BY <1>1, <1>9, FlagTruncate
<1>10. CASE \E n \in Name : RemoveFile(n)
  BY <1>1, <1>10, FlagRemove
<1>11. CASE \E n \in Name : \E s \in usage.lengths : WriteFile(n, s)
  BY <1>1, <1>2, <1>11, FlagWrite
<1>12. CASE Crash
  <2>1. CASE CrashIdle
    <3>1. Quiet(mem, <<>>) /\ CrashDuring(<<>>)
      BY <2>1, QuietClear DEF CrashIdle
    <3> QED BY <3>1, FlagCrash
  <2>2. CASE CrashInFinish
    <3> DEFINE r == Run(mem.eoa, TableCells(mem))
               q == <<r>>
    <3>1. mem.changed /\ CrashDuring(q)
      BY <2>2 DEF CrashInFinish, Finish
    <3>2. MemOK(mem) /\ mem.eoa \in Nat \ {0}
      BY <1>1, TypedIs DEF MemOK
    <3>3. IsList(TableCells(mem))
      BY <3>2, TableLayout DEF Layout
    <3>4. Harmless(r)
      BY <3>2, <3>3, HarmlessKinds
    <3>5. IsList(q) /\ Len(q) = 1 /\ q[1] = r
      BY <3>2, <3>3, CellRun
    <3> HIDE DEF q, r
    <3>6. Quiet(mem, q)
      BY <3>1, <3>4, <3>5 DEF Quiet
    <3> QED BY <3>1, <3>6, FlagCrash
  <2>3. CASE CrashBeforeTruncate
    BY <2>3 DEF CrashBeforeTruncate
  <2>4. CASE \E n \in Name : CrashInRemove(n)
    <3>1. PICK n \in Name : CrashInRemove(n)
      BY <2>4
    <3> DEFINE q == Removal(mem, n).runs
    <3>2. n \in DOMAIN mem.files /\ CrashDuring(q)
      BY <3>1 DEF CrashInRemove
    <3>3. Quiet(mem, q)
      BY <1>1, <1>3, <3>2, RemovalQuiet
    <3> HIDE DEF q
    <3> QED BY <3>2, <3>3, FlagCrash
  <2>5. CASE \E n \in Name : \E s \in usage.lengths : CrashInWrite(n, s)
    <3>1. PICK n \in Name, s \in usage.lengths : CrashInWrite(n, s)
      BY <2>5
    <3> DEFINE r == Replaced(n)
               v == ops + 1
               q == r.runs \o Addition(r.m, n, v, s).runs
    <3>2. CrashDuring(q)
      BY <3>1 DEF CrashInWrite
    <3>3. Quiet(mem, q)
      BY <1>1, <1>2, <1>3, WriteQuiet
    <3> HIDE DEF q
    <3> QED BY <3>2, <3>3, FlagCrash
  <2> QED BY <1>12, <2>1, <2>2, <2>3, <2>4, <2>5 DEF Crash
<1>13. CASE Finished \/ UNCHANGED vars
  <2>1. disk' = disk /\ pending' = pending /\ status' = status /\ mem' = mem
    BY <1>13 DEF Finished, vars
  <2> QED BY <2>1 DEF FlagInv
<1> QED BY <1>4, <1>5, <1>6, <1>7, <1>8, <1>9, <1>10, <1>11, <1>12, <1>13 DEF Next

(* "flag: = 0 file info table does not exist, != 0 file info table does    *)
(* exist" (Core/FileArchive.cc:30): wherever the process dies and whatever  *)
(* part of its writes reaches the file, a flag that is set comes with a    *)
(* table at the end of the file, as long as recover() is not called and no *)
(* process dies in front of truncate64; for all names, lengths, numbers of *)
(* operations and of crashes.                                              *)
THEOREM FlagStaysHonest == Spec => []FlagHonest
<1>1. Init => FlagKept
  <2> SUFFICES ASSUME Init PROVE FlagInv /\ usage \in Usage
    BY DEF FlagKept
  <2> DEFINE c == <<>>
  <2>1. /\ disk = [flag |-> -1, cells |-> c] /\ pending = <<>> /\ status = "closed"
        /\ mem = Closed /\ usage \in Usage
    BY DEF Init, NoFile
  <2>2. IsList(c)
    BY DEF IsList
  <2> HIDE DEF c
  <2>3. DiskOK(disk) /\ disk.flag # 1
    BY <2>1, <2>2 DEF DiskOK
  <2>4. TableSaved(disk)
    BY <2>3 DEF TableSaved
  <2>5. Typed(mem)
    BY <2>1, ClosedTyped
  <2> QED BY <2>1, <2>3, <2>4, <2>5 DEF FlagInv
<1>2. FlagKept /\ TypeInv /\ [Next]_vars => FlagKept'
  <2> SUFFICES ASSUME FlagKept, TypeInv, Next \/ UNCHANGED vars
               PROVE  FlagKept'
    OBVIOUS
  <2>1. usage' = usage
    BY CrashesCounted
  <2>2. ASSUME ~recovered', ~usage'.tailCrash PROVE FlagInv'
    <3>1. FlagInv /\ usage \in Usage /\ ~Recover /\ ~usage.tailCrash
      BY <2>1, <2>2, CrashesCounted DEF FlagKept
    <3>2. ~CrashBeforeTruncate
      BY <3>1 DEF CrashBeforeTruncate
    <3> QED BY <3>1, <3>2, FlagStep
  <2> QED BY <2>1, <2>2 DEF FlagKept
<1>3. FlagKept => FlagHonest
  <2> SUFFICES ASSUME FlagInv, disk.flag = 1, status # "truncating"
               PROVE  HasTable(disk)
    BY DEF FlagKept, FlagHonest, FlagMeansTable
  <2>1. CASE status = "open" /\ mem.changed
    BY <2>1 DEF FlagInv
  <2>2. CASE ~(status = "open" /\ mem.changed)
    <3>1. TableSaved(disk)
      BY <2>2 DEF FlagInv
    <3> QED BY <3>1 DEF TableSaved
  <2> QED BY <2>1, <2>2
<1> QED BY <1>1, <1>2, <1>3, TypeInvariance, PTL DEF Spec

============================================================================
