----------------------- MODULE FileArchiveCrashProofs -----------------------
(***************************************************************************)
(* What the first crash leaves of an archive (CrashKeepsOthers) and what   *)
(* recover() leaves of it (RecoverLosesNothing), for all names, lengths and *)
(* numbers of operations.                                                  *)
(*                                                                         *)
(* Until then the archive is tiled (FileArchiveProofs), and every segment  *)
(* begins in the file as the scan expects it (HeadInv).  A crash keeps the *)
(* tiles, except the one that it was writing or removing, and of that one  *)
(* either nothing or a whole header: so a scan meets every other file.     *)
(*                                                                         *)
(* recover() writes behind endOfArchive_, and a scan has every file with   *)
(* an end tag that it found in front of it (InFront), whatever the archive *)
(* has been through.                                                       *)
(***************************************************************************)
EXTENDS FileArchiveProofs

-----------------------------------------------------------------------------
(* The first crash: what a scan finds.                                     *)

(* The header of the file n, and the one of an empty segment.              *)
FileHead(c, f, n) ==
  /\ c[f.pos - 3] = Start /\ c[f.pos - 2] = Len1(1) /\ c[f.pos - 1] = Str(n) /\ c[f.pos] = Size(f.size)
GapHead(c, g) == c[g.pos - 2] = Start /\ c[g.pos - 1] = Len1(0) /\ c[g.pos] = Size(g.size)

(* A segment of either kind from l to h.                                   *)
FileOver(c, l, h, n) == \E f \in Piece : l = f.pos - 3 /\ h = f.pos + f.size + 1 /\ FileHead(c, f, n)
GapOver(c, l, h) == \E g \in Piece : l = g.pos - 2 /\ h = g.pos + g.size + 1 /\ GapHead(c, g)

(* Segments, one after the other from the first cell on, among which the    *)
(* one of the file x is the only one with this name.                       *)
Listed(c, f, x, I, lo, hi, e) ==
  /\ Tiling(I, lo, hi, e) /\ e <= Len(c) + 1
  /\ \E k \in I : lo[k] = f.pos - 3
  /\ \A k \in I : \/ GapOver(c, lo[k], hi[k])
                  \/ \E n : FileOver(c, lo[k], hi[k], n) /\ (n = x => lo[k] = f.pos - 3)

Found(c, f, x) == f \in Piece /\ FileHead(c, f, x) /\ \E I, lo, hi, e : Listed(c, f, x, I, lo, hi, e)

(* The scan takes a segment for what it is. *)
Seen(c, l, h, name) ==
  /\ c[l] = Start /\ WholeHeader(c, l)
  /\ SegmentAt(c, l).name = name /\ SegmentAt(c, l).next = h + 1

(* An empty segment.                                                       *)
LEMMA GapSeen ==
  ASSUME NEW c, IsList(c), NEW l \in Nat \ {0}, NEW h \in Nat, h <= Len(c), GapOver(c, l, h)
  PROVE  Seen(c, l, h, Absent)
<1>1. PICK g \in Piece : l = g.pos - 2 /\ h = g.pos + g.size + 1 /\ GapHead(c, g)
  BY DEF GapOver
<1> DEFINE p == g.pos
           s == g.size
           n == Len(c)
<1>2. p \in Nat /\ s \in Nat /\ n \in Nat /\ l = p - 2 /\ h = p + s + 1 /\ h <= n
  BY <1>1 DEF Piece, IsList
<1>3. c[p - 2] = Start /\ c[p - 1] = Len1(0) /\ c[p] = Size(s)
  BY <1>1 DEF GapHead
<1> HIDE DEF p, s
<1>4. c[l] = Start /\ c[l + 1] = Len1(0) /\ c[p] = Size(s) /\ l + 2 + 0 = p /\ p # l + 3 /\ l + 1 <= n /\ p <= n
  <2>1. l + 1 = p - 1 /\ l + 2 + 0 = p /\ p # l + 3 /\ l + 1 <= n /\ p <= n
    BY <1>2
  <2> QED BY <1>2, <1>3, <2>1
<1>5. /\ "len" \in DOMAIN c[l + 1] /\ c[l + 1].len = 0 /\ "size" \in DOMAIN c[p] /\ c[p].size = s
  BY <1>4 DEF Len1, Size
<1>6. l + 2 + c[l + 1].len = p
  BY <1>4, <1>5
<1>7. WholeHeader(c, l)
  BY <1>4, <1>5, <1>6 DEF WholeHeader
<1>8. SegmentAt(c, l).name = Absent /\ SegmentAt(c, l).next = p + s + 1 + 1
  BY <1>4, <1>5, <1>6 DEF SegmentAt
<1> QED BY <1>2, <1>4, <1>7, <1>8 DEF Seen

(* A file.                                                                 *)
LEMMA FileSeen ==
  ASSUME NEW c, IsList(c), NEW f \in Piece, f.pos - 3 \in Nat \ {0}, f.pos + f.size + 1 <= Len(c),
         NEW x, FileHead(c, f, x)
  PROVE  /\ Seen(c, f.pos - 3, f.pos + f.size + 1, x)
         /\ SegmentAt(c, f.pos - 3).pos = f.pos /\ SegmentAt(c, f.pos - 3).size = f.size
<1> DEFINE p == f.pos
           s == f.size
           n == Len(c)
           l == p - 3
<1>1. p \in Nat /\ s \in Nat /\ n \in Nat /\ p + s + 1 <= n /\ l \in Nat \ {0}
  BY DEF Piece, IsList
<1>2. c[p - 3] = Start /\ c[p - 2] = Len1(1) /\ c[p - 1] = Str(x) /\ c[p] = Size(s)
  BY DEF FileHead
<1>l. l = p - 3
  OBVIOUS
<1> HIDE DEF p, s, l
<1>4. /\ c[l] = Start /\ c[l + 1] = Len1(1) /\ c[l + 2] = Str(x) /\ c[p] = Size(s)
      /\ l + 2 + 1 = p /\ p = l + 3 /\ l + 1 <= n /\ p <= n
  <2>1. l + 1 = p - 2 /\ l + 2 = p - 1 /\ l + 2 + 1 = p /\ p = l + 3 /\ l + 1 <= n /\ p <= n
    BY <1>1, <1>l
  <2> QED BY <1>1, <1>l, <1>2, <2>1
<1>5. /\ "len" \in DOMAIN c[l + 1] /\ c[l + 1].len = 1 /\ "size" \in DOMAIN c[p] /\ c[p].size = s
      /\ "str" \in DOMAIN c[l + 2] /\ c[l + 2].str = x
  BY <1>4 DEF Len1, Size, Str
<1>6. l + 2 + c[l + 1].len = p
  BY <1>4, <1>5
<1>7. WholeHeader(c, l)
  BY <1>4, <1>5, <1>6 DEF WholeHeader
<1>8. /\ SegmentAt(c, l).name = x /\ SegmentAt(c, l).next = p + s + 1 + 1
      /\ SegmentAt(c, l).pos = p /\ SegmentAt(c, l).size = s
  BY <1>4, <1>5, <1>6 DEF SegmentAt
<1> QED BY <1>1, <1>4, <1>7, <1>8 DEF Seen, l, p, s

(* A file that was found before a pass is still found after it.            *)
LEMMA PassKeeps ==
  ASSUME NEW c, NEW s, NEW x \in DOMAIN s.m.files, s = [at |-> s.at, m |-> s.m],
         s.m = [files |-> s.m.files, empties |-> s.m.empties, eoa |-> s.m.eoa, changed |-> s.m.changed],
         NEW resync \in BOOLEAN, NEW t, t = Passed(c, resync, s)
  PROVE  x \in DOMAIN t.m.files /\ t.m.files[x] = s.m.files[x]
<1> DEFINE e == SegmentAt(c, s.at)
           F == s.m.files
<1>1. CASE t.m = s.m
  BY <1>1
<1>2. CASE t.m = AddEntry(s.m, e)
  <2>1. t.m.files = IF e.name = Absent THEN F ELSE AddFile(F, e.name, e.pos, e.size)
    BY <1>2 DEF AddEntry
  <2> HIDE DEF e, F
  <2>2. x \in DOMAIN F
    BY DEF F
  <2>3. x \in DOMAIN t.m.files /\ t.m.files[x] = F[x]
    BY <2>1, <2>2 DEF AddFile
  <2> QED BY <2>3 DEF F
<1>3. t.m = s.m \/ t.m = AddEntry(s.m, e)
  BY DEF Passed
<1> QED BY <1>1, <1>2, <1>3

(* A pass over a segment.                                                  *)
LEMMA PassSees ==
  ASSUME NEW c, NEW l \in Nat, NEW h \in Nat, l <= h, h <= Len(c), Len(c) \in Nat, NEW name, Seen(c, l, h, name),
         NEW m, NEW resync \in BOOLEAN, NEW t, t = Passed(c, resync, [at |-> l, m |-> m])
  PROVE  t.at = h + 1 /\ t.m = AddEntry(m, SegmentAt(c, l))
<1> DEFINE s == [at |-> l, m |-> m]
           stop == Len(c) + 1
           e == SegmentAt(c, l)
<1>1. s.at = l /\ s.m = m /\ e.next = h + 1 /\ c[l] = Start /\ WholeHeader(c, l)
  BY DEF Seen
<1>2. l # stop /\ ~(h + 1 > stop)
  OBVIOUS
<1> HIDE DEF s, stop, e
<1>3. Passed(c, resync, s) = [at |-> e.next, m |-> AddEntry(s.m, e)]
  BY <1>1, <1>2 DEF Passed, stop, e
<1> QED BY <1>1, <1>3 DEF s, e

(* Of a tiling, the interval behind another one starts where that one ends. *)
LEMMA NextTile ==
  ASSUME NEW I, NEW lo, NEW hi, NEW e, Tiling(I, lo, hi, e), NEW j \in I, NEW k \in I, lo[j] < lo[k]
  PROVE  hi[j] < lo[k] /\ \E i \in I : lo[i] = hi[j] + 1
<1>1. /\ e \in Nat \ {0} /\ lo \in [I -> Nat] /\ hi \in [I -> Nat]
      /\ \A i \in I : 1 <= lo[i] /\ lo[i] <= hi[i] /\ hi[i] < e
      /\ \A i, l \in I : i # l => hi[i] < lo[l] \/ hi[l] < lo[i]
      /\ \A p \in 1 .. e - 1 : \E i \in I : lo[i] <= p /\ p <= hi[i]
  BY DEF Tiling
<1>2. hi[j] < lo[k]
  BY <1>1
<1>3. hi[j] + 1 \in 1 .. e - 1
  <2>1. lo[j] \in Nat /\ hi[j] \in Nat /\ lo[k] \in Nat /\ hi[k] \in Nat
    BY <1>1
  <2>2. lo[k] <= hi[k] /\ hi[k] < e
    BY <1>1
  <2> QED BY <1>1, <1>2, <2>1, <2>2
<1>4. PICK i \in I : lo[i] <= hi[j] + 1 /\ hi[j] + 1 <= hi[i]
  BY <1>1, <1>3
<1>5. lo[i] = hi[j] + 1
  <2>1. lo[j] \in Nat /\ hi[j] \in Nat /\ lo[i] \in Nat /\ hi[i] \in Nat /\ lo[j] <= hi[j]
    BY <1>1
  <2>2. i # j
    BY <1>4, <2>1
  <2>3. hi[j] < lo[i] \/ hi[i] < lo[j]
    BY <1>1, <2>2
  <2> QED BY <1>4, <2>1, <2>3
<1> QED BY <1>2, <1>5

(* What holds before each pass: the scan is at a segment before x's or x's, *)
(* or it has found x.                                                      *)
Seeking(s, f, x, I, lo) ==
  \/ s.at <= f.pos - 3 /\ x \notin DOMAIN s.m.files /\ \E k \in I : lo[k] = s.at
  \/ x \in DOMAIN s.m.files /\ s.m.files[x] = f

(* A pass comes closer to the file, or finds it.                            *)
LEMMA StepSeeks ==
  ASSUME NEW c, CellsOK(c), NEW f, f \in Piece, NEW x \in Name, FileHead(c, f, x),
         NEW I, NEW lo, NEW hi, NEW e, Listed(c, f, x, I, lo, hi, e),
         NEW s, s \in ScanStates(Len(c)), Seeking(s, f, x, I, lo), NEW resync \in BOOLEAN, NEW t, t = Passed(c, resync, s)
  PROVE  Seeking(t, f, x, I, lo) /\ (x \in DOMAIN t.m.files \/ t.at > s.at)
<1>1. s = [at |-> s.at, m |-> s.m] /\ Typed(s.m) /\ s.at \in Nat
  <2>1. PICK p \in 1 .. Len(c) + 1, m \in Indices : s = [at |-> p, m |-> m]
    BY DEF ScanStates
  <2>2. Typed(m)
    BY TypedIndices
  <2>3. p \in Nat
    BY DEF CellsOK, IsList
  <2>4. s.at = p /\ s.m = m
    BY <2>1
  <2> QED BY <2>1, <2>2, <2>3, <2>4
<1>2. s.m = [files |-> s.m.files, empties |-> s.m.empties, eoa |-> s.m.eoa, changed |-> s.m.changed]
  BY <1>1 DEF Typed
<1>3. CASE x \in DOMAIN s.m.files /\ s.m.files[x] = f
  <2>0. x \in DOMAIN s.m.files /\ s = [at |-> s.at, m |-> s.m]
    BY <1>1, <1>3
  <2>1. x \in DOMAIN t.m.files /\ t.m.files[x] = s.m.files[x]
    BY <1>2, <2>0, PassKeeps, SMTT(30)
  <2>2. x \in DOMAIN t.m.files /\ t.m.files[x] = f
    BY <1>3, <2>1
  <2> QED BY <2>2 DEF Seeking
<1>4. CASE s.at <= f.pos - 3 /\ x \notin DOMAIN s.m.files /\ \E k \in I : lo[k] = s.at
  <2>1. PICK j \in I : lo[j] = s.at
    BY <1>4
  <2>2. /\ Tiling(I, lo, hi, e) /\ e <= Len(c) + 1
        /\ \A k \in I : \/ GapOver(c, lo[k], hi[k])
                        \/ \E n : FileOver(c, lo[k], hi[k], n) /\ (n = x => lo[k] = f.pos - 3)
    BY DEF Listed
  <2>3. PICK i \in I : lo[i] = f.pos - 3
    BY DEF Listed
  <2>4. IsList(c) /\ Len(c) \in Nat
    BY DEF CellsOK, IsList
  <2>5. /\ lo[j] \in Nat \ {0} /\ hi[j] \in Nat /\ lo[j] <= hi[j] /\ hi[j] <= Len(c)
        /\ lo[i] \in Nat \ {0} /\ hi[i] \in Nat /\ lo[i] <= hi[i] /\ hi[i] <= Len(c)
    <3>1. /\ e \in Nat /\ \A k \in I : lo[k] \in Nat /\ hi[k] \in Nat /\ 1 <= lo[k] /\ lo[k] <= hi[k] /\ hi[k] < e
      BY <2>2 DEF Tiling
    <3> QED BY <2>2, <2>4, <3>1
  <2> DEFINE l == lo[j]
             h == hi[j]
             a == SegmentAt(c, l)
             F == s.m.files
  <2>6. ASSUME NEW name, Seen(c, l, h, name)
        PROVE  /\ t.at = h + 1
               /\ t.m.files = IF name = Absent THEN F ELSE AddFile(F, name, a.pos, a.size)
    <3>1. t = Passed(c, resync, [at |-> l, m |-> s.m])
      BY <1>1, <2>1
    <3>2. t.at = h + 1 /\ t.m = AddEntry(s.m, a)
      <4> HIDE DEF a, l, h
      <4>1. l \in Nat /\ h \in Nat /\ l <= h /\ h <= Len(c)
        BY <2>5 DEF l, h
      <4> QED BY <2>4, <2>6, <3>1, <4>1, PassSees DEF a
    <3>3. a.name = name
      BY <2>6 DEF Seen
    <3> HIDE DEF a
    <3>5. AddEntry(s.m, a).files = IF a.name = Absent THEN F ELSE AddFile(F, a.name, a.pos, a.size)
      BY <1>2 DEF AddEntry
    <3> QED BY <3>2, <3>3, <3>5
  <2>7. CASE l = f.pos - 3
    <3> DEFINE g == f.pos + f.size + 1
    <3>1. h = g
      <4>1. \/ \E z \in Piece : l = z.pos - 2 /\ h = z.pos + z.size + 1 /\ GapHead(c, z)
            \/ \E n : \E z \in Piece : l = z.pos - 3 /\ h = z.pos + z.size + 1 /\ FileHead(c, z, n)
        BY <2>2 DEF GapOver, FileOver
      <4>2. f.pos \in Nat /\ f.size \in Nat
        BY DEF Piece
      <4>3. c[l + 1] = Len1(1) /\ c[l + 3] = Size(f.size)
        <5>1. l + 1 = f.pos - 2 /\ l + 3 = f.pos
          BY <2>7, <4>2
        <5> QED BY <5>1 DEF FileHead
      <4>4. ASSUME NEW z \in Piece, l = z.pos - 2, GapHead(c, z) PROVE FALSE
        <5>1. z.pos \in Nat /\ l + 1 = z.pos - 1
          BY <4>4 DEF Piece
        <5>2. c[l + 1] = Len1(0)
          BY <4>4, <5>1 DEF GapHead
        <5> QED BY <4>3, <5>2 DEF Len1
      <4>5. ASSUME NEW n, NEW z \in Piece, l = z.pos - 3, h = z.pos + z.size + 1, FileHead(c, z, n) PROVE h = g
        <5>1. z.pos \in Nat /\ l + 3 = z.pos /\ z.pos = f.pos
          BY <2>7, <4>2, <4>5 DEF Piece
        <5>2. c[l + 3] = Size(z.size)
          BY <4>5, <5>1 DEF FileHead
        <5>3. z.size = f.size
          BY <4>3, <5>2 DEF Size
        <5> QED BY <4>5, <5>1, <5>3
      <4> QED BY <4>1, <4>4, <4>5
    <3>2. Seen(c, l, h, x) /\ a.pos = f.pos /\ a.size = f.size
      <4>1. f.pos - 3 \in Nat \ {0} /\ f.pos + f.size + 1 <= Len(c)
        BY <2>5, <2>7, <3>1
      <4>2. /\ Seen(c, f.pos - 3, f.pos + f.size + 1, x)
            /\ SegmentAt(c, f.pos - 3).pos = f.pos /\ SegmentAt(c, f.pos - 3).size = f.size
        BY <2>4, <4>1, FileSeen
      <4> QED BY <2>7, <3>1, <4>2
    <3>3. x # Absent
      BY NameOK
    <3> HIDE DEF a, l, h
    <3>4. t.m.files = AddFile(F, x, a.pos, a.size)
      BY <2>6, <3>2, <3>3
    <3>5. f = [pos |-> f.pos, size |-> f.size]
      BY DEF Piece
    <3>6. x \in DOMAIN t.m.files /\ t.m.files[x] = f
      BY <1>4, <3>2, <3>4, <3>5 DEF AddFile
    <3> QED BY <3>6 DEF Seeking
  <2>8. CASE l # f.pos - 3
    <3>1. PICK name : Seen(c, l, h, name) /\ name # x
      <4>1. CASE GapOver(c, l, h)
        <5>1. Seen(c, l, h, Absent)
          BY <2>4, <2>5, <4>1, GapSeen
        <5> QED BY <5>1, NameOK
      <4>2. CASE \E n : FileOver(c, l, h, n) /\ (n = x => l = f.pos - 3)
        <5>1. PICK n : FileOver(c, l, h, n) /\ n # x
          BY <2>8, <4>2
        <5>2. PICK z \in Piece : l = z.pos - 3 /\ h = z.pos + z.size + 1 /\ FileHead(c, z, n)
          BY <5>1 DEF FileOver
        <5>3. z.pos - 3 \in Nat \ {0} /\ z.pos + z.size + 1 <= Len(c)
          BY <2>5, <5>2
        <5>4. Seen(c, l, h, n)
          BY <2>4, <5>2, <5>3, FileSeen
        <5> QED BY <5>1, <5>4
      <4> QED BY <2>2, <4>1, <4>2
    <3>2. t.m.files = IF name = Absent THEN F ELSE AddFile(F, name, a.pos, a.size)
      BY <2>6, <3>1
    <3>3. x \notin DOMAIN t.m.files
      BY <1>4, <3>1, <3>2 DEF AddFile
    <3>4. lo[j] < lo[i]
      <4>1. s.at <= lo[i] /\ lo[j] # lo[i]
        BY <1>4, <2>3, <2>8
      <4> QED BY <2>1, <2>5, <4>1
    <3>5. hi[j] < lo[i] /\ \E k \in I : lo[k] = hi[j] + 1
      BY <2>2, <3>4, NextTile
    <3>6. t.at = hi[j] + 1
      BY <2>6, <3>1
    <3>7. t.at <= f.pos - 3 /\ t.at > s.at
      BY <2>1, <2>3, <2>5, <3>5, <3>6
    <3> QED BY <3>3, <3>5, <3>6, <3>7 DEF Seeking
  <2> QED BY <2>7, <2>8
<1> QED BY <1>3, <1>4 DEF Seeking

(* The scan finds the file.                                                *)
LEMMA ScanFinds ==
  ASSUME NEW c, CellsOK(c), NEW resync \in BOOLEAN, NEW f, NEW x \in Name, Found(c, f, x)
  PROVE  x \in DOMAIN Scanned(c, resync).files /\ Scanned(c, resync).files[x] = f
<1> DEFINE n == Len(c)
<1>1. PICK g : /\ g[0] = [at |-> 1, m |-> Closed]
               /\ \A k \in 1 .. n : g[k] = Passed(c, resync, g[k - 1])
               /\ \A k \in 0 .. n : g[k] \in ScanStates(n)
               /\ Scanned(c, resync) = g[n].m
  BY ScanPasses
<1>2. f \in Piece /\ FileHead(c, f, x)
  BY DEF Found
<1>3. PICK I, lo, hi, e : Listed(c, f, x, I, lo, hi, e)
  BY DEF Found
<1>4. PICK i \in I : lo[i] = f.pos - 3
  BY <1>3 DEF Listed
<1>5. Tiling(I, lo, hi, e) /\ e <= n + 1 /\ n \in Nat
  BY <1>3 DEF Listed, CellsOK, IsList
<1>6. /\ e \in Nat \ {0} /\ \A k \in I : lo[k] \in Nat /\ hi[k] \in Nat /\ 1 <= lo[k] /\ lo[k] <= hi[k] /\ hi[k] < e
      /\ \A p \in 1 .. e - 1 : \E k \in I : lo[k] <= p /\ p <= hi[k]
  BY <1>5 DEF Tiling
<1>7. lo[i] \in 1 .. n
  BY <1>4, <1>5, <1>6
<1>8. Seeking(g[0], f, x, I, lo)
  <2>1. DOMAIN Closed.files = {}
    BY DEF Closed
  <2>2. PICK k \in I : lo[k] <= 1 /\ 1 <= hi[k]
    <3>1. 1 \in 1 .. e - 1
      <4>1. lo[i] \in Nat /\ hi[i] \in Nat /\ 1 <= lo[i] /\ lo[i] <= hi[i] /\ hi[i] < e
        BY <1>6
      <4> QED BY <1>6, <4>1
    <3> QED BY <1>6, <3>1
  <2>3. lo[k] = 1
    BY <1>6, <2>2
  <2> QED BY <1>1, <1>4, <1>7, <2>1, <2>3 DEF Seeking
<1> DEFINE T == {k \in 0 .. n : Seeking(g[k], f, x, I, lo) /\ (x \in DOMAIN g[k].m.files \/ g[k].at >= k + 1)}
<1> HIDE DEF n
<1>9. 0 \in T
  <2>1. g[0].at >= 0 + 1
    BY <1>1
  <2> QED BY <1>5, <1>8, <2>1
<1>10. ASSUME NEW k \in 0 .. n - 1, k \in T PROVE k + 1 \in T
  <2>1. k \in Nat /\ k + 1 \in 1 .. n /\ k + 1 \in 0 .. n /\ (k + 1) - 1 = k /\ k \in 0 .. n
    BY <1>5
  <2> DEFINE s == g[k]
             t == g[k + 1]
  <2>2. t = Passed(c, resync, s) /\ s \in ScanStates(n) /\ t \in ScanStates(n)
    BY <1>1, <2>1
  <2>3. Seeking(s, f, x, I, lo) /\ (x \in DOMAIN s.m.files \/ s.at >= k + 1)
    BY <1>10
  <2>a. \A u \in ScanStates(n) : u.at \in Nat
    BY <1>5 DEF ScanStates
  <2>4. s.at \in Nat /\ t.at \in Nat
    BY <2>2, <2>a
  <2> HIDE DEF s, t, T
  <2>5. Seeking(t, f, x, I, lo) /\ (x \in DOMAIN t.m.files \/ t.at > s.at)
    BY <1>2, <1>3, <2>2, <2>3, StepSeeks DEF n
  <2>6. CASE x \in DOMAIN t.m.files
    BY <2>1, <2>5, <2>6 DEF T, t
  <2>7. CASE x \notin DOMAIN t.m.files
    <3>1. s.m = s.m /\ x \notin DOMAIN s.m.files
      <4>1. ASSUME x \in DOMAIN s.m.files PROVE FALSE
        <5>1. s = [at |-> s.at, m |-> s.m]
          BY <2>2 DEF ScanStates
        <5>2. Typed(s.m)
          BY <2>2, TypedIndices DEF ScanStates
        <5>3. s.m = [files |-> s.m.files, empties |-> s.m.empties, eoa |-> s.m.eoa, changed |-> s.m.changed]
          BY <5>2 DEF Typed
        <5>4. x \in DOMAIN t.m.files
          BY <2>2, <4>1, <5>1, <5>3, PassKeeps
        <5> QED BY <2>7, <5>4
      <4> QED BY <4>1
    <3>2. t.at >= (k + 1) + 1
      BY <2>1, <2>3, <2>4, <2>5, <2>7, <3>1
    <3> QED BY <2>1, <2>5, <3>2 DEF T, t
  <2> QED BY <2>6, <2>7
<1>11. n \in T
  <2> HIDE DEF T
  <2>1. \A k \in 0 .. n : k \in T
    BY <1>5, <1>9, <1>10, Counting
  <2> QED BY <1>5, <2>1
<1>12. x \in DOMAIN g[n].m.files /\ g[n].m.files[x] = f
  <2>1. Seeking(g[n], f, x, I, lo) /\ (x \in DOMAIN g[n].m.files \/ g[n].at >= n + 1)
    BY <1>11
  <2>2. g[n].at \in Nat
    <3>1. g[n] \in ScanStates(n)
      BY <1>1, <1>5
    <3> QED BY <1>5, <3>1 DEF ScanStates
  <2>3. ~(g[n].at <= f.pos - 3 /\ g[n].at >= n + 1)
    BY <1>4, <1>5, <1>7, <2>2
  <2> QED BY <2>1, <2>3 DEF Seeking
<1> QED BY <1>1, <1>12

-----------------------------------------------------------------------------
(* Headers.                                                                *)

(* All segments of the index m have their headers in the cells c.          *)
Headed(m, c) ==
  /\ \A n \in DOMAIN m.files : FileHead(c, m.files[n], n)
  /\ \A i \in 1 .. Len(m.empties) : GapHead(c, m.empties[i])

(* Then the scan finds every file.                                         *)
LEMMA HeadedFound ==
  ASSUME NEW m, NEW c, MemOK(m), Tiling(Ids(m), Lo(m), Hi(m), m.eoa), m.eoa <= Len(c) + 1, Headed(m, c),
         NEW x \in DOMAIN m.files
  PROVE  Found(c, m.files[x], x)
<1> DEFINE I == Ids(m)
           lo == Lo(m)
           hi == Hi(m)
           f == m.files[x]
<1>1. f \in Piece /\ FileHead(c, f, x)
  BY DEF MemOK, Headed
<1>2. <<1, x>> \in I /\ lo[<<1, x>>] = f.pos - 3
  BY Segments
<1>3. ASSUME NEW k \in I
      PROVE  \/ GapOver(c, lo[k], hi[k])
             \/ \E n : FileOver(c, lo[k], hi[k], n) /\ (n = x => lo[k] = f.pos - 3)
  <2>1. CASE k = <<1, k[2]>> /\ k[2] \in DOMAIN m.files
    <3> DEFINE n == k[2]
               g == m.files[n]
    <3>1. n \in DOMAIN m.files /\ lo[k] = g.pos - 3 /\ hi[k] = g.pos + g.size + 1
      <4>1. \A y \in DOMAIN m.files : lo[<<1, y>>] = m.files[y].pos - 3
                                     /\ hi[<<1, y>>] = m.files[y].pos + m.files[y].size + 1
        BY Segments
      <4> HIDE DEF lo, hi
      <4>2. \A y : k = <<1, y>> /\ y \in DOMAIN m.files
                    => lo[k] = m.files[y].pos - 3 /\ hi[k] = m.files[y].pos + m.files[y].size + 1
        BY <4>1
      <4> QED BY <2>1, <4>2
    <3>2. g \in Piece /\ FileHead(c, g, n)
      BY <3>1 DEF MemOK, Headed
    <3>3. n = x => g = f
      OBVIOUS
    <3> HIDE DEF n, g, lo, hi, f
    <3>4. FileOver(c, lo[k], hi[k], n)
      BY <3>1, <3>2 DEF FileOver
    <3> QED BY <3>1, <3>3, <3>4
  <2>2. CASE k = <<2, k[2]>> /\ k[2] \in 1 .. Len(m.empties)
    <3> DEFINE i == k[2]
               g == m.empties[i]
    <3>1. i \in 1 .. Len(m.empties) /\ lo[k] = g.pos - 2 /\ hi[k] = g.pos + g.size + 1
      <4>1. \A y \in 1 .. Len(m.empties) : lo[<<2, y>>] = m.empties[y].pos - 2
                                     /\ hi[<<2, y>>] = m.empties[y].pos + m.empties[y].size + 1
        BY Segments
      <4> HIDE DEF lo, hi
      <4>2. \A y : k = <<2, y>> /\ y \in 1 .. Len(m.empties)
                    => lo[k] = m.empties[y].pos - 2 /\ hi[k] = m.empties[y].pos + m.empties[y].size + 1
        BY <4>1
      <4> QED BY <2>2, <4>2
    <3>2. g \in Piece /\ GapHead(c, g)
      BY <3>1 DEF MemOK, Headed
    <3> HIDE DEF i, g, lo, hi, f
    <3>4. GapOver(c, lo[k], hi[k])
      BY <3>1, <3>2 DEF GapOver
    <3> QED BY <3>4
  <2> QED BY <2>1, <2>2, Segments
<1> HIDE DEF I, lo, hi, f
<1>4. Listed(c, f, x, I, lo, hi, m.eoa)
  BY <1>2, <1>3 DEF Listed, I, lo, hi
<1> QED BY <1>1, <1>4 DEF Found, f

(* A header that was not written to is still there.                        *)
LEMMA HeadStays ==
  ASSUME NEW m, MemOK(m), NEW c, NEW o
  PROVE  /\ \A x \in DOMAIN m.files :
              FileHead(c, m.files[x], x) /\ (\A i \in Lo(m)[<<1, x>>] .. Hi(m)[<<1, x>>] : o[i] = c[i])
                => FileHead(o, m.files[x], x)
         /\ \A j \in 1 .. Len(m.empties) :
              GapHead(c, m.empties[j]) /\ (\A i \in Lo(m)[<<2, j>>] .. Hi(m)[<<2, j>>] : o[i] = c[i])
                => GapHead(o, m.empties[j])
<1>1. ASSUME NEW x \in DOMAIN m.files, FileHead(c, m.files[x], x),
             \A i \in Lo(m)[<<1, x>>] .. Hi(m)[<<1, x>>] : o[i] = c[i]
      PROVE  FileHead(o, m.files[x], x)
  <2> DEFINE p == m.files[x].pos
             s == m.files[x].size
             l == Lo(m)[<<1, x>>]
             h == Hi(m)[<<1, x>>]
  <2>1. p \in Nat /\ s \in Nat /\ l = p - 3 /\ h = p + s + 1
    BY Segments
  <2>2. \A i \in l .. h : o[i] = c[i]
    BY <1>1
  <2>3. c[p - 3] = Start /\ c[p - 2] = Len1(1) /\ c[p - 1] = Str(x) /\ c[p] = Size(s)
    BY <1>1 DEF FileHead
  <2> HIDE DEF p, s, l, h
  <2>4. p - 3 \in l .. h /\ p - 2 \in l .. h /\ p - 1 \in l .. h /\ p \in l .. h
    BY <2>1
  <2>5. o[p - 3] = Start /\ o[p - 2] = Len1(1) /\ o[p - 1] = Str(x) /\ o[p] = Size(s)
    BY <2>2, <2>3, <2>4
  <2> QED BY <2>5 DEF FileHead, p, s
<1>2. ASSUME NEW j \in 1 .. Len(m.empties), GapHead(c, m.empties[j]),
             \A i \in Lo(m)[<<2, j>>] .. Hi(m)[<<2, j>>] : o[i] = c[i]
      PROVE  GapHead(o, m.empties[j])
  <2> DEFINE p == m.empties[j].pos
             s == m.empties[j].size
             l == Lo(m)[<<2, j>>]
             h == Hi(m)[<<2, j>>]
  <2>1. p \in Nat /\ s \in Nat /\ l = p - 2 /\ h = p + s + 1
    BY Segments
  <2>2. \A i \in l .. h : o[i] = c[i]
    BY <1>2
  <2>3. c[p - 2] = Start /\ c[p - 1] = Len1(0) /\ c[p] = Size(s)
    BY <1>2 DEF GapHead
  <2> HIDE DEF p, s, l, h
  <2>4. p - 2 \in l .. h /\ p - 1 \in l .. h /\ p \in l .. h
    BY <2>1
  <2>5. o[p - 2] = Start /\ o[p - 1] = Len1(0) /\ o[p] = Size(s)
    BY <2>2, <2>3, <2>4
  <2> QED BY <2>5 DEF GapHead, p, s
<1> QED BY <1>1, <1>2

(* All headers are there when no segment was written to.                   *)
LEMMA HeadsStay ==
  ASSUME NEW m, MemOK(m), NEW c, Headed(m, c), NEW o,
         \A k \in Ids(m) : \A i \in Lo(m)[k] .. Hi(m)[k] : o[i] = c[i]
  PROVE  Headed(m, o)
<1>1. ASSUME NEW x \in DOMAIN m.files PROVE FileHead(o, m.files[x], x)
  <2>1. <<1, x>> \in Ids(m)
    BY DEF Ids
  <2>2. \A i \in Lo(m)[<<1, x>>] .. Hi(m)[<<1, x>>] : o[i] = c[i]
    BY <2>1
  <2>3. FileHead(c, m.files[x], x)
    BY DEF Headed
  <2> QED BY <2>2, <2>3, HeadStays
<1>2. ASSUME NEW j \in 1 .. Len(m.empties) PROVE GapHead(o, m.empties[j])
  <2>1. <<2, j>> \in Ids(m)
    BY DEF Ids
  <2>2. \A i \in Lo(m)[<<2, j>>] .. Hi(m)[<<2, j>>] : o[i] = c[i]
    BY <2>1
  <2>3. GapHead(c, m.empties[j])
    BY DEF Headed
  <2> QED BY <2>2, <2>3, HeadStays
<1> QED BY <1>1, <1>2 DEF Headed

(* What lies behind the archive's end does not matter.                     *)
LEMMA HeadedSame ==
  ASSUME NEW m, NEW c, Described(m, c), Headed(m, c), NEW w, NEW o, SameTo(m, c, w, o)
  PROVE  Headed(w, o)
<1>1. MemOK(m) /\ Tiling(Ids(m), Lo(m), Hi(m), m.eoa)
  BY DEF Described
<1>2. ASSUME NEW k \in Ids(m) PROVE \A i \in Lo(m)[k] .. Hi(m)[k] : o[i] = c[i]
  <2> DEFINE l == Lo(m)[k]
             h == Hi(m)[k]
             e == m.eoa
  <2>1. l \in Nat /\ h \in Nat /\ 1 <= l /\ h < e /\ e \in Nat
    BY <1>1 DEF Tiling
  <2>2. \A i \in 1 .. e - 1 : o[i] = c[i]
    BY DEF SameTo
  <2> HIDE DEF l, h, e
  <2>3. \A i \in l .. h : o[i] = c[i]
    BY <2>1, <2>2
  <2> QED BY <2>3 DEF l, h
<1>3. Headed(m, o)
  BY <1>1, <1>2, HeadsStay
<1>4. w.files = m.files /\ w.empties = m.empties
  BY DEF SameTo
<1> QED BY <1>3, <1>4 DEF Headed

(* remove() of the last file leaves the headers of the others.             *)
LEMMA CutOffHeaded ==
  ASSUME NEW m, NEW c, MemOK(m), Headed(m, c), NEW n
  PROVE  Headed(CutOff(m, n), c)
<1> DEFINE w == CutOff(m, n)
<1>1. w.files = [x \in DOMAIN m.files \ {n} |-> m.files[x]] /\ w.empties = m.empties
  BY DEF MemOK, CutOff, Gone
<1> HIDE DEF w
<1>2. Headed(w, c)
  BY <1>1 DEF Headed
<1> QED BY <1>2 DEF w

(* remove() of another one makes its header that of an empty segment.      *)
LEMMA MarkedHeaded ==
  ASSUME NEW m, NEW c, Described(m, c), Headed(m, c), NEW n \in DOMAIN m.files,
         NEW o, o = Overwritten(c, m.files[n].pos - 2, <<Len1(0), Size(m.files[n].size + 1)>>)
  PROVE  Headed(Marked(m, n), o)
<1> DEFINE p == m.files[n].pos
           s == m.files[n].size
           E == Len(m.empties)
           k0 == <<1, n>>
           new == <<Len1(0), Size(s + 1)>>
           w == Marked(m, n)
           x1 == [pos |-> p - 1, size |-> s + 1]
<1>1. MemOK(m) /\ IsList(c) /\ Tiling(Ids(m), Lo(m), Hi(m), m.eoa)
  BY DEF Described
<1>2. k0 \in Ids(m) /\ Lo(m)[k0] = p - 3 /\ Hi(m)[k0] = p + s + 1 /\ p \in Nat /\ s \in Nat
  BY <1>1, Segments
<1>3. p - 3 \in Nat \ {0} /\ p - 2 \in Nat \ {0}
  <2>1. 1 <= Lo(m)[k0] /\ Lo(m)[k0] \in Nat
    BY <1>1, <1>2 DEF Tiling
  <2> HIDE DEF p
  <2> QED BY <1>2, <2>1
<1>4. IsList(new) /\ Len(new) = 2 /\ new[1] = Len1(0) /\ new[2] = Size(s + 1)
  BY DEF IsList
<1>5. /\ IsList(o) /\ Len(o) \in Nat /\ Len(o) >= Len(c)
      /\ \A k \in Ids(m) : k # k0 => \A i \in Lo(m)[k] .. Hi(m)[k] : o[i] = c[i]
  <2> DEFINE at == p - 2
  <2>1. at \in Nat \ {0} /\ o = Overwritten(c, at, new) /\ Lo(m)[k0] <= at /\ at + Len(new) - 1 <= Hi(m)[k0]
    <3>1. o = Overwritten(c, at, new)
      OBVIOUS
    <3> HIDE DEF new, p, s
    <3> QED BY <1>2, <1>3, <1>4, <3>1
  <2>2. k0 \in Ids(m) /\ IsList(new) /\ Described(m, c)
    BY <1>2, <1>4
  <2> HIDE DEF at, new, k0
  <2> QED BY <2>1, <2>2, WrittenInside
<1>6. o[p - 2] = Len1(0) /\ o[p - 1] = Size(s + 1) /\ o[p - 3] = Start
  <2> DEFINE at == p - 2
  <2>1. o = Overwritten(c, at, new) /\ at \in Nat \ {0}
    BY <1>3
  <2>2. /\ \A i \in 1 .. Len(new) : o[at + i - 1] = new[i]
        /\ \A i \in 1 .. Len(c) : i < at \/ i > at + Len(new) - 1 => o[i] = c[i]
    <3>1. IsList(c) /\ IsList(new)
      BY <1>1, <1>4
    <3> HIDE DEF at, new
    <3> QED BY ONLY <2>1, <3>1, OverwrittenCells
  <2> HIDE DEF at, new
  <2>3. c[p - 3] = Start
    BY DEF Headed, FileHead
  <2>4. p - 3 \in 1 .. Len(c)
    <3> DEFINE h == Hi(m)[k0]
               e == m.eoa
               L == Len(c)
    <3>1. h < e /\ e <= L + 1 /\ e \in Nat /\ L \in Nat
      BY <1>1, <1>2 DEF Tiling, Described, IsList
    <3> HIDE DEF h, e, L, p, s
    <3>2. p - 3 \in 1 .. L
      BY <1>2, <1>3, <3>1 DEF h
    <3> QED BY <3>2 DEF L
  <2> HIDE DEF p, s
  <2>5. at + 1 - 1 = p - 2 /\ at + 2 - 1 = p - 1 /\ p - 3 < at
    BY <1>2 DEF at
  <2>6. o[at + 1 - 1] = new[1] /\ o[at + 2 - 1] = new[2]
    BY <1>4, <2>2
  <2> QED BY <1>4, <2>2, <2>3, <2>4, <2>5, <2>6
<1>7. /\ w.files = [x \in DOMAIN m.files \ {n} |-> m.files[x]]
      /\ w.empties = Append(m.empties, x1) /\ m.empties \in Seq(Piece)
  BY <1>1 DEF MemOK, Marked, Gone
<1>8. /\ Len(w.empties) = E + 1 /\ E \in Nat /\ w.empties[E + 1] = x1
      /\ \A i \in 1 .. E : w.empties[i] = m.empties[i]
  <2> HIDE DEF w, x1
  <2>1. x1 \in Piece
    <3>1. p - 1 \in Nat /\ s + 1 \in Nat
      <4> HIDE DEF p, s
      <4> QED BY <1>2, <1>3
    <3> QED BY <3>1 DEF Piece, x1
  <2> QED BY <1>7, <2>1
<1> HIDE DEF w
<1>9. ASSUME NEW x \in DOMAIN w.files PROVE FileHead(o, w.files[x], x)
  <2>1. x \in DOMAIN m.files /\ x # n /\ w.files[x] = m.files[x]
    BY <1>7
  <2>2. <<1, x>> \in Ids(m) /\ <<1, x>> # k0
    BY <2>1 DEF Ids
  <2>3. \A i \in Lo(m)[<<1, x>>] .. Hi(m)[<<1, x>>] : o[i] = c[i]
    BY <1>5, <2>2
  <2>4. FileHead(c, m.files[x], x)
    BY <2>1 DEF Headed
  <2>5. FileHead(o, m.files[x], x)
    BY <1>1, <2>1, <2>3, <2>4, HeadStays
  <2> QED BY <2>1, <2>5
<1>10. ASSUME NEW i \in 1 .. E + 1 PROVE GapHead(o, w.empties[i])
  <2>1. CASE i = E + 1
    <3>1. x1.pos - 2 = p - 3 /\ x1.pos - 1 = p - 2 /\ x1.pos = p - 1 /\ x1.size = s + 1
      <4> HIDE DEF p, s
      <4> QED BY <1>2
    <3>2. GapHead(o, x1)
      BY <1>6, <3>1 DEF GapHead
    <3> QED BY <1>8, <2>1, <3>2
  <2>2. CASE i # E + 1
    <3>1. i \in 1 .. E
      BY <1>8, <2>2
    <3>2. <<2, i>> \in Ids(m) /\ <<2, i>> # k0
      BY <3>1 DEF Ids
    <3>3. \A j \in Lo(m)[<<2, i>>] .. Hi(m)[<<2, i>>] : o[j] = c[j]
      BY <1>5, <3>2
    <3>4. GapHead(c, m.empties[i])
      BY <3>1 DEF Headed
    <3>5. GapHead(o, m.empties[i])
      BY <1>1, <3>1, <3>3, <3>4, HeadStays, ZenonT(60)
    <3>6. w.empties[i] = m.empties[i]
      BY <1>8, <3>1
    <3> QED BY <3>5, <3>6
  <2> QED BY <2>1, <2>2
<1>11. Headed(w, o)
  BY <1>8, <1>9, <1>10 DEF Headed
<1> QED BY <1>11 DEF w

-----------------------------------------------------------------------------
(* Adding a file.                                                          *)

(* The file n of size s is added to the index m, which becomes w, and is   *)
(* written from the cell at on.                                            *)
Adds(m, w, n, at, s) ==
  \/ at = m.eoa /\ w = AtEnd(m, n, s)
  \/ \E j \in 1 .. Len(m.empties) :
       /\ m.empties[j].size = s + 1 /\ at = m.empties[j].pos - 2
       /\ w = InGap(m, n, j, s)

(* The segment from l to h lies apart from the file's.                     *)
Apart(l, h, at, s) == h < at \/ at + s + 4 < l

(* Everything in w that was in m. *)
Rest(m, w, n, at, s) ==
  /\ DOMAIN w.files = DOMAIN m.files \cup {n} /\ w.files[n] = [pos |-> at + 3, size |-> s]
  /\ \A x \in DOMAIN m.files : /\ w.files[x] = m.files[x]
                               /\ Apart(Lo(m)[<<1, x>>], Hi(m)[<<1, x>>], at, s)
  /\ \A i \in 1 .. Len(w.empties) :
       \E j \in 1 .. Len(m.empties) :
         /\ w.empties[i] = m.empties[j] /\ Apart(Lo(m)[<<2, j>>], Hi(m)[<<2, j>>], at, s)

(* At the end of the archive.                                              *)
LEMMA AtEndRest ==
  ASSUME NEW m, NEW c, Described(m, c), NEW n \in Name, n \notin DOMAIN m.files, NEW s \in Nat,
         NEW w, w = AtEnd(m, n, s)
  PROVE  /\ Rest(m, w, n, m.eoa, s) /\ w.empties = m.empties /\ w.eoa = m.eoa + s + 5
         /\ MemOK(w) /\ Tiling(Ids(w), Lo(w), Hi(w), w.eoa)
<1>1. MemOK(m) /\ Tiling(Ids(m), Lo(m), Hi(m), m.eoa)
  BY DEF Described
<1>2. MemOK(w) /\ Tiling(Ids(w), Lo(w), Hi(w), w.eoa)
  <2> DEFINE o == Overwritten(c, m.eoa, FileCells(n, 0, s))
  <2>1. Described(w, o)
    BY AtEndDescribes
  <2> HIDE DEF o
  <2> QED BY <2>1 DEF Described
<1> DEFINE e == m.eoa
           x1 == [pos |-> e + 3, size |-> s]
<1>3. /\ w.files = [x \in DOMAIN m.files \cup {n} |-> IF x = n THEN x1 ELSE m.files[x]]
      /\ w.empties = m.empties /\ w.eoa = e + s + 5
  BY <1>1 DEF MemOK, AtEnd, AddFile
<1>4. ASSUME NEW k \in Ids(m) PROVE Apart(Lo(m)[k], Hi(m)[k], e, s)
  BY <1>1 DEF Tiling, Apart
<1>5. /\ \A x \in DOMAIN m.files : <<1, x>> \in Ids(m)
      /\ \A i \in 1 .. Len(m.empties) : <<2, i>> \in Ids(m)
  BY DEF Ids
<1> HIDE DEF x1, e
<1>6. Rest(m, w, n, e, s)
  <2>1. DOMAIN w.files = DOMAIN m.files \cup {n} /\ w.files[n] = [pos |-> e + 3, size |-> s]
    BY <1>3 DEF x1
  <2>2. ASSUME NEW x \in DOMAIN m.files
        PROVE  w.files[x] = m.files[x] /\ Apart(Lo(m)[<<1, x>>], Hi(m)[<<1, x>>], e, s)
    BY <1>3, <1>4, <1>5
  <2>3. ASSUME NEW i \in 1 .. Len(w.empties)
        PROVE  \E j \in 1 .. Len(m.empties) :
                 w.empties[i] = m.empties[j] /\ Apart(Lo(m)[<<2, j>>], Hi(m)[<<2, j>>], e, s)
    BY <1>3, <1>4, <1>5
  <2> QED BY <2>1, <2>2, <2>3 DEF Rest
<1> QED BY <1>2, <1>3, <1>6 DEF e

(* In an empty segment.                                                    *)
LEMMA InGapRest ==
  ASSUME NEW m, NEW c, Described(m, c), NEW n \in Name, n \notin DOMAIN m.files, NEW s \in Nat,
         NEW j \in 1 .. Len(m.empties), m.empties[j].size = s + 1,
         NEW at, at = m.empties[j].pos - 2, NEW w, w = InGap(m, n, j, s)
  PROVE  /\ Rest(m, w, n, at, s) /\ w.eoa = m.eoa /\ at \in Nat \ {0} /\ at + s + 4 < m.eoa
         /\ MemOK(w) /\ Tiling(Ids(w), Lo(w), Hi(w), w.eoa)
<1>1. MemOK(m) /\ Tiling(Ids(m), Lo(m), Hi(m), m.eoa)
  BY DEF Described
<1>2. MemOK(w) /\ Tiling(Ids(w), Lo(w), Hi(w), w.eoa) /\ at \in Nat \ {0}
  <2> DEFINE o == Overwritten(c, m.empties[j].pos - 2, FileCells(n, 0, s))
  <2>1. Described(w, o) /\ m.empties[j].pos - 2 \in Nat \ {0}
    BY InGapDescribes
  <2> HIDE DEF o
  <2> QED BY <2>1 DEF Described
<1> DEFINE q == m.empties[j].pos
           x1 == [pos |-> q + 1, size |-> s]
           k1 == <<2, j>>
           E == Len(m.empties)
           Up(i) == IF i < j THEN i ELSE i + 1
<1>3. k1 \in Ids(m) /\ Lo(m)[k1] = at /\ Hi(m)[k1] = q + (s + 1) + 1 /\ q \in Nat
  <2>1. /\ k1 \in Ids(m) /\ Lo(m)[k1] = m.empties[j].pos - 2
        /\ Hi(m)[k1] = m.empties[j].pos + m.empties[j].size + 1 /\ m.empties[j].pos \in Nat
    BY <1>1, Segments
  <2> QED BY <2>1
<1>4. Hi(m)[k1] = at + s + 4 /\ q + 1 = at + 3
  <2>1. at = q - 2
    OBVIOUS
  <2> DEFINE h == Hi(m)[k1]
  <2>2. h = q + (s + 1) + 1 /\ q \in Nat
    BY <1>3
  <2> HIDE DEF q, k1, h
  <2>3. h = at + s + 4 /\ q + 1 = at + 3
    BY <2>1, <2>2, SMTT(30)
  <2> USE DEF q, k1, h
  <2> QED BY <2>3
<1>5. /\ w.files = [x \in DOMAIN m.files \cup {n} |-> IF x = n THEN x1 ELSE m.files[x]]
      /\ w.empties = RemoveAt(m.empties, j) /\ w.eoa = m.eoa
  BY <1>1 DEF MemOK, InGap, AddFile
<1>6. x1 = [pos |-> at + 3, size |-> s]
  <2> HIDE DEF q
  <2> QED BY <1>4
<1>7. E \in Nat \ {0} /\ Len(w.empties) = E - 1
      /\ \A i \in 1 .. E - 1 : w.empties[i] = m.empties[Up(i)] /\ Up(i) \in 1 .. E /\ Up(i) # j
  <2>1. /\ Len(w.empties) = Len(m.empties) - 1
        /\ \A i \in 1 .. Len(m.empties) - 1 :
             w.empties[i] = IF i < j THEN m.empties[i] ELSE m.empties[i + 1]
    BY <1>1, <1>5, RemoveAtIs DEF MemOK
  <2>2. E \in Nat \ {0}
    BY <1>1 DEF MemOK
  <2>3. j \in 1 .. E
    OBVIOUS
  <2> HIDE DEF E
  <2>4. \A i \in 1 .. E - 1 : Up(i) \in 1 .. E /\ Up(i) # j
    BY <2>2, <2>3
  <2> QED BY <2>1, <2>2, <2>4 DEF E
<1> HIDE DEF x1, q, Up
<1>8. ASSUME NEW k \in Ids(m), k # k1 PROVE Apart(Lo(m)[k], Hi(m)[k], at, s)
  <2>1. Hi(m)[k] < Lo(m)[k1] \/ Hi(m)[k1] < Lo(m)[k]
    BY <1>1, <1>3, <1>8 DEF Tiling
  <2> HIDE DEF k1
  <2> QED BY <1>3, <1>4, <2>1 DEF Apart
<1>9. at + s + 4 < m.eoa
  <2>1. Hi(m)[k1] < m.eoa
    BY <1>1, <1>3 DEF Tiling
  <2> HIDE DEF k1
  <2> QED BY <1>4, <2>1
<1>10. Rest(m, w, n, at, s)
  <2>1. DOMAIN w.files = DOMAIN m.files \cup {n} /\ w.files[n] = [pos |-> at + 3, size |-> s]
    BY <1>5, <1>6
  <2>2. ASSUME NEW x \in DOMAIN m.files
        PROVE  w.files[x] = m.files[x] /\ Apart(Lo(m)[<<1, x>>], Hi(m)[<<1, x>>], at, s)
    <3>1. <<1, x>> \in Ids(m) /\ <<1, x>> # k1
      BY DEF Ids
    <3> QED BY <1>5, <1>8, <3>1
  <2>3. ASSUME NEW i \in 1 .. Len(w.empties)
        PROVE  \E y \in 1 .. Len(m.empties) :
                 w.empties[i] = m.empties[y] /\ Apart(Lo(m)[<<2, y>>], Hi(m)[<<2, y>>], at, s)
    <3> DEFINE y == Up(i)
    <3>1. y \in 1 .. Len(m.empties) /\ y # j /\ w.empties[i] = m.empties[y]
      BY <1>7
    <3> HIDE DEF y
    <3>2. <<2, y>> \in Ids(m) /\ <<2, y>> # k1
      BY <3>1 DEF Ids
    <3>3. Apart(Lo(m)[<<2, y>>], Hi(m)[<<2, y>>], at, s)
      BY <1>8, <3>2
    <3> QED BY <3>1, <3>3
  <2> QED BY <2>1, <2>2, <2>3 DEF Rest
<1> QED BY <1>2, <1>5, <1>9, <1>10

(* The cells of a file, at least up to its size.                           *)
Begins(new, n, s) ==
  /\ IsList(new) /\ Len(new) \in 4 .. s + 5
  /\ new[1] = Start /\ new[2] = Len1(1) /\ new[3] = Str(n) /\ new[4] = Size(s)

(* All of them, or what a crash has left of them.                          *)
LEMMA FileBegins ==
  ASSUME NEW n, NEW v, NEW s \in Nat, NEW k \in 4 .. s + 5
  PROVE  Begins(FileCells(n, v, s), n, s) /\ Begins(SubSeq(FileCells(n, v, s), 1, k), n, s)
<1> DEFINE new == FileCells(n, v, s)
           o == SubSeq(new, 1, k)
<1>1. /\ IsList(new) /\ Len(new) = s + 5
      /\ new[1] = Start /\ new[2] = Len1(1) /\ new[3] = Str(n) /\ new[4] = Size(s)
  BY FileCellsAre
<1> HIDE DEF new
<1>2. IsList(o) /\ Len(o) = k /\ \A i \in 1 .. k : o[i] = new[i]
  <2>1. k \in 0 .. Len(new)
    BY <1>1
  <2> QED BY <1>1, <2>1, FirstCells
<1> HIDE DEF o
<1>3. 1 \in 1 .. k /\ 2 \in 1 .. k /\ 3 \in 1 .. k /\ 4 \in 1 .. k /\ s + 5 \in 4 .. s + 5
  OBVIOUS
<1>4. Begins(new, n, s) /\ Begins(o, n, s)
  BY <1>1, <1>2, <1>3 DEF Begins
<1> QED BY <1>4 DEF new, o

(* They are the header of the file.                                        *)
LEMMA BeginsHead ==
  ASSUME NEW c, IsList(c), NEW at \in Nat \ {0}, NEW n, NEW s \in Nat, NEW new, Begins(new, n, s),
         NEW o, o = Overwritten(c, at, new)
  PROVE  FileHead(o, [pos |-> at + 3, size |-> s], n)
<1>1. IsList(new) /\ Len(new) \in 4 .. s + 5
      /\ new[1] = Start /\ new[2] = Len1(1) /\ new[3] = Str(n) /\ new[4] = Size(s)
  BY DEF Begins
<1>2. \A i \in 1 .. Len(new) : o[at + i - 1] = new[i]
  BY <1>1, OverwrittenCells, SMTT(30)
<1>3. 1 \in 1 .. Len(new) /\ 2 \in 1 .. Len(new) /\ 3 \in 1 .. Len(new) /\ 4 \in 1 .. Len(new)
  <2> DEFINE l == Len(new)
  <2>1. l \in 4 .. s + 5
    BY <1>1
  <2> HIDE DEF l
  <2>2. 1 \in 1 .. l /\ 2 \in 1 .. l /\ 3 \in 1 .. l /\ 4 \in 1 .. l
    BY <2>1
  <2> QED BY <2>2 DEF l
<1>4. /\ at + 1 - 1 = (at + 3) - 3 /\ at + 2 - 1 = (at + 3) - 2
      /\ at + 3 - 1 = (at + 3) - 1 /\ at + 4 - 1 = at + 3
  OBVIOUS
<1>5. o[at + 1 - 1] = new[1] /\ o[at + 2 - 1] = new[2] /\ o[at + 3 - 1] = new[3] /\ o[at + 4 - 1] = new[4]
  BY <1>2, <1>3
<1>6. /\ o[(at + 3) - 3] = Start /\ o[(at + 3) - 2] = Len1(1)
      /\ o[(at + 3) - 1] = Str(n) /\ o[at + 3] = Size(s)
  BY <1>1, <1>4, <1>5
<1> QED BY <1>6 DEF FileHead

(* Both ways to add a file. *)
LEMMA AddsRest ==
  ASSUME NEW m, NEW c, Described(m, c), NEW n \in Name, n \notin DOMAIN m.files, NEW s \in Nat,
         NEW at, NEW w, Adds(m, w, n, at, s)
  PROVE  /\ Rest(m, w, n, at, s) /\ at \in Nat \ {0}
         /\ MemOK(w) /\ Tiling(Ids(w), Lo(w), Hi(w), w.eoa)
         /\ \/ at = m.eoa /\ w.empties = m.empties /\ w.eoa = at + s + 5
            \/ /\ w.eoa = m.eoa
               /\ \E j \in 1 .. Len(m.empties) : at = m.empties[j].pos - 2
<1>1. CASE at = m.eoa /\ w = AtEnd(m, n, s)
  <2>1. /\ Rest(m, w, n, m.eoa, s) /\ w.empties = m.empties /\ w.eoa = m.eoa + s + 5
        /\ MemOK(w) /\ Tiling(Ids(w), Lo(w), Hi(w), w.eoa)
    BY <1>1, AtEndRest
  <2>2. m.eoa \in Nat \ {0}
    BY DEF Described, MemOK
  <2> QED BY <1>1, <2>1, <2>2
<1>2. CASE \E j \in 1 .. Len(m.empties) :
             m.empties[j].size = s + 1 /\ at = m.empties[j].pos - 2 /\ w = InGap(m, n, j, s)
  <2>1. PICK j \in 1 .. Len(m.empties) :
             m.empties[j].size = s + 1 /\ at = m.empties[j].pos - 2 /\ w = InGap(m, n, j, s)
    BY <1>2
  <2>2. /\ Rest(m, w, n, at, s) /\ w.eoa = m.eoa /\ at \in Nat \ {0}
        /\ MemOK(w) /\ Tiling(Ids(w), Lo(w), Hi(w), w.eoa)
    <3> DEFINE b == m.empties[j].pos - 2
               u == InGap(m, n, j, s)
    <3>1. j \in 1 .. Len(m.empties) /\ m.empties[j].size = s + 1
      BY <2>1
    <3>2. /\ Rest(m, u, n, b, s) /\ u.eoa = m.eoa /\ b \in Nat \ {0}
          /\ MemOK(u) /\ Tiling(Ids(u), Lo(u), Hi(u), u.eoa)
      BY <3>1, InGapRest
    <3>3. at = b /\ w = u
      BY <2>1
    <3> HIDE DEF b, u
    <3> QED BY <3>2, <3>3
  <2> QED BY <2>1, <2>2
<1> QED BY <1>1, <1>2 DEF Adds

(* What is written of the file touches no other segment.                   *)
LEMMA ApartStays ==
  ASSUME NEW m, NEW c, Described(m, c), NEW at \in Nat \ {0}, NEW s \in Nat,
         NEW new, IsList(new), Len(new) <= s + 5, NEW o, o = Overwritten(c, at, new),
         NEW k \in Ids(m), Apart(Lo(m)[k], Hi(m)[k], at, s)
  PROVE  \A i \in Lo(m)[k] .. Hi(m)[k] : o[i] = c[i]
<1>1. Hi(m)[k] < at \/ Lo(m)[k] > at + Len(new) - 1
  <2> DEFINE l == Len(new)
             a == Lo(m)[k]
  <2>1. l \in Nat /\ l <= s + 5 /\ a \in Nat
    BY DEF IsList, Described, Tiling
  <2>2. Hi(m)[k] < at \/ at + s + 4 < a
    BY DEF Apart
  <2> HIDE DEF l, a
  <2>3. at + s + 4 < a => a > at + l - 1
    BY <2>1
  <2> QED BY <2>2, <2>3 DEF l, a
<1> QED BY <1>1, Beside

(* The headers of all segments are there when the file's is, too.          *)
LEMMA AddHeaded ==
  ASSUME NEW m, NEW c, Described(m, c), Headed(m, c), NEW n \in Name, n \notin DOMAIN m.files, NEW s \in Nat,
         NEW at, NEW w, Adds(m, w, n, at, s), NEW new, Begins(new, n, s),
         NEW o, o = Overwritten(c, at, new)
  PROVE  /\ Headed(w, o) /\ IsList(o) /\ Len(o) \in Nat /\ Len(o) >= Len(c)
         /\ \A x \in DOMAIN m.files :
              /\ w.files[x] = m.files[x]
              /\ \A i \in Lo(m)[<<1, x>>] .. Hi(m)[<<1, x>>] : o[i] = c[i]
<1>1. Rest(m, w, n, at, s) /\ at \in Nat \ {0}
  BY AddsRest
<1>2. IsList(new) /\ Len(new) <= s + 5 /\ IsList(c) /\ MemOK(m)
  BY DEF Begins, Described
<1>3. IsList(o) /\ Len(o) \in Nat /\ Len(o) >= Len(c)
  BY <1>1, <1>2, OverwrittenCells
<1>4. /\ DOMAIN w.files = DOMAIN m.files \cup {n} /\ w.files[n] = [pos |-> at + 3, size |-> s]
      /\ \A x \in DOMAIN m.files : /\ w.files[x] = m.files[x]
                                   /\ Apart(Lo(m)[<<1, x>>], Hi(m)[<<1, x>>], at, s)
      /\ \A i \in 1 .. Len(w.empties) :
           \E j \in 1 .. Len(m.empties) :
             w.empties[i] = m.empties[j] /\ Apart(Lo(m)[<<2, j>>], Hi(m)[<<2, j>>], at, s)
  BY <1>1 DEF Rest
<1>5. ASSUME NEW x \in DOMAIN m.files
      PROVE  w.files[x] = m.files[x] /\ \A i \in Lo(m)[<<1, x>>] .. Hi(m)[<<1, x>>] : o[i] = c[i]
  <2>1. <<1, x>> \in Ids(m) /\ Apart(Lo(m)[<<1, x>>], Hi(m)[<<1, x>>], at, s)
    BY <1>4 DEF Ids
  <2> DEFINE k == <<1, x>>
  <2>2. k \in Ids(m) /\ Apart(Lo(m)[k], Hi(m)[k], at, s)
    BY <2>1
  <2> HIDE DEF k
  <2>3. \A i \in Lo(m)[k] .. Hi(m)[k] : o[i] = c[i]
    BY <1>1, <1>2, <2>2, ApartStays
  <2> QED BY <1>4, <2>3 DEF k
<1>6. ASSUME NEW x \in DOMAIN w.files PROVE FileHead(o, w.files[x], x)
  <2>1. CASE x = n
    BY <1>1, <1>2, <1>4, <2>1, BeginsHead
  <2>2. CASE x # n
    <3>1. x \in DOMAIN m.files
      BY <1>4, <2>2
    <3>2. FileHead(c, m.files[x], x)
      BY <3>1 DEF Headed
    <3>3. FileHead(o, m.files[x], x)
      BY <1>2, <1>5, <3>1, <3>2, HeadStays
    <3> QED BY <1>5, <3>1, <3>3
  <2> QED BY <2>1, <2>2
<1>7. ASSUME NEW i \in 1 .. Len(w.empties) PROVE GapHead(o, w.empties[i])
  <2>1. PICK j \in 1 .. Len(m.empties) :
             w.empties[i] = m.empties[j] /\ Apart(Lo(m)[<<2, j>>], Hi(m)[<<2, j>>], at, s)
    BY <1>4
  <2> DEFINE k == <<2, j>>
  <2>2. k \in Ids(m) /\ Apart(Lo(m)[k], Hi(m)[k], at, s)
    BY <2>1 DEF Ids
  <2> HIDE DEF k
  <2>3. \A y \in Lo(m)[k] .. Hi(m)[k] : o[y] = c[y]
    BY <1>1, <1>2, <2>2, ApartStays
  <2>4. \A y \in Lo(m)[<<2, j>>] .. Hi(m)[<<2, j>>] : o[y] = c[y]
    BY <2>3 DEF k
  <2>5. GapHead(c, m.empties[j])
    BY DEF Headed
  <2>6. GapHead(o, m.empties[j])
    BY <1>2, <2>4, <2>5, HeadStays
  <2> QED BY <2>1, <2>6
<1>8. Headed(w, o)
  BY <1>6, <1>7 DEF Headed
<1> QED BY <1>3, <1>5, <1>8

(* So the scan finds the other files, even when the file is not complete.  *)
LEMMA AddFound ==
  ASSUME NEW m, NEW c, Described(m, c), Headed(m, c), NEW n \in Name, n \notin DOMAIN m.files, NEW s \in Nat,
         NEW at, NEW w, Adds(m, w, n, at, s), NEW new, Begins(new, n, s),
         NEW o, o = Overwritten(c, at, new), NEW x \in DOMAIN m.files
  PROVE  Found(o, m.files[x], x)
<1>1. /\ Headed(w, o) /\ IsList(o) /\ Len(o) \in Nat /\ Len(o) >= Len(c)
      /\ w.files[x] = m.files[x] /\ x \in DOMAIN w.files
  <2>1. /\ Headed(w, o) /\ IsList(o) /\ Len(o) \in Nat /\ Len(o) >= Len(c) /\ w.files[x] = m.files[x]
    <3>1. Headed(w, o) /\ IsList(o) /\ Len(o) \in Nat /\ Len(o) >= Len(c)
      BY AddHeaded
    <3>2. \A y \in DOMAIN m.files : w.files[y] = m.files[y]
      <4>1. Rest(m, w, n, at, s)
        BY AddsRest
      <4> QED BY <4>1 DEF Rest
    <3> QED BY <3>1, <3>2
  <2>2. Rest(m, w, n, at, s)
    BY AddsRest
  <2> QED BY <2>1, <2>2 DEF Rest
<1>2. /\ MemOK(m) /\ IsList(c) /\ m.eoa <= Len(c) + 1 /\ m.eoa \in Nat
      /\ Tiling(Ids(m), Lo(m), Hi(m), m.eoa)
  BY DEF Described, MemOK
<1>3. m.eoa <= Len(o) + 1
  <2>1. Len(c) \in Nat
    BY <1>2 DEF IsList
  <2> QED BY <1>1, <1>2, <2>1
<1>4. /\ at \in Nat \ {0} /\ MemOK(w) /\ Tiling(Ids(w), Lo(w), Hi(w), w.eoa)
      /\ (at = m.eoa \/ w.eoa = m.eoa)
  BY AddsRest
<1>5. CASE at = m.eoa
  <2>1. IsList(new) /\ at >= m.eoa
    BY <1>2, <1>5 DEF Begins
  <2>2. \A k \in Ids(m) : \A i \in Lo(m)[k] .. Hi(m)[k] : o[i] = c[i]
    BY <1>4, <2>1, WrittenBehind
  <2>3. Headed(m, o)
    BY <1>2, <2>2, HeadsStay
  <2> QED BY <1>2, <1>3, <2>3, HeadedFound
<1>6. CASE w.eoa = m.eoa
  <2>1. Found(o, w.files[x], x)
    BY <1>1, <1>3, <1>4, <1>6, HeadedFound
  <2> QED BY <1>1, <2>1
<1> QED BY <1>4, <1>5, <1>6

(* When the cells of the file happen to be there already, the scan finds    *)
(* the file before it is written, and whatever is written of it.           *)
LEMMA OwnFound ==
  ASSUME NEW m, NEW c, Described(m, c), Headed(m, c), NEW n \in Name, n \notin DOMAIN m.files, NEW s \in Nat,
         NEW at, NEW w, Adds(m, w, n, at, s), FileHead(c, w.files[n], n), at + s + 4 <= Len(c),
         NEW new, Begins(new, n, s), NEW o, o = Overwritten(c, at, new)
  PROVE  Found(c, w.files[n], n) /\ Found(o, w.files[n], n)
<1>1. /\ Rest(m, w, n, at, s) /\ at \in Nat \ {0} /\ MemOK(w) /\ Tiling(Ids(w), Lo(w), Hi(w), w.eoa)
      /\ \/ at = m.eoa /\ w.empties = m.empties /\ w.eoa = at + s + 5
         \/ /\ w.eoa = m.eoa
            /\ \E j \in 1 .. Len(m.empties) : at = m.empties[j].pos - 2
  BY AddsRest
<1>2. /\ DOMAIN w.files = DOMAIN m.files \cup {n} /\ w.files[n] = [pos |-> at + 3, size |-> s]
      /\ \A x \in DOMAIN m.files : w.files[x] = m.files[x]
  BY <1>1 DEF Rest
<1>3. MemOK(m) /\ IsList(c) /\ m.eoa <= Len(c) + 1 /\ m.eoa \in Nat
  BY DEF Described, MemOK
<1>4. c[at + 1] = Len1(1)
  <2>1. c[(at + 3) - 2] = Len1(1)
    BY <1>2 DEF FileHead
  <2>2. (at + 3) - 2 = at + 1
    BY <1>1
  <2> QED BY <2>1, <2>2
<1>5. at = m.eoa /\ w.empties = m.empties /\ w.eoa = at + s + 5
  <2> SUFFICES ASSUME NEW j \in 1 .. Len(m.empties), at = m.empties[j].pos - 2 PROVE FALSE
    BY <1>1
  <2>1. c[m.empties[j].pos - 1] = Len1(0)
    BY DEF Headed, GapHead
  <2>2. m.empties[j].pos - 1 = at + 1
    <3> DEFINE q == m.empties[j].pos
    <3>1. q \in Nat /\ at = q - 2
      BY <1>3, Segments
    <3> HIDE DEF q
    <3>2. q - 1 = at + 1
      BY <1>1, <3>1
    <3> QED BY <3>2 DEF q
  <2>3. Len1(0) # Len1(1)
    BY DEF Len1
  <2> QED BY <1>4, <2>1, <2>2, <2>3
<1>6. w.eoa <= Len(c) + 1 /\ Len(c) \in Nat
  <2>1. Len(c) \in Nat
    BY <1>3 DEF IsList
  <2> QED BY <1>1, <1>5, <2>1
<1>7. Headed(w, c)
  BY <1>2, <1>5 DEF Headed
<1>8. Headed(w, o) /\ Len(o) \in Nat /\ Len(o) >= Len(c)
  BY AddHeaded
<1>9. w.eoa <= Len(o) + 1 /\ n \in DOMAIN w.files
  <2>1. w.eoa \in Nat
    BY <1>1 DEF MemOK
  <2> QED BY <1>2, <1>6, <1>8, <2>1
<1>10. Found(c, w.files[n], n)
  BY <1>1, <1>6, <1>7, <1>9, HeadedFound
<1>11. Found(o, w.files[n], n)
  BY <1>1, <1>8, <1>9, HeadedFound
<1> QED BY <1>10, <1>11

-----------------------------------------------------------------------------
(* What a crash leaves.                                                    *)

(* The cells c may be in the file d when the process dies while it writes  *)
(* the runs.                                                               *)
Leaves(d, runs, c) ==
  \/ \E k \in 0 .. Len(runs) : c = ApplyAll(d, SubSeq(runs, 1, k)).cells
  \/ \E k \in 0 .. Len(runs) - 1 :
       \E t \in Torn(runs[k + 1]) : c = Apply(ApplyAll(d, SubSeq(runs, 1, k)), t).cells

(* So it is with a crash.                                                   *)
LEMMA CrashLeaves ==
  ASSUME NEW runs, CrashDuring(runs), Len(pending \o runs) \in Nat
  PROVE  Leaves(disk, pending \o runs, disk'.cells)
<1> DEFINE all == pending \o runs
           n == Len(all)
<1>1. PICK k \in 0 .. n :
        \/ disk' = ApplyAll(disk, SubSeq(all, 1, k))
        \/ k < n /\ \E t \in Torn(all[k + 1]) : disk' = Apply(ApplyAll(disk, SubSeq(all, 1, k)), t)
  BY DEF CrashDuring
<1>2. n \in Nat
  OBVIOUS
<1> HIDE DEF n, all
<1>3. CASE disk' = ApplyAll(disk, SubSeq(all, 1, k))
  <2>1. \E j \in 0 .. n : disk'.cells = ApplyAll(disk, SubSeq(all, 1, j)).cells
    BY <1>3
  <2> QED BY <2>1 DEF Leaves, n, all
<1>4. CASE k < n /\ \E t \in Torn(all[k + 1]) : disk' = Apply(ApplyAll(disk, SubSeq(all, 1, k)), t)
  <2>1. PICK t \in Torn(all[k + 1]) : disk' = Apply(ApplyAll(disk, SubSeq(all, 1, k)), t)
    BY <1>4
  <2>2. k \in 0 .. n - 1
    BY <1>2, <1>4
  <2>3. \E j \in 0 .. n - 1 :
          \E u \in Torn(all[j + 1]) : disk'.cells = Apply(ApplyAll(disk, SubSeq(all, 1, j)), u).cells
    BY <2>1, <2>2
  <2> QED BY <2>3 DEF Leaves, n, all
<1> QED BY <1>1, <1>3, <1>4

(* The first runs of a concatenation.                                      *)
LEMMA FirstOfBoth ==
  ASSUME NEW p, NEW q, IsList(p), IsList(q), Len(p) + Len(q) \in 0 .. 4
  PROVE  /\ Len(p \o q) = Len(p) + Len(q) /\ Len(p) \in Nat /\ Len(q) \in Nat
         /\ \A k \in 0 .. Len(p) : SubSeq(p \o q, 1, k) = SubSeq(p, 1, k)
         /\ \A i \in 1 .. Len(p) : (p \o q)[i] = p[i]
         /\ \A j \in 0 .. Len(q) :
              \A d : ApplyAll(d, SubSeq(p \o q, 1, Len(p) + j)) = ApplyAll(ApplyAll(d, p), SubSeq(q, 1, j))
         /\ \A i \in 1 .. Len(q) : (p \o q)[Len(p) + i] = q[i]
<1> DEFINE u == p \o q
           a == Len(p)
           b == Len(q)
<1>1. /\ IsList(u) /\ a \in Nat /\ b \in Nat /\ Len(u) = a + b
      /\ \A i \in 1 .. a : u[i] = p[i]
      /\ \A i \in 1 .. b : u[a + i] = q[i]
  BY ConcatCells
<1>2. a + b \in 0 .. 4
  OBVIOUS
<1>3. IsList(p) /\ IsList(q) /\ a = Len(p) /\ b = Len(q)
  OBVIOUS
<1> HIDE DEF a, b, u
<1>4. ASSUME NEW k \in 0 .. a PROVE SubSeq(u, 1, k) = SubSeq(p, 1, k)
  <2> DEFINE x == SubSeq(u, 1, k)
             y == SubSeq(p, 1, k)
  <2>1. IsList(x) /\ Len(x) = k /\ \A i \in 1 .. k : x[i] = u[i]
    <3>1. k \in 0 .. Len(u)
      BY <1>1
    <3> QED BY <1>1, <3>1, FirstCells
  <2>2. IsList(y) /\ Len(y) = k /\ \A i \in 1 .. k : y[i] = p[i]
    BY <1>3, FirstCells
  <2> HIDE DEF x, y
  <2>3. x = [i \in 1 .. k |-> x[i]] /\ y = [i \in 1 .. k |-> y[i]]
    BY <2>1, <2>2 DEF IsList
  <2>4. \A i \in 1 .. k : x[i] = y[i]
    BY <1>1, <2>1, <2>2
  <2>5. x = y
    BY <2>3, <2>4
  <2> QED BY <2>5 DEF x, y
<1>5. ASSUME NEW j \in 0 .. b, NEW d
      PROVE  ApplyAll(d, SubSeq(u, 1, a + j)) = ApplyAll(ApplyAll(d, p), SubSeq(q, 1, j))
  <2> DEFINE x == SubSeq(u, 1, a + j)
             y == SubSeq(q, 1, j)
             z == p \o y
  <2>1. IsList(x) /\ Len(x) = a + j /\ \A i \in 1 .. a + j : x[i] = u[i]
    <3>1. a + j \in 0 .. Len(u)
      BY <1>1
    <3> QED BY <1>1, <3>1, FirstCells
  <2>2. IsList(y) /\ Len(y) = j /\ \A i \in 1 .. j : y[i] = q[i]
    BY <1>3, FirstCells
  <2> HIDE DEF x, y
  <2>3. /\ IsList(z) /\ Len(z) = a + j
        /\ \A i \in 1 .. a : z[i] = p[i]
        /\ \A i \in 1 .. j : z[a + i] = y[i]
    <3>1. IsList(p) /\ IsList(y)
      BY <1>3, <2>2
    <3>2. /\ IsList(p \o y) /\ Len(p \o y) = Len(p) + Len(y)
          /\ \A i \in 1 .. Len(p) : (p \o y)[i] = p[i]
          /\ \A i \in 1 .. Len(y) : (p \o y)[Len(p) + i] = y[i]
      BY <3>1, ConcatCells
    <3> QED BY <1>3, <2>2, <3>2
  <2>4. ApplyAll(d, z) = ApplyAll(ApplyAll(d, p), y)
    <3>1. Len(p) + Len(y) \in 0 .. 4
      BY <1>1, <1>2, <1>3, <2>2
    <3>2. IsList(p) /\ IsList(y)
      BY <1>3, <2>2
    <3> QED BY <3>1, <3>2, ApplyConcat
  <2> HIDE DEF z
  <2>5. ASSUME NEW i \in 1 .. a + j PROVE x[i] = z[i]
    <3>1. CASE i <= a
      <4>1. i \in 1 .. a
        BY <1>1, <3>1
      <4> QED BY <1>1, <2>1, <2>3, <4>1
    <3>2. CASE i > a
      <4> DEFINE h == i - a
      <4>1. h \in 1 .. j /\ h \in 1 .. b /\ i = a + h
        BY <1>1, <3>2
      <4> HIDE DEF h
      <4>2. x[i] = u[i]
        BY <2>1
      <4> QED BY <1>1, <2>2, <2>3, <4>1, <4>2
    <3> QED BY <1>1, <3>1, <3>2
  <2>6. x = z
    <3>1. x = [i \in 1 .. a + j |-> x[i]] /\ z = [i \in 1 .. a + j |-> z[i]]
      BY <2>1, <2>3 DEF IsList
    <3> QED BY <2>5, <3>1
  <2> QED BY <2>4, <2>6 DEF x, y
<1> QED BY <1>1, <1>4, <1>5 DEF a, b, u

(* A crash while p and q are written happens while p is or while q is.     *)
LEMMA LeavesOn ==
  ASSUME NEW d, NEW p, NEW q, IsList(p), IsList(q), Len(p) + Len(q) \in 0 .. 4, NEW c, Leaves(d, p \o q, c)
  PROVE  Leaves(d, p, c) \/ Leaves(ApplyAll(d, p), q, c)
<1> DEFINE u == p \o q
           a == Len(p)
           b == Len(q)
           e == ApplyAll(d, p)
<1>1. /\ Len(u) = a + b /\ a \in Nat /\ b \in Nat
      /\ \A k \in 0 .. a : SubSeq(u, 1, k) = SubSeq(p, 1, k)
      /\ \A i \in 1 .. a : u[i] = p[i]
      /\ \A j \in 0 .. b : ApplyAll(d, SubSeq(u, 1, a + j)) = ApplyAll(e, SubSeq(q, 1, j))
      /\ \A i \in 1 .. b : u[a + i] = q[i]
  BY FirstOfBoth
<1>2. Leaves(d, u, c)
  OBVIOUS
<1> HIDE DEF u, a, b, e
<1>3. ASSUME NEW k \in 0 .. a + b, c = ApplyAll(d, SubSeq(u, 1, k)).cells
      PROVE  Leaves(d, p, c) \/ Leaves(e, q, c)
  <2>1. CASE k <= a
    <3>1. k \in 0 .. a
      BY <1>1, <2>1
    <3>2. c = ApplyAll(d, SubSeq(p, 1, k)).cells
      BY <1>1, <1>3, <3>1
    <3> QED BY <3>1, <3>2 DEF Leaves, a
  <2>2. CASE k > a
    <3> DEFINE j == k - a
    <3>1. j \in 0 .. b /\ k = a + j
      BY <1>1, <2>2
    <3> HIDE DEF j
    <3>2. c = ApplyAll(e, SubSeq(q, 1, j)).cells
      BY <1>1, <1>3, <3>1
    <3> QED BY <3>1, <3>2 DEF Leaves, b
  <2> QED BY <1>1, <2>1, <2>2
<1>4. ASSUME NEW k \in 0 .. (a + b) - 1, NEW t \in Torn(u[k + 1]), c = Apply(ApplyAll(d, SubSeq(u, 1, k)), t).cells
      PROVE  Leaves(d, p, c) \/ Leaves(e, q, c)
  <2>1. CASE k < a
    <3>1. k \in 0 .. a /\ k \in 0 .. a - 1 /\ k + 1 \in 1 .. a
      BY <1>1, <2>1
    <3>2. t \in Torn(p[k + 1]) /\ c = Apply(ApplyAll(d, SubSeq(p, 1, k)), t).cells
      BY <1>1, <1>4, <3>1
    <3> QED BY <3>1, <3>2 DEF Leaves, a
  <2>2. CASE k >= a
    <3> DEFINE j == k - a
    <3>1. j \in 0 .. b /\ j \in 0 .. b - 1 /\ k = a + j /\ j + 1 \in 1 .. b /\ k + 1 = a + (j + 1)
      <4>1. \A x, y, z \in Int : z \in 0 .. (x + y) - 1 /\ z >= x =>
               /\ z - x \in 0 .. y /\ z - x \in 0 .. y - 1 /\ z = x + (z - x)
               /\ (z - x) + 1 \in 1 .. y /\ z + 1 = x + ((z - x) + 1)
        OBVIOUS
      <4>2. k \in Int /\ a \in Int /\ b \in Int
        BY <1>1
      <4> QED BY <2>2, <4>1, <4>2
    <3> HIDE DEF j
    <3>2. u[k + 1] = q[j + 1]
      BY <1>1, <3>1
    <3>3. t \in Torn(q[j + 1]) /\ c = Apply(ApplyAll(e, SubSeq(q, 1, j)), t).cells
      BY <1>1, <1>4, <3>1, <3>2
    <3> QED BY <3>1, <3>3 DEF Leaves, b
  <2> QED BY <1>1, <2>1, <2>2
<1>5. Leaves(d, p, c) \/ Leaves(e, q, c)
  BY <1>1, <1>2, <1>3, <1>4 DEF Leaves
<1> QED BY <1>5 DEF e

(* No run, or one.                                                         *)
LEMMA LeavesNone ==
  ASSUME NEW d, NEW c, Leaves(d, <<>>, c)
  PROVE  c = d.cells
<1> DEFINE r == <<>>
<1>1. Len(r) = 0 /\ IsList(r)
  BY DEF IsList
<1>2. Leaves(d, r, c)
  OBVIOUS
<1>3. ApplyAll(d, r) = d
  BY ApplyNone
<1>4. \A s : IsList(s) /\ Len(s) = 0 => s = r
  BY DEF IsList
<1> HIDE DEF r
<1>5. ASSUME NEW k \in 0 .. Len(r) PROVE SubSeq(r, 1, k) = r
  <2> DEFINE s == SubSeq(r, 1, k)
  <2>1. IsList(s) /\ Len(s) = k
    BY <1>1, FirstCells
  <2>3. k = 0
    BY <1>1
  <2> HIDE DEF s
  <2>2. s = r
    BY <1>4, <2>1, <2>3
  <2> QED BY <2>2 DEF s
<1>6. \A k \in 0 .. Len(r) - 1 : FALSE
  BY <1>1
<1> QED BY <1>2, <1>3, <1>5, <1>6 DEF Leaves

(* A run: it is there, or not, or torn.                                     *)
LEMMA LeavesOne ==
  ASSUME NEW d, NEW r, NEW c, Leaves(d, <<r>>, c)
  PROVE  c = d.cells \/ c = Apply(d, r).cells \/ \E t \in Torn(r) : c = Apply(d, t).cells
<1> DEFINE q == <<r>>
<1>1. Len(q) = 1 /\ IsList(q) /\ q[1] = r
  BY DEF IsList
<1>2. Leaves(d, q, c)
  OBVIOUS
<1>3. ApplyAll(d, q) = Apply(d, r)
  BY ApplyOne
<1>4. \A s : IsList(s) /\ Len(s) = 0 => ApplyAll(d, s) = d
  <2>1. \A s : IsList(s) /\ Len(s) = 0 => s = <<>>
    BY DEF IsList
  <2> QED BY <2>1, ApplyNone
<1>5. \A s : IsList(s) /\ Len(s) = 1 /\ s[1] = r => s = q
  BY DEF IsList
<1> HIDE DEF q
<1>6. ApplyAll(d, SubSeq(q, 1, 0)) = d
  <2> DEFINE s == SubSeq(q, 1, 0)
  <2>1. IsList(s) /\ Len(s) = 0
    <3>1. 0 \in 0 .. Len(q)
      BY <1>1
    <3> QED BY <1>1, <3>1, FirstCells
  <2> HIDE DEF s
  <2>2. ApplyAll(d, s) = d
    BY <1>4, <2>1
  <2> QED BY <2>2 DEF s
<1>7. ApplyAll(d, SubSeq(q, 1, 1)) = Apply(d, r)
  <2> DEFINE s == SubSeq(q, 1, 1)
  <2>1. IsList(s) /\ Len(s) = 1 /\ s[1] = q[1]
    <3>1. 1 \in 0 .. Len(q) /\ 1 \in 1 .. 1
      BY <1>1
    <3>2. IsList(s) /\ Len(s) = 1 /\ \A i \in 1 .. 1 : s[i] = q[i]
      BY <1>1, <3>1, FirstCells
    <3> QED BY <3>1, <3>2
  <2> HIDE DEF s
  <2>2. ApplyAll(d, s) = Apply(d, r)
    BY <1>1, <1>3, <1>5, <2>1
  <2> QED BY <2>2 DEF s
<1>8. ASSUME NEW k \in 0 .. Len(q), c = ApplyAll(d, SubSeq(q, 1, k)).cells
      PROVE  c = d.cells \/ c = Apply(d, r).cells
  <2>1. k = 0 \/ k = 1
    BY <1>1
  <2> QED BY <1>6, <1>7, <1>8, <2>1
<1>9. ASSUME NEW k \in 0 .. Len(q) - 1, NEW t \in Torn(q[k + 1]), c = Apply(ApplyAll(d, SubSeq(q, 1, k)), t).cells
      PROVE  t \in Torn(r) /\ c = Apply(d, t).cells
  <2>1. k = 0 /\ k + 1 = 1
    BY <1>1
  <2> QED BY <1>1, <1>6, <1>9, <2>1
<1> QED BY <1>2, <1>8, <1>9 DEF Leaves

(* Clearing the flag changes no cell.                                      *)
LEMMA LeavesClear ==
  ASSUME NEW d, DiskOK(d), NEW m, NEW c, Leaves(d, ClearFlag(m), c)
  PROVE  c = d.cells
<1>1. CASE m.changed
  <2>1. ClearFlag(m) = <<>>
    BY <1>1 DEF ClearFlag
  <2> QED BY <2>1, LeavesNone
<1>2. CASE ~m.changed
  <2>1. ClearFlag(m) = <<FlagRun(0)>>
    BY <1>2 DEF ClearFlag
  <2>2. Apply(d, FlagRun(0)).cells = d.cells
    BY ApplyIs
  <2>3. Torn(FlagRun(0)) = {}
    <3>1. "cells" \notin DOMAIN FlagRun(0)
      BY DEF FlagRun
    <3> QED BY <3>1 DEF Torn, HasPayload
  <2>4. Leaves(d, <<FlagRun(0)>>, c)
    BY <2>1
  <2> QED BY <2>2, <2>3, <2>4, LeavesOne
<1> QED BY <1>1, <1>2

(* Writing cells from the position at on.                                  *)
LEMMA LeavesCells ==
  ASSUME NEW d, DiskOK(d), NEW at, NEW new, NEW c, Leaves(d, <<Run(at, new)>>, c)
  PROVE  \/ c = d.cells \/ c = Overwritten(d.cells, at, new)
         \/ \E k \in 1 .. Len(new) : "data" \in DOMAIN new[k] /\ c = Overwritten(d.cells, at, SubSeq(new, 1, k))
<1> DEFINE r == Run(at, new)
<1>1. DOMAIN r = {"at", "cells"} /\ r.at = at /\ r.cells = new
  BY DEF Run
<1>2. Apply(d, r).cells = Overwritten(d.cells, at, new)
  BY ApplyIs
<1>3. ASSUME NEW t \in Torn(r), c = Apply(d, t).cells
      PROVE  \E k \in 1 .. Len(new) : "data" \in DOMAIN new[k] /\ c = Overwritten(d.cells, at, SubSeq(new, 1, k))
  <2>1. PICK k \in 1 .. Len(r.cells) : "data" \in DOMAIN r.cells[k] /\ t = [r EXCEPT !.cells = SubSeq(@, 1, k)]
    BY <1>3 DEF Torn
  <2>2. t = Run(at, SubSeq(new, 1, k))
    BY <1>1, <2>1 DEF Run
  <2>3. Apply(d, t).cells = Overwritten(d.cells, at, SubSeq(new, 1, k))
    BY <2>2, ApplyIs
  <2> QED BY <1>1, <1>3, <2>1, <2>3
<1> HIDE DEF r
<1>4. c = d.cells \/ c = Apply(d, r).cells \/ \E t \in Torn(r) : c = Apply(d, t).cells
  BY LeavesOne DEF r
<1> QED BY <1>2, <1>3, <1>4

(* No cell but a file's data holds data.                                   *)
LEMMA DataCells ==
  /\ "data" \notin DOMAIN Start /\ "data" \notin DOMAIN End
  /\ \A x : "data" \notin DOMAIN Len1(x) /\ "data" \notin DOMAIN Str(x) /\ "data" \notin DOMAIN Size(x)
  /\ \A x : /\ "data" \notin DOMAIN [count |-> x] /\ "data" \notin DOMAIN [ecount |-> x]
            /\ "data" \notin DOMAIN [file |-> x] /\ "data" \notin DOMAIN [empty |-> x]
            /\ "data" \notin DOMAIN [table |-> x]
BY DEF Start, End, Len1, Str, Size

(* Writing a file: nothing of it is there, or all up to its size.          *)
LEMMA LeavesFile ==
  ASSUME NEW d, DiskOK(d), NEW at \in Nat \ {0}, NEW n, NEW v, NEW s \in Nat,
         NEW c, Leaves(d, <<Run(at, FileCells(n, v, s))>>, c), c # d.cells
  PROVE  \E b : /\ Begins(b, n, s) /\ c = Overwritten(d.cells, at, b)
                /\ \A i \in 1 .. Len(d.cells) :
                     c[i] = d.cells[i] \/ c[i] = Overwritten(d.cells, at, FileCells(n, v, s))[i]
<1> DEFINE new == FileCells(n, v, s)
           o == Overwritten(d.cells, at, new)
<1>1. /\ IsList(new) /\ Len(new) = s + 5
      /\ new[1] = Start /\ new[2] = Len1(1) /\ new[3] = Str(n) /\ new[4] = Size(s) /\ new[s + 5] = End
  BY FileCellsAre
<1>2. \/ c = o
      \/ \E k \in 1 .. Len(new) : "data" \in DOMAIN new[k] /\ c = Overwritten(d.cells, at, SubSeq(new, 1, k))
  BY LeavesCells
<1>3. \A k \in 4 .. s + 5 : Begins(new, n, s) /\ Begins(SubSeq(new, 1, k), n, s)
  BY FileBegins
<1> HIDE DEF new
<1>4. CASE c = o
  <2>1. 4 \in 4 .. s + 5
    OBVIOUS
  <2>2. Begins(new, n, s)
    BY <1>3, <2>1
  <2> HIDE DEF o
  <2>3. Begins(new, n, s) /\ c = Overwritten(d.cells, at, new) /\ \A i \in 1 .. Len(d.cells) : c[i] = o[i]
    BY <1>4, <2>2 DEF o
  <2> QED BY <2>3 DEF o, new
<1>5. CASE \E k \in 1 .. Len(new) : "data" \in DOMAIN new[k] /\ c = Overwritten(d.cells, at, SubSeq(new, 1, k))
  <2>1. PICK k \in 1 .. Len(new) : "data" \in DOMAIN new[k] /\ c = Overwritten(d.cells, at, SubSeq(new, 1, k))
    BY <1>5
  <2> DEFINE b == SubSeq(new, 1, k)
  <2>2. k # 1 /\ k # 2 /\ k # 3 /\ k # 4
    BY <1>1, <2>1, DataCells
  <2>3. k \in 4 .. s + 5
    BY <1>1, <2>2
  <2>4. Begins(b, n, s)
    BY <1>3, <2>3
  <2>5. IsList(b) /\ Len(b) = k /\ \A i \in 1 .. k : b[i] = new[i]
    <3>1. k \in 0 .. Len(new) /\ IsList(new) /\ b = SubSeq(new, 1, k)
      BY <1>1, <2>3
    <3> HIDE DEF b, new
    <3> QED BY <3>1, FirstCells
  <2>6. c = Overwritten(d.cells, at, b)
    BY <2>1
  <2> HIDE DEF b
  <2>7. IsList(d.cells)
    BY DEF DiskOK
  <2>8. /\ \A i \in 1 .. Len(b) : c[at + i - 1] = b[i]
        /\ \A i \in 1 .. Len(d.cells) : i < at \/ i > at + Len(b) - 1 => c[i] = d.cells[i]
    BY <2>5, <2>6, <2>7, OverwrittenCells, SMTT(30)
  <2>9. \A i \in 1 .. Len(new) : o[at + i - 1] = new[i]
    <3>1. o = Overwritten(d.cells, at, new) /\ at \in Nat \ {0} /\ IsList(new)
      BY <1>1
    <3> HIDE DEF o
    <3> QED BY ONLY <2>7, <3>1, OverwrittenCells
  <2>10. ASSUME NEW i \in 1 .. Len(d.cells) PROVE c[i] = d.cells[i] \/ c[i] = o[i]
    <3>1. i \in Int
      OBVIOUS
    <3>2. CASE i < at \/ i > at + k - 1
      BY <2>5, <2>8, <3>2
    <3>3. CASE i \in at .. at + k - 1
      <4> DEFINE j == i - at + 1
      <4>1. j \in 1 .. k /\ j \in 1 .. s + 5 /\ at + j - 1 = i
        BY <2>3, <3>3
      <4> HIDE DEF j, o
      <4>2. c[at + j - 1] = b[j] /\ b[j] = new[j] /\ o[at + j - 1] = new[j]
        BY <1>1, <2>5, <2>8, <2>9, <4>1
      <4> QED BY <4>1, <4>2
    <3> QED BY <2>3, <3>1, <3>2, <3>3
  <2> QED BY <2>4, <2>6, <2>10 DEF new
<1> QED BY <1>2, <1>4, <1>5

(* Marking a segment as empty.                                             *)
LEMMA LeavesMark ==
  ASSUME NEW d, DiskOK(d), NEW at, NEW x, NEW c, Leaves(d, <<Run(at, <<Len1(0), Size(x)>>)>>, c)
  PROVE  c = d.cells \/ c = Overwritten(d.cells, at, <<Len1(0), Size(x)>>)
<1> DEFINE new == <<Len1(0), Size(x)>>
<1>1. Len(new) = 2 /\ new[1] = Len1(0) /\ new[2] = Size(x)
  OBVIOUS
<1>2. \/ c = d.cells \/ c = Overwritten(d.cells, at, new)
      \/ \E k \in 1 .. Len(new) : "data" \in DOMAIN new[k] /\ c = Overwritten(d.cells, at, SubSeq(new, 1, k))
  BY LeavesCells
<1> HIDE DEF new
<1>3. \A k \in 1 .. Len(new) : "data" \notin DOMAIN new[k]
  <2>1. \A k \in 1 .. Len(new) : k = 1 \/ k = 2
    BY <1>1
  <2> QED BY <1>1, <2>1, DataCells
<1> QED BY <1>2, <1>3 DEF new

(* Writing the table.                                                      *)
LEMMA LeavesTable ==
  ASSUME NEW d, DiskOK(d), NEW m, MemOK(m), NEW c, Leaves(d, <<Run(m.eoa, TableCells(m))>>, c)
  PROVE  c = d.cells \/ c = Overwritten(d.cells, m.eoa, TableCells(m))
<1> DEFINE T == TableCells(m)
           names == SetToSeq(DOMAIN m.files)
           f == Len(names)
           e == Len(m.empties)
<1>1. /\ f \in Nat /\ e \in Nat /\ Len(T) = f + e + 3
      /\ T[1] = [count |-> f]
      /\ \A i \in 1 .. f : T[1 + i] = [file |-> <<names[i], m.files[names[i]].pos, m.files[names[i]].size>>]
      /\ T[f + 2] = [ecount |-> e]
      /\ \A i \in 1 .. e : T[f + 2 + i] = [empty |-> m.empties[i]]
      /\ T[f + e + 3] = [table |-> m.eoa]
  BY TableLayout DEF Layout
<1>2. \/ c = d.cells \/ c = Overwritten(d.cells, m.eoa, T)
      \/ \E k \in 1 .. Len(T) : "data" \in DOMAIN T[k] /\ c = Overwritten(d.cells, m.eoa, SubSeq(T, 1, k))
  BY LeavesCells
<1> HIDE DEF T, f, e, names
<1>3. ASSUME NEW k \in 1 .. Len(T) PROVE "data" \notin DOMAIN T[k]
  <2>1. k \in 1 .. f + e + 3
    BY <1>1
  <2>2. CASE k = 1 \/ k = f + 2 \/ k = f + e + 3
    BY <1>1, <2>2, DataCells
  <2>3. CASE k \in 2 .. f + 1
    <3> DEFINE i == k - 1
    <3>1. i \in 1 .. f /\ 1 + i = k
      BY <1>1, <2>3
    <3> HIDE DEF i
    <3> QED BY <1>1, <3>1, DataCells
  <2>4. CASE k \in f + 3 .. f + e + 2
    <3> DEFINE i == k - (f + 2)
    <3>1. i \in 1 .. e /\ f + 2 + i = k
      BY <1>1, <2>4
    <3> HIDE DEF i
    <3> QED BY <1>1, <3>1, DataCells
  <2> QED BY <1>1, <2>1, <2>2, <2>3, <2>4
<1> QED BY <1>2, <1>3 DEF T

-----------------------------------------------------------------------------
(* The operations.                                                         *)

(* What describes the file with all headers in it.                         *)
Clean(m, c) == Described(m, c) /\ Headed(m, c)

(* Then the scan finds every file.                                         *)
LEMMA CleanFound ==
  ASSUME NEW m, NEW c, Clean(m, c), NEW x \in DOMAIN m.files
  PROVE  Found(c, m.files[x], x)
<1>1. MemOK(m) /\ Tiling(Ids(m), Lo(m), Hi(m), m.eoa) /\ m.eoa <= Len(c) + 1 /\ Headed(m, c)
  BY DEF Clean, Described
<1> QED BY <1>1, HeadedFound

(* remove() leaves all headers, and a crash in it what was there or what   *)
(* it leaves.                                                              *)
LEMMA RemovalClean ==
  ASSUME DiskOK(Image), NEW m, Clean(m, Image.cells), NEW n \in DOMAIN m.files,
         NEW r, r = Removal(m, n), NEW e, e = ApplyAll(Image, r.runs)
  PROVE  /\ Clean(r.m, e.cells) /\ Kept(m, Image.cells, r.m, e.cells, n)
         /\ \A c : Leaves(Image, r.runs, c) => c = Image.cells \/ c = e.cells
<1> DEFINE c0 == Image.cells
           info == m.files[n]
           begin == info.pos - 3
<1>1. Described(m, c0) /\ Headed(m, c0) /\ MemOK(m) /\ m.eoa \in Nat
  BY DEF Described, MemOK, Clean
<1>2. Done(Image, m, r.runs, r.m, n)
  BY <1>1, RemovalDone
<1>3. Described(r.m, e.cells) /\ Kept(m, c0, r.m, e.cells, n)
  BY <1>2 DEF Done
<1>4. /\ <<1, n>> \in Ids(m) /\ info.pos \in Nat /\ info.size \in Nat
      /\ Lo(m)[<<1, n>>] = begin /\ Hi(m)[<<1, n>>] = info.pos + info.size + 1
  BY <1>1, Segments
<1>5. CellAt(Image, begin) = Start
  BY <1>1, <1>4, TagsThere
<1>6. CASE info.pos + info.size + 2 = m.eoa
  <2> DEFINE w == CutOff(m, n)
             cl == ClearFlag(m)
  <2>1. r.runs = cl /\ r.m = w
    BY <1>5, <1>6 DEF Removal, CutOff, Gone
  <2>2. ApplyAll(Image, cl).cells = c0
    BY Cleared
  <2>3. Headed(w, c0)
    BY <1>1, CutOffHeaded
  <2>4. \A c : Leaves(Image, cl, c) => c = c0
    BY LeavesClear
  <2> HIDE DEF w, cl, c0
  <2> QED BY <1>3, <2>1, <2>2, <2>3, <2>4 DEF Clean, c0
<1>7. CASE info.pos + info.size + 2 # m.eoa
  <2> DEFINE w == Marked(m, n)
             new == <<Len1(0), Size(info.size + 1)>>
             at == info.pos - 2
             cl == ClearFlag(m)
             q == <<Run(at, new)>>
             d == ApplyAll(Image, cl)
             o == Overwritten(c0, at, new)
  <2>1. begin + 1 = at /\ begin + 2 = info.pos - 1
    BY <1>4
  <2>2. r.runs = cl \o q
    <3>1. r.runs = ClearFlag(m) \o <<Run(begin + 1, <<Len1(0), Size(info.size + 1)>>)>>
      BY <1>5, <1>7 DEF Removal
    <3> QED BY <2>1, <3>1
  <2>3. r.m = w
    <3>1. r.m = [Gone(m, n) EXCEPT !.empties = Append(@, [pos |-> begin + 2, size |-> info.size + 1])]
      BY <1>5, <1>7 DEF Removal, Gone
    <3> HIDE DEF info
    <3> QED BY <2>1, <3>1 DEF Marked, info
  <2>4. IsList(new)
    BY DEF IsList
  <2>5. at \in Nat \ {0}
    BY <1>1, MarkedDescribes
  <2>6. Headed(w, o)
    BY <1>1, MarkedHeaded
  <2>7. \A g : DiskOK(g) => \A c : Leaves(g, q, c) => c = g.cells \/ c = Overwritten(g.cells, at, new)
    BY LeavesMark
  <2> HIDE DEF w, new, at, o, begin, info
  <2>8. IsList(q) /\ Len(q) = 1 /\ RunOK(Run(at, new))
    BY <2>4, <2>5, CellRun
  <2>9. IsList(cl) /\ Len(cl) \in 0 .. 1 /\ DiskOK(d) /\ d.cells = c0
    BY Cleared
  <2>10. ApplyAll(Image, r.runs) = ApplyAll(d, q)
    <3>1. Len(cl) + Len(q) \in 0 .. 4
      <4> DEFINE x == Len(cl)
                 y == Len(q)
      <4>1. x \in 0 .. 1 /\ y = 1
        BY <2>8, <2>9
      <4> HIDE DEF x, y
      <4>2. x + y \in 0 .. 4
        BY <4>1
      <4> QED BY <4>2 DEF x, y
    <3> HIDE DEF cl, q
    <3> QED BY <2>2, <2>8, <2>9, <3>1, ApplyConcat DEF d
  <2>11. ApplyAll(d, q).cells = o
    BY <2>9, ApplyOne, ApplyIs DEF o
  <2>12. ASSUME NEW c, Leaves(Image, r.runs, c) PROVE c = c0 \/ c = o
    <3>1. Len(cl) + Len(q) \in 0 .. 4
      <4> DEFINE x == Len(cl)
                 y == Len(q)
      <4>1. x \in 0 .. 1 /\ y = 1
        BY <2>8, <2>9
      <4> HIDE DEF x, y
      <4>2. x + y \in 0 .. 4
        BY <4>1
      <4> QED BY <4>2 DEF x, y
    <3>2. Leaves(Image, cl \o q, c)
      BY <2>2, <2>12
    <3>3. Leaves(Image, cl, c) => c = c0
      BY LeavesClear
    <3> HIDE DEF cl, q, c0
    <3>4. Leaves(Image, cl, c) \/ Leaves(d, q, c)
      BY <2>8, <2>9, <3>1, <3>2, LeavesOn DEF d
    <3>5. Leaves(d, q, c) => c = c0 \/ c = o
      BY <2>7, <2>9 DEF o
    <3> QED BY <3>3, <3>4, <3>5
  <2> HIDE DEF cl, q, d, c0
  <2>13. e.cells = o
    BY <2>10, <2>11
  <2> QED BY <1>3, <2>3, <2>6, <2>12, <2>13 DEF Clean, c0
<1> QED BY <1>6, <1>7

(* What writeFile does before it adds the file: the same.                  *)
LEMMA ReplacedClean ==
  ASSUME DiskOK(Image), Clean(mem, Image.cells), NEW n \in Name,
         NEW r, r = Replaced(n), NEW e, e = ApplyAll(Image, r.runs)
  PROVE  /\ Clean(r.m, e.cells) /\ Kept(mem, Image.cells, r.m, e.cells, n)
         /\ \A c : Leaves(Image, r.runs, c) => c = Image.cells \/ c = e.cells
<1>1. CASE n \in DOMAIN mem.files
  <2>1. r = Removal(mem, n)
    BY <1>1 DEF Replaced
  <2> QED BY <1>1, <2>1, RemovalClean
<1>2. CASE n \notin DOMAIN mem.files
  <2>1. r = NoRemoval(mem)
    BY <1>2 DEF Replaced
  <2>2. r.runs = <<>> /\ r.m = mem
    BY <2>1 DEF NoRemoval
  <2>3. e = Image
    BY <2>2, ApplyNone
  <2>4. Kept(mem, Image.cells, mem, Image.cells, n)
    BY DEF Kept
  <2>5. \A c : Leaves(Image, <<>>, c) => c = Image.cells
    BY LeavesNone
  <2> QED BY <2>2, <2>3, <2>4, <2>5
<1> QED BY <1>1, <1>2

(* The rest of writeFile: the flag is cleared if it was not, then the file *)
(* is written.                                                             *)
LEMMA AdditionAdds ==
  ASSUME NEW d, DiskOK(d), NEW m, Described(m, d.cells), NEW n \in Name, n \notin DOMAIN m.files,
         NEW v, NEW s \in Nat, NEW a, a = Addition(m, n, v, s)
  PROVE  \E at \in Nat \ {0} : /\ Adds(m, a.m, n, at, s)
                               /\ a.runs = ClearFlag(m) \o <<Run(at, FileCells(n, v, s))>>
<1> DEFINE fits == {i \in 1 .. Len(m.empties) : m.empties[i].size = s + 1}
           new == FileCells(n, v, s)
           cl == ClearFlag(m)
           Added == \E y \in Nat \ {0} : Adds(m, a.m, n, y, s) /\ a.runs = cl \o <<Run(y, new)>>
<1>1. MemOK(m)
  BY DEF Described
<1>2. ASSUME NEW at, Adds(m, a.m, n, at, s), a.runs = cl \o <<Run(at, new)>>
      PROVE  Added
  <2>1. at \in Nat \ {0}
    BY <1>2, AddsRest
  <2> HIDE DEF cl, new
  <2> QED BY <1>2, <2>1
<1> HIDE DEF Added
<1>3. ASSUME fits = {} PROVE Added
  <2>1. a.runs = cl \o <<Run(m.eoa, new)>> /\ a.m = AtEnd(m, n, s)
    BY <1>3 DEF Addition, FileCells, AtEnd
  <2> HIDE DEF cl, new
  <2>2. Adds(m, a.m, n, m.eoa, s)
    BY <2>1 DEF Adds
  <2> QED BY <1>2, <2>1, <2>2, SMTT(30)
<1>4. ASSUME fits # {} PROVE Added
  <2> DEFINE j == Min(fits)
             at == m.empties[j].pos - 2
  <2>1. j \in fits
    <3>1. fits \subseteq Nat
      OBVIOUS
    <3> HIDE DEF fits
    <3> QED BY <1>4, <3>1, LeastIs
  <2>2. j \in 1 .. Len(m.empties) /\ m.empties[j].size = s + 1
    BY <2>1
  <2>3. a.runs = cl \o <<Run(at, new)>>
    BY <1>4 DEF Addition, FileCells
  <2>4. a.m = InGap(m, n, j, s)
    <3> DEFINE q == m.empties[j].pos
    <3>1. a.m = [m EXCEPT !.changed = TRUE, !.empties = RemoveAt(@, j), !.eoa = @,
                          !.files = AddFile(@, n, (q - 2) + 3, s)]
      BY <1>4 DEF Addition
    <3>2. (q - 2) + 3 = q + 1
      <4>1. q \in Nat
        BY <1>1, <2>2, Segments
      <4> HIDE DEF q
      <4> QED BY <4>1
    <3> HIDE DEF q
    <3> QED BY <3>1, <3>2 DEF InGap, q
  <2> HIDE DEF j, cl, new, fits
  <2>5. Adds(m, a.m, n, at, s)
    BY <2>2, <2>4 DEF Adds
  <2> QED BY <1>2, <2>3, <2>5
<1> QED BY <1>3, <1>4 DEF Added

(* The last of the runs stays in the buffer, the others are in the file.   *)
LEMMA LastLeft ==
  ASSUME IsList(pending), Len(pending) \in 0 .. 1, NEW p, IsList(p), NEW g, IsList(g), Len(p) + Len(g) \in 0 .. 2,
         NEW r, Emit(p \o (g \o <<r>>))
  PROVE  disk' = ApplyAll(ApplyAll(Image, p), g) /\ pending' = <<r>>
<1> DEFINE z == <<r>>
           q == g \o z
           u == p \o q
           all == pending \o u
           a == Len(pending)
           b == Len(p)
           k == Len(g)
<1>1. IsList(z) /\ Len(z) = 1 /\ z[1] = r
  BY DEF IsList
<1>2. a \in 0 .. 1 /\ b \in Nat /\ k \in Nat /\ b + k \in 0 .. 2
  BY DEF IsList
<1>3. /\ disk' = ApplyAll(disk, IF all = <<>> THEN all ELSE Front(all))
      /\ pending' = IF all = <<>> THEN all ELSE <<Last(all)>>
  BY DEF Emit
<1>4. IsList(pending) /\ IsList(p) /\ IsList(g)
  OBVIOUS
<1>5. IsList(q) /\ Len(q) = k + 1 /\ SubSeq(q, 1, k) = g /\ q[k + 1] = r
  <2> HIDE DEF z, k
  <2>1. Len(g) + Len(z) \in 0 .. 4 /\ k \in 0 .. Len(g) /\ 1 \in 1 .. Len(z)
    BY <1>1, <1>2 DEF k
  <2>2. /\ Len(q) = Len(g) + Len(z) /\ SubSeq(q, 1, k) = SubSeq(g, 1, k) /\ q[Len(g) + 1] = z[1]
    <3>1. IsList(g) /\ IsList(z) /\ Len(g) + Len(z) \in 0 .. 4
      BY <1>1, <1>4, <2>1
    <3> HIDE DEF q
    <3>2. /\ Len(g \o z) = Len(g) + Len(z)
          /\ \A i \in 0 .. Len(g) : SubSeq(g \o z, 1, i) = SubSeq(g, 1, i)
          /\ \A i \in 1 .. Len(z) : (g \o z)[Len(g) + i] = z[i]
      BY ONLY <3>1, FirstOfBoth
    <3> QED BY <2>1, <3>2 DEF q
  <2>3. IsList(q)
    BY <1>1, <1>4, ConcatCells
  <2>4. SubSeq(g, 1, k) = g
    <3> DEFINE y == SubSeq(g, 1, k)
    <3>1. IsList(y) /\ Len(y) = k /\ \A i \in 1 .. k : y[i] = g[i]
      BY <1>4, <2>1, FirstCells
    <3> HIDE DEF y
    <3>2. y = [i \in 1 .. k |-> y[i]] /\ g = [i \in 1 .. k |-> g[i]]
      BY <1>4, <3>1 DEF IsList, k
    <3>3. y = g
      BY <3>1, <3>2
    <3> QED BY <3>3 DEF y
  <2> QED BY <1>1, <2>2, <2>3, <2>4 DEF k
<1> HIDE DEF z, q
<1>6. /\ IsList(u) /\ Len(u) = b + (k + 1) /\ u[b + (k + 1)] = r
      /\ ApplyAll(Image, SubSeq(u, 1, b + k)) = ApplyAll(ApplyAll(Image, p), g)
  <2>1. Len(p) + Len(q) \in 0 .. 4 /\ k \in 0 .. Len(q) /\ k + 1 \in 1 .. Len(q)
    BY <1>2, <1>5
  <2>2. /\ Len(u) = Len(p) + Len(q) /\ u[Len(p) + (k + 1)] = q[k + 1]
        /\ ApplyAll(Image, SubSeq(u, 1, Len(p) + k)) = ApplyAll(ApplyAll(Image, p), SubSeq(q, 1, k))
    BY <1>4, <1>5, <2>1, FirstOfBoth
  <2>3. IsList(u)
    BY <1>4, <1>5, ConcatCells
  <2> QED BY <1>5, <2>2, <2>3
<1> HIDE DEF u
<1>7. /\ IsList(all) /\ Len(all) = a + (b + (k + 1)) /\ all[a + (b + (k + 1))] = r
      /\ ApplyAll(disk, SubSeq(all, 1, a + (b + k))) = ApplyAll(Image, SubSeq(u, 1, b + k))
  <2>1. Len(pending) + Len(u) \in 0 .. 4 /\ b + k \in 0 .. Len(u) /\ b + (k + 1) \in 1 .. Len(u)
    <3>1. a = Len(pending)
      OBVIOUS
    <3> HIDE DEF a, b, k
    <3>2. a + (b + (k + 1)) \in 0 .. 4 /\ b + k \in 0 .. b + (k + 1) /\ b + (k + 1) \in 1 .. b + (k + 1)
      BY <1>2
    <3> QED BY <1>6, <3>1, <3>2
  <2>2. /\ Len(all) = Len(pending) + Len(u) /\ all[Len(pending) + (b + (k + 1))] = u[b + (k + 1)]
        /\ ApplyAll(disk, SubSeq(all, 1, Len(pending) + (b + k)))
             = ApplyAll(ApplyAll(disk, pending), SubSeq(u, 1, b + k))
    BY <1>4, <1>6, <2>1, FirstOfBoth
  <2>3. IsList(all)
    BY <1>4, <1>6, ConcatCells
  <2> QED BY <1>6, <2>2, <2>3 DEF Image
<1> HIDE DEF all, a, b, k
<1>8. Len(all) - 1 = a + (b + k) /\ Len(all) # 0
  BY <1>2, <1>7
<1>9. all # <<>>
  BY <1>8
<1>10. Front(all) = SubSeq(all, 1, a + (b + k)) /\ Last(all) = r
  BY <1>7, <1>8 DEF Front, Last
<1> QED BY <1>3, <1>6, <1>7, <1>9, <1>10

-----------------------------------------------------------------------------
(* The headers: the invariant.                                             *)

(* The buffer holds nothing, the flag of a new archive, or a file that is  *)
(* not in the archive file but belongs to the index already.               *)
Waiting ==
  \/ pending = <<>> /\ disk.flag # -1
  \/ pending = <<FlagRun(0)>> /\ disk.cells = <<>>
  \/ /\ disk.flag # -1
     /\ \E m0, n, at, v, s :
          /\ n \in Name /\ s \in Nat /\ at \in Nat \ {0}
          /\ pending = <<Run(at, FileCells(n, v, s))>>
          /\ Clean(m0, disk.cells) /\ n \notin DOMAIN m0.files /\ Adds(m0, mem, n, at, s)

(* All segments of the index that counts have their headers in the file as  *)
(* its stream sees it.                                                     *)
HeadInv ==
  \/ status = "closed" /\ (disk = NoFile \/ Headed(TableIndex(disk), disk.cells))
  \/ status = "truncating" /\ Headed(mem, disk.cells)
  \/ status = "open" /\ Headed(mem, Image.cells) /\ Image.flag # -1 /\ Waiting

(* The file keeps its header.                                              *)
LEMMA FlagThere ==
  ASSUME NEW d, DiskOK(d), d.flag # -1, NEW m, NEW runs, Quiet(m, runs)
  PROVE  ApplyAll(d, runs).flag # -1
<1>1. Len(runs) \in 0 .. 3 /\ \A i \in 1 .. Len(runs) : Harmless(runs[i])
  BY DEF Quiet
<1>2. Len(runs) \in 0 .. 4
  BY <1>1
<1> QED BY <1>1, <1>2, HarmlessRuns

(* Each step keeps it. *)
LEMMA HeadOpen ==
  ASSUME OInv, HeadInv, Open
  PROVE  HeadInv'
<1>1. /\ status = "closed" /\ mem = Closed /\ pending = <<>> /\ DiskOK(disk)
      /\ \/ disk = NoFile
         \/ Saved(disk, TableIndex(disk)) /\ Described(TableIndex(disk), disk.cells)
  BY DEF OInv, Open
<1>2. disk' = disk /\ Image' = ApplyAll(disk', pending')
  BY DEF Open, Image
<1>3. CASE disk = NoFile
  <2> DEFINE f == FlagRun(0)
             c == <<>>
  <2>1. disk.flag = -1 /\ disk.cells = c
    BY <1>3 DEF NoFile
  <2>2. pending' = <<f>> /\ mem' = [Closed EXCEPT !.changed = TRUE] /\ status' = "open"
    BY <2>1 DEF Open
  <2>3. mem' = [files |-> <<>>, empties |-> <<>>, eoa |-> 1, changed |-> TRUE]
    BY <2>2 DEF Closed
  <2>4. DOMAIN mem'.files = {} /\ Len(mem'.empties) = 0
    BY <2>3
  <2>5. Headed(mem', Image'.cells)
    BY <2>4 DEF Headed
  <2>6. Image'.flag # -1
    <3>1. Image' = Apply(disk, f)
      BY <1>2, <2>2, ApplyOne
    <3> QED BY <1>1, <3>1, ApplyIs
  <2>7. Waiting'
    BY <1>2, <2>1, <2>2 DEF Waiting
  <2> QED BY <2>2, <2>5, <2>6, <2>7 DEF HeadInv
<1>4. CASE Saved(disk, TableIndex(disk)) /\ Described(TableIndex(disk), disk.cells)
  <2>1. disk.flag = 1 /\ HasTable(disk)
    BY <1>4 DEF Saved
  <2>2. disk.flag # -1 /\ Readable(disk) /\ \A r : Index(disk, r) = TableIndex(disk)
    BY <2>1 DEF Readable, Index
  <2>3. mem' = TableIndex(disk) /\ status' = "open" /\ pending' = <<>>
    BY <1>1, <2>2 DEF Open
  <2>4. Image' = disk
    BY <1>2, <2>3, ApplyNone
  <2>5. Headed(mem', Image'.cells)
    <3>1. disk # NoFile
      BY <2>1 DEF NoFile
    <3> QED BY <1>1, <2>3, <2>4, <3>1 DEF HeadInv
  <2>6. Waiting'
    BY <1>2, <2>2, <2>3 DEF Waiting
  <2> QED BY <2>2, <2>3, <2>4, <2>5, <2>6 DEF HeadInv
<1> QED BY <1>1, <1>3, <1>4

(* readFile only flushes.                                                   *)
LEMMA HeadRead ==
  ASSUME OInv, HeadInv, ReadFile
  PROVE  HeadInv'
<1> DEFINE none == <<>>
<1>1. /\ status = "open" /\ EmitAndFlush(none) /\ status' = status /\ mem' = mem
      /\ Headed(mem, Image.cells) /\ Image.flag # -1
  BY DEF ReadFile, HeadInv
<1>2. IsList(none) /\ Len(none) \in 0 .. 3 /\ \A i \in 1 .. Len(none) : RunOK(none[i])
  BY DEF IsList
<1>3. ApplyAll(Image, none) = Image
  BY ApplyNone
<1> HIDE DEF none
<1>4. disk' = Image /\ Image' = disk' /\ pending' = <<>>
  BY <1>1, <1>2, <1>3, FlushedStep
<1>5. Waiting'
  BY <1>1, <1>4 DEF Waiting
<1> QED BY <1>1, <1>4, <1>5 DEF HeadInv

(* An archive without files.                                                *)
LEMMA HeadClear ==
  ASSUME ClearArchive
  PROVE  HeadInv'
<1>1. /\ status' = "open" /\ disk' = [flag |-> 0, cells |-> <<>>] /\ pending' = <<>>
      /\ mem' = [Closed EXCEPT !.changed = TRUE]
  BY DEF ClearArchive
<1>2. DOMAIN mem'.files = {} /\ Len(mem'.empties) = 0
  BY <1>1 DEF Closed
<1>3. Headed(mem', Image'.cells)
  BY <1>2 DEF Headed
<1>4. Image' = disk'
  <2>1. Image' = ApplyAll(disk', pending')
    BY DEF Image
  <2> QED BY <1>1, <2>1, ApplyNone
<1>5. disk'.flag # -1
  BY <1>1
<1>6. Waiting'
  BY <1>1, <1>5 DEF Waiting
<1> QED BY <1>1, <1>3, <1>4, <1>5, <1>6 DEF HeadInv

(* remove() keeps the headers of the other segments, or marks the segment. *)
LEMMA HeadRemove ==
  ASSUME OInv, TypeInv, HeadInv, NEW n \in Name, RemoveFile(n)
  PROVE  HeadInv'
<1> DEFINE r == Removal(mem, n)
           runs == r.runs
           e == ApplyAll(Image, runs)
<1>1. /\ status = "open" /\ Described(mem, Image.cells) /\ n \in DOMAIN mem.files /\ EmitAndFlush(runs)
      /\ IF r.verified THEN mem' = r.m /\ status' = status ELSE status' = "aborted" /\ mem' = mem
  BY DEF OInv, RemoveFile
<1>2. DiskOK(Image) /\ Headed(mem, Image.cells) /\ Image.flag # -1 /\ Typed(mem)
  BY <1>1, StreamOK DEF HeadInv, TypeInv
<1>3. r.verified /\ Len(runs) \in 0 .. 2 /\ Done(Image, mem, runs, r.m, n)
  BY <1>1, <1>2, RemovalDone
<1>4. Quiet(mem, runs)
  BY <1>1, <1>2, RemovalQuiet
<1>5. Clean(mem, Image.cells)
  BY <1>1, <1>2 DEF Clean
<1>6. Headed(r.m, e.cells)
  <2>1. r = Removal(mem, n) /\ e = ApplyAll(Image, r.runs)
    OBVIOUS
  <2> HIDE DEF r, runs, e
  <2>2. Clean(r.m, e.cells)
    BY <1>1, <1>2, <1>5, <2>1, RemovalClean
  <2> QED BY <2>2 DEF Clean
<1> HIDE DEF r
<1>7. mem' = r.m /\ status' = "open"
  BY <1>1, <1>3
<1>8. IsList(runs) /\ \A i \in 1 .. Len(runs) : RunOK(runs[i])
  BY <1>3 DEF Done
<1>9. e.flag # -1
  BY <1>2, <1>4, FlagThere
<1>10. disk' = e /\ Image' = disk' /\ pending' = <<>>
  <2> HIDE DEF runs
  <2>1. Len(runs) \in 0 .. 3
    BY <1>3
  <2> QED BY <1>1, <1>8, <2>1, FlushedStep
<1> HIDE DEF e, runs
<1>11. Waiting'
  BY <1>9, <1>10 DEF Waiting
<1> QED BY <1>6, <1>7, <1>9, <1>10, <1>11 DEF HeadInv

(* The table is written behind the segments.                                *)
LEMMA HeadClose ==
  ASSUME OInv, HeadInv, Close
  PROVE  HeadInv'
<1>1. /\ status = "open" /\ status' = "truncating" /\ mem' = mem
      /\ Described(mem, Image.cells) /\ Headed(mem, Image.cells)
  BY DEF OInv, HeadInv, Close
<1>2. SameTo(mem, Image.cells, mem, disk'.cells)
  BY CloseStep
<1>3. Headed(mem, disk'.cells)
  BY <1>1, <1>2, HeadedSame
<1> QED BY <1>1, <1>3 DEF HeadInv

(* What is cut off lies behind the table, which has the same segments.      *)
LEMMA HeadTruncate ==
  ASSUME OInv, HeadInv, Truncate
  PROVE  HeadInv'
<1>1. /\ status = "truncating" /\ status' = "closed"
      /\ Described(mem, disk.cells) /\ Headed(mem, disk.cells)
  BY DEF OInv, HeadInv, Truncate
<1>2. SameTo(mem, disk.cells, TableIndex(disk'), disk'.cells)
  BY TruncateStep
<1>3. Headed(TableIndex(disk'), disk'.cells)
  BY <1>1, <1>2, HeadedSame
<1> QED BY <1>1, <1>3 DEF HeadInv

(* Nothing changes.                                                         *)
LEMMA HeadStutter ==
  ASSUME HeadInv, UNCHANGED vars
  PROVE  HeadInv'
<1>1. disk' = disk /\ pending' = pending /\ status' = status /\ mem' = mem
  BY DEF vars
<1>2. Image' = Image
  BY <1>1 DEF Image
<1>3. Waiting' <=> Waiting
  BY <1>1 DEF Waiting
<1> QED BY <1>1, <1>2, <1>3 DEF HeadInv

(* writeFile: the new file waits in the buffer, behind or between the rest.  *)
LEMMA HeadWrite ==
  ASSUME OInv, TypeInv, HeadInv, NEW n \in Name, NEW s \in Nat, WriteFile(n, s)
  PROVE  HeadInv'
<1> DEFINE r == Replaced(n)
           p == r.runs
           v == ops'
           a == Addition(r.m, n, v, s)
           runs == p \o a.runs
           g == ClearFlag(r.m)
           e == ApplyAll(Image, p)
           d == ApplyAll(e, g)
<1>1. /\ status = "open" /\ Described(mem, Image.cells)
      /\ IF r.verified
         THEN Emit(runs) /\ mem' = a.m /\ status' = status
         ELSE EmitAndFlush(r.runs) /\ status' = "aborted" /\ mem' = mem
  BY DEF OInv, WriteFile
<1>2. DiskOK(Image) /\ Headed(mem, Image.cells) /\ Image.flag # -1 /\ Typed(mem)
  BY <1>1, StreamOK DEF HeadInv, TypeInv
<1>3. Clean(mem, Image.cells)
  BY <1>1, <1>2 DEF Clean
<1>4. /\ r.verified /\ Len(p) \in 0 .. 2 /\ (r.m.changed \/ Len(p) = 0)
      /\ n \notin DOMAIN r.m.files /\ Done(Image, mem, p, r.m, n)
  BY <1>1, <1>2, ReplacedDone
<1>5. Quiet(mem, p) /\ Quiet(mem, runs)
  BY <1>2, WriteQuiet
<1>6. Clean(r.m, e.cells)
  <2>1. r = Replaced(n) /\ e = ApplyAll(Image, r.runs)
    OBVIOUS
  <2> HIDE DEF r, p, e
  <2> QED BY <1>2, <1>3, <2>1, ReplacedClean
<1>7. DiskOK(e)
  BY <1>4 DEF Done
<1>8. PICK at \in Nat \ {0} : Adds(r.m, a.m, n, at, s) /\ a.runs = g \o <<Run(at, FileCells(n, v, s))>>
  <2>1. Described(r.m, e.cells) /\ n \notin DOMAIN r.m.files /\ a = Addition(r.m, n, v, s)
    BY <1>4, <1>6 DEF Clean
  <2> HIDE DEF r, a, e, v
  <2>2. \E at \in Nat \ {0} : /\ Adds(r.m, a.m, n, at, s)
                              /\ a.runs = ClearFlag(r.m) \o <<Run(at, FileCells(n, v, s))>>
    BY <1>7, <2>1, AdditionAdds
  <2> QED BY <2>2
<1>9. /\ IsList(g) /\ Len(g) \in 0 .. 1 /\ DiskOK(d) /\ d.cells = e.cells
      /\ (r.m.changed => Len(g) = 0)
  <2> HIDE DEF r, e
  <2>1. IsList(g) /\ Len(g) \in 0 .. 1 /\ DiskOK(d) /\ d.cells = e.cells
    BY <1>7, Cleared
  <2>2. r.m.changed => Len(g) = 0
    BY DEF ClearFlag
  <2> QED BY <2>1, <2>2
<1>10. e.flag # -1
  BY <1>2, <1>5, FlagThere
<1>11. d.flag # -1
  <2>1. Quiet(r.m, g)
    BY QuietClear
  <2> HIDE DEF r, g, e
  <2> QED BY <1>7, <1>10, <2>1, FlagThere
<1>12. IsList(pending) /\ Len(pending) \in 0 .. 1
  BY StreamOK
<1>13. Len(p) + Len(g) \in 0 .. 2
  <2> DEFINE x == Len(p)
             y == Len(g)
  <2>1. x \in 0 .. 2 /\ y \in 0 .. 1 /\ (x = 0 \/ y = 0)
    BY <1>4, <1>9
  <2> HIDE DEF x, y
  <2>2. x + y \in 0 .. 2
    BY <2>1
  <2> QED BY <2>2 DEF x, y
<1>14. IsList(p)
  BY <1>4 DEF Done
<1> DEFINE x == Run(at, FileCells(n, v, s))
<1>15. Emit(runs) /\ mem' = a.m /\ status' = "open"
  BY <1>1, <1>4
<1>16. Emit(p \o (g \o <<x>>))
  BY <1>8, <1>15
<1>17. IsList(runs) /\ Len(runs) \in 1 .. 3 /\ \A i \in 1 .. Len(runs) : RunOK(runs[i])
  <2>1. /\ Len(runs) \in 1 .. 3 /\ Done(Image, mem, runs, a.m, n)
    <3>1. a = Addition(Replaced(n).m, n, v, s) /\ runs = Replaced(n).runs \o a.runs
      OBVIOUS
    <3> HIDE DEF a, runs, v
    <3> QED BY <1>1, <1>2, <3>1, WriteDone
  <2> HIDE DEF runs, a
  <2> QED BY <2>1 DEF Done
<1>18. Image' = ApplyAll(Image, runs)
  <2> HIDE DEF runs
  <2> QED BY <1>15, <1>17, EmittedStep
<1>19. Image'.flag # -1
  <2> HIDE DEF runs
  <2> QED BY <1>2, <1>5, <1>18, FlagThere
<1> HIDE DEF p, g, x, e, d, a, r, runs
<1>20. disk' = d /\ pending' = <<x>>
  BY <1>9, <1>12, <1>13, <1>14, <1>16, LastLeft DEF d, e
<1>21. DiskOK(d)
  BY <1>9
<1>22. Image'.cells = Overwritten(e.cells, at, FileCells(n, v, s))
  <2>1. Image' = ApplyAll(disk', pending')
    BY DEF Image
  <2>2. Image' = Apply(d, x)
    BY <1>20, <2>1, ApplyOne
  <2> QED BY <1>9, <1>21, <2>2, ApplyIs DEF x
<1>23. Headed(mem', Image'.cells)
  <2>1. Begins(FileCells(n, v, s), n, s)
    <3>1. 4 \in 4 .. s + 5
      OBVIOUS
    <3> QED BY <3>1, FileBegins
  <2>2. Described(r.m, e.cells) /\ Headed(r.m, e.cells)
    BY <1>6 DEF Clean
  <2> HIDE DEF v
  <2>3. Headed(a.m, Image'.cells)
    BY <1>4, <1>8, <1>22, <2>1, <2>2, AddHeaded
  <2> QED BY <1>15, <2>3
<1>24. Waiting'
  <2>1. Clean(r.m, disk'.cells) /\ disk'.flag # -1
    BY <1>6, <1>9, <1>11, <1>20
  <2>2. pending' = <<Run(at, FileCells(n, v, s))>>
    BY <1>20 DEF x
  <2>3. Adds(r.m, mem', n, at, s)
    BY <1>8, <1>15
  <2> HIDE DEF v
  <2> QED BY <1>4, <1>8, <2>1, <2>2, <2>3 DEF Waiting
<1> QED BY <1>15, <1>19, <1>23, <1>24 DEF HeadInv

-----------------------------------------------------------------------------
(* Together: until a crash or recover() the archive is tiled, its flag is   *)
(* honest and its headers are there.                                       *)
KeepInv == SInv /\ (Orderly => FlagInv /\ HeadInv)

(* They hold at the start.                                                 *)
LEMMA KeepInit ==
  ASSUME Init
  PROVE  KeepInv
<1>1. SInv
  BY InitHolds
<1>2. FlagInv
  <2> DEFINE c == <<>>
  <2>1. /\ disk = [flag |-> -1, cells |-> c] /\ pending = <<>> /\ status = "closed" /\ mem = Closed
    BY DEF Init, NoFile
  <2>2. IsList(c)
    BY DEF IsList
  <2> HIDE DEF c
  <2>3. DiskOK(disk) /\ disk.flag # 1
    BY <2>1, <2>2 DEF DiskOK
  <2>4. TableSaved(disk)
    BY <2>3 DEF TableSaved
  <2>5. Typed(mem)
    BY <2>1, ClosedTyped
  <2> QED BY <2>1, <2>3, <2>4, <2>5 DEF FlagInv
<1>3. HeadInv
  BY DEF Init, HeadInv
<1> QED BY <1>1, <1>2, <1>3 DEF KeepInv

(* Every step keeps them.                                                  *)
LEMMA KeepStep ==
  ASSUME KeepInv, TypeInv, Next \/ UNCHANGED vars
  PROVE  KeepInv'
<1>1. SInv'
  BY StepHolds DEF KeepInv
<1>2. ASSUME Orderly' PROVE FlagInv' /\ HeadInv'
  <2>1. /\ usage' = usage /\ usage \in Usage /\ crashes \in Nat /\ crashes' = 0
        /\ ~recovered' /\ ~recovered /\ ~Recover
    BY <1>2, CrashesCounted DEF KeepInv, SInv, Orderly
  <2>2. ~Crash /\ crashes = 0
    <3>1. crashes + 1 # 0
      BY <2>1
    <3>2. Crash => crashes' = crashes + 1
      BY CrashCounted
    <3> QED BY <2>1, <3>1, <3>2, CrashesCounted
  <2>3. OInv /\ FlagInv /\ HeadInv
    BY <2>1, <2>2 DEF Orderly, KeepInv, SInv
  <2>4. FlagInv'
    <3>1. ~CrashBeforeTruncate
      BY <2>2 DEF Crash
    <3> QED BY <2>1, <2>3, <3>1, FlagStep
  <2>5. \A s \in usage.lengths : s \in Nat
    BY <2>1, UsageIs
  <2>6. CASE Open
    BY <2>3, <2>4, <2>6, HeadOpen
  <2>7. CASE ReadFile
    BY <2>3, <2>4, <2>7, HeadRead
  <2>8. CASE ClearArchive
    BY <2>4, <2>8, HeadClear
  <2>9. CASE Close
    BY <2>3, <2>4, <2>9, HeadClose
  <2>10. CASE Truncate
    BY <2>3, <2>4, <2>10, HeadTruncate
  <2>11. CASE \E n \in Name : RemoveFile(n)
    BY <2>3, <2>4, <2>11, HeadRemove
  <2>12. CASE \E n \in Name : \E s \in usage.lengths : WriteFile(n, s)
    BY <2>3, <2>4, <2>5, <2>12, HeadWrite
  <2>13. CASE Recover
    BY <2>1, <2>13
  <2>14. CASE Finished
    BY <2>3, <2>14, ViewIs DEF Finished
  <2>15. CASE UNCHANGED vars
    BY <2>3, <2>4, <2>15, HeadStutter
  <2> QED BY <2>2, <2>6, <2>7, <2>8, <2>9, <2>10, <2>11, <2>12, <2>13, <2>14, <2>15 DEF Next
<1> QED BY <1>1, <1>2 DEF KeepInv

(* They hold until then.                                                   *)
LEMMA KeepInvariance == Spec => []KeepInv
<1>1. Init => KeepInv
  BY KeepInit
<1>2. KeepInv /\ TypeInv /\ [Next]_vars => KeepInv'
  BY KeepStep
<1> QED BY <1>1, <1>2, TypeInvariance, PTL DEF Spec

-----------------------------------------------------------------------------
(* The crash: the next process.                                            *)

(* What a file holds, wherever it is.                                      *)
LEMMA SpanContent ==
  ASSUME NEW a, NEW b, NEW x \in DOMAIN a, x \in DOMAIN b, NEW f, f \in Piece, a[x] = f, b[x] = f, NEW d, NEW e,
         \A i \in f.pos + 1 .. f.pos + f.size : CellAt(e, i) = CellAt(d, i)
  PROVE  Content(b, e, x) = Content(a, d, x)
<1> DEFINE u == [i \in 1 .. f.size |-> CellAt(d, f.pos + i)]
           v == [i \in 1 .. f.size |-> CellAt(e, f.pos + i)]
<1>1. Content(a, d, x) = Stored(u) /\ Content(b, e, x) = Stored(v)
  BY DEF Content
<1>2. \A i \in 1 .. f.size : f.pos + i \in f.pos + 1 .. f.pos + f.size
  BY DEF Piece
<1>3. u = v
  BY <1>2
<1> QED BY <1>1, <1>3

-----------------------------------------------------------------------------
(* The crash: what is in the file.                                         *)

(* The scan of c finds the file of x where f has it, with the data that it  *)
(* has in the archive file.                                                *)
Held(c, f, x) ==
  /\ Found(c, f, x)
  /\ \A i \in f.pos + 1 .. f.pos + f.size : i \in 1 .. Len(c) /\ c[i] = Image.cells[i]

(* A durable file has its header, its end and its data in the file, and so  *)
(* do they who wrote it see it.                                            *)
LEMMA DurableIs ==
  ASSUME OInv, NEW x \in Name, Whole(disk, x), NEW f, f = mem.files[x]
  PROVE  /\ status = "open" /\ x \in DOMAIN mem.files /\ f \in Piece
         /\ disk.cells # <<>> /\ FileHead(disk.cells, f, x) /\ f.pos + f.size + 1 \in 1 .. Len(disk.cells)
         /\ \A i \in f.pos + 1 .. f.pos + f.size :
              i \in 1 .. Len(disk.cells) /\ i \in 1 .. Len(Image.cells) /\ disk.cells[i] = Image.cells[i]
<1>1. status = "open" /\ x \in DOMAIN mem.files /\ Described(mem, Image.cells)
  BY DEF OInv, Whole
<1>2. f \in Piece
  BY <1>1 DEF Described, MemOK
<1>3. \A i : CellAt(disk, i) \in {Start, End, Len1(1), Str(x), Size(f.size)}
               => i \in 1 .. Len(disk.cells) /\ CellAt(disk, i) = disk.cells[i]
  <2>1. /\ [eof |-> TRUE] # Start /\ [eof |-> TRUE] # End
        /\ [eof |-> TRUE] # Len1(1) /\ [eof |-> TRUE] # Str(x) /\ [eof |-> TRUE] # Size(f.size)
    <3>1. "eof" \in DOMAIN [eof |-> TRUE]
      OBVIOUS
    <3>2. /\ "eof" \notin DOMAIN Start /\ "eof" \notin DOMAIN End
          /\ "eof" \notin DOMAIN Len1(1) /\ "eof" \notin DOMAIN Str(x) /\ "eof" \notin DOMAIN Size(f.size)
      BY DEF Start, End, Len1, Str, Size
    <3> QED BY <3>1, <3>2
  <2> QED BY <2>1 DEF CellAt
<1>4. /\ CellAt(disk, f.pos - 3) = Start /\ CellAt(disk, f.pos - 2) = Len1(1)
      /\ CellAt(disk, f.pos - 1) = Str(x) /\ CellAt(disk, f.pos) = Size(f.size)
      /\ CellAt(disk, f.pos + f.size + 1) = End
  BY DEF Whole
<1>5. FileHead(disk.cells, f, x) /\ f.pos + f.size + 1 \in 1 .. Len(disk.cells)
  BY <1>3, <1>4 DEF FileHead
<1>6. disk.cells # <<>>
  BY <1>5
<1>7. \A i \in f.pos + 1 .. f.pos + f.size :
        i \in 1 .. Len(disk.cells) /\ i \in 1 .. Len(Image.cells) /\ disk.cells[i] = Image.cells[i]
  <2> SUFFICES ASSUME NEW i \in f.pos + 1 .. f.pos + f.size
               PROVE  i \in 1 .. Len(disk.cells) /\ i \in 1 .. Len(Image.cells) /\ disk.cells[i] = Image.cells[i]
    OBVIOUS
  <2>1. i \in 1 .. Len(Image.cells)
    BY <1>1, SpanInside
  <2>2. i \in 1 .. Len(disk.cells)
    <3> DEFINE l == Len(disk.cells)
    <3>1. l \in Nat /\ f.pos \in Nat /\ f.size \in Nat
      BY <1>2 DEF OInv, DiskOK, IsList, Piece
    <3>2. f.pos + f.size + 1 \in 1 .. l
      BY <1>5
    <3> HIDE DEF l
    <3>3. i \in 1 .. l
      BY <3>1, <3>2
    <3> QED BY <3>3 DEF l
  <2>3. CellAt(disk, i) = CellAt(Image, i)
    <3> DEFINE u == [j \in 1 .. f.size |-> CellAt(Image, f.pos + j)]
               w == [j \in 1 .. f.size |-> CellAt(disk, f.pos + j)]
               k == i - f.pos
    <3>1. Contents[x] = Content(mem.files, Image, x)
      BY <1>1 DEF Contents
    <3>2. Content(mem.files, disk, x) = Contents[x]
      BY DEF Whole
    <3>3. Stored(w) = Stored(u)
      BY <1>1, <3>1, <3>2 DEF Content
    <3>4. w = u
      BY <3>3 DEF Stored
    <3>5. k \in 1 .. f.size /\ f.pos + k = i
      BY <1>2 DEF Piece
    <3>6. w[k] = CellAt(disk, f.pos + k) /\ u[k] = CellAt(Image, f.pos + k)
      BY <3>5
    <3> QED BY <3>4, <3>5, <3>6
  <2> QED BY <2>1, <2>2, <2>3 DEF CellAt
<1> QED BY <1>1, <1>2, <1>5, <1>6, <1>7

(* What the stream still had to write.                                     *)
LEMMA BufferHeld ==
  ASSUME OInv, HeadInv, NEW x \in Name, Whole(disk, x), NEW c, Leaves(disk, pending, c)
  PROVE  Held(c, mem.files[x], x)
<1> DEFINE f == mem.files[x]
<1>1. /\ status = "open" /\ x \in DOMAIN mem.files /\ f \in Piece
      /\ disk.cells # <<>> /\ FileHead(disk.cells, f, x) /\ f.pos + f.size + 1 \in 1 .. Len(disk.cells)
      /\ \A i \in f.pos + 1 .. f.pos + f.size :
           i \in 1 .. Len(disk.cells) /\ i \in 1 .. Len(Image.cells) /\ disk.cells[i] = Image.cells[i]
  BY DurableIs
<1>2. DiskOK(disk) /\ Clean(mem, Image.cells) /\ Waiting
  BY <1>1 DEF OInv, HeadInv, Clean
<1>3. CASE pending = <<>>
  <2>1. c = disk.cells /\ Image = disk
    BY <1>3, LeavesNone, StreamOK
  <2>2. Found(c, f, x)
    BY <1>1, <1>2, <2>1, CleanFound
  <2> QED BY <1>1, <2>1, <2>2 DEF Held
<1>4. CASE pending # <<>>
  <2> DEFINE new(n, v, s) == FileCells(n, v, s)
  <2>1. PICK m0, n, at, v, s :
          /\ n \in Name /\ s \in Nat /\ at \in Nat \ {0}
          /\ pending = <<Run(at, FileCells(n, v, s))>>
          /\ Clean(m0, disk.cells) /\ n \notin DOMAIN m0.files /\ Adds(m0, mem, n, at, s)
    BY <1>1, <1>2, <1>4 DEF Waiting
  <2>2. Described(m0, disk.cells) /\ Headed(m0, disk.cells)
    BY <2>1 DEF Clean
  <2>3. Rest(m0, mem, n, at, s)
    BY <2>1, <2>2, AddsRest
  <2>4. DOMAIN mem.files = DOMAIN m0.files \cup {n} /\ mem.files[n] = [pos |-> at + 3, size |-> s]
        /\ \A y \in DOMAIN m0.files : mem.files[y] = m0.files[y]
    BY <2>3 DEF Rest
  <2>5. /\ c = disk.cells \/ \E b : Begins(b, n, s) /\ c = Overwritten(disk.cells, at, b)
        /\ \A i \in 1 .. Len(disk.cells) :
             c[i] = disk.cells[i] \/ c[i] = Overwritten(disk.cells, at, FileCells(n, v, s))[i]
    <3>1. CASE c = disk.cells
      BY <3>1
    <3>2. CASE c # disk.cells
      <4>1. Leaves(disk, <<Run(at, FileCells(n, v, s))>>, c)
        BY <2>1
      <4>2. \E b : /\ Begins(b, n, s) /\ c = Overwritten(disk.cells, at, b)
                   /\ \A i \in 1 .. Len(disk.cells) :
                        c[i] = disk.cells[i] \/ c[i] = Overwritten(disk.cells, at, FileCells(n, v, s))[i]
        BY <1>2, <2>1, <3>2, <4>1, LeavesFile
      <4> QED BY <4>2
    <3> QED BY <3>1, <3>2
  <2>6. Image.cells = Overwritten(disk.cells, at, FileCells(n, v, s))
    <3> DEFINE r == Run(at, FileCells(n, v, s))
    <3>1. Image = Apply(disk, r)
      BY <2>1, ApplyOne DEF Image
    <3> QED BY <1>2, <3>1, ApplyIs
  <2>7. Found(disk.cells, f, x) /\ \A b : Begins(b, n, s) => Found(Overwritten(disk.cells, at, b), f, x)
    <3>1. CASE x # n
      <4>1. x \in DOMAIN m0.files /\ f = m0.files[x]
        BY <1>1, <2>4, <3>1
      <4>2. Found(disk.cells, f, x)
        BY <2>1, <4>1, CleanFound
      <4>3. \A b : Begins(b, n, s) => Found(Overwritten(disk.cells, at, b), f, x)
        BY <2>1, <2>2, <4>1, AddFound
      <4> QED BY <4>2, <4>3
    <3>2. CASE x = n
      <4>1. f = mem.files[n] /\ f.pos = at + 3 /\ f.size = s
        BY <2>4, <3>2
      <4>2. at + s + 4 <= Len(disk.cells)
        <5> DEFINE l == Len(disk.cells)
        <5>1. l \in Nat /\ at + 3 + s + 1 \in 1 .. l /\ at \in Nat /\ s \in Nat
          BY <1>1, <1>2, <2>1, <4>1 DEF DiskOK, IsList
        <5> HIDE DEF l
        <5>2. at + s + 4 <= l
          BY <5>1
        <5> QED BY <5>2 DEF l
      <4>3. FileHead(disk.cells, mem.files[n], n)
        BY <1>1, <3>2
      <4> HIDE DEF f
      <4>4. \A b : Begins(b, n, s) =>
              Found(disk.cells, mem.files[n], n) /\ Found(Overwritten(disk.cells, at, b), mem.files[n], n)
        BY <2>1, <2>2, <4>2, <4>3, OwnFound
      <4>5. Begins(FileCells(n, v, s), n, s)
        <5>1. 4 \in 4 .. s + 5
          BY <2>1
        <5> QED BY <2>1, <5>1, FileBegins
      <4> QED BY <3>2, <4>1, <4>4, <4>5
    <3> QED BY <3>1, <3>2
  <2>8. Found(c, f, x)
    <3> HIDE DEF f
    <3> QED BY <2>5, <2>7
  <2>9. \A i \in 1 .. Len(disk.cells) : i \in 1 .. Len(c)
    <3>1. CASE c = disk.cells
      BY <3>1
    <3>2. CASE \E b : Begins(b, n, s) /\ c = Overwritten(disk.cells, at, b)
      <4>1. PICK b : Begins(b, n, s) /\ c = Overwritten(disk.cells, at, b)
        BY <3>2
      <4>2. IsList(disk.cells) /\ IsList(b) /\ at \in Nat \ {0}
        BY <1>2, <2>1, <4>1 DEF DiskOK, Begins
      <4>3. Len(c) \in Nat /\ Len(c) >= Len(disk.cells) /\ Len(disk.cells) \in Nat
        BY <4>1, <4>2, OverwrittenCells DEF IsList
      <4> QED BY <4>3
    <3> QED BY <2>5, <3>1, <3>2
  <2>10. \A i \in 1 .. Len(disk.cells) : c[i] = disk.cells[i] \/ c[i] = Image.cells[i]
    BY <2>5, <2>6
  <2> HIDE DEF f
  <2>11. \A i \in f.pos + 1 .. f.pos + f.size : i \in 1 .. Len(c) /\ c[i] = Image.cells[i]
    BY <1>1, <2>9, <2>10
  <2> QED BY <2>8, <2>11 DEF Held, f
<1> QED BY <1>3, <1>4

(* All that a crash may leave comes from the buffer or from the operation.  *)
LEMMA CrashSplit ==
  ASSUME OInv, NEW runs, Quiet(mem, runs), CrashDuring(runs)
  PROVE  Leaves(disk, pending, disk'.cells) \/ Leaves(Image, runs, disk'.cells)
<1>1. IsList(pending) /\ Len(pending) \in 0 .. 1
  BY StreamOK
<1>2. IsList(runs) /\ Len(runs) \in 0 .. 3
  BY DEF Quiet
<1>3. Len(pending) + Len(runs) \in 0 .. 4
  <2> DEFINE a == Len(pending)
             b == Len(runs)
  <2>1. a \in 0 .. 1 /\ b \in 0 .. 3
    BY <1>1, <1>2
  <2> HIDE DEF a, b
  <2>2. a + b \in 0 .. 4
    BY <2>1
  <2> QED BY <2>2 DEF a, b
<1>4. Len(pending \o runs) \in Nat
  BY <1>1, <1>2, <1>3, FirstOfBoth
<1>5. Leaves(disk, pending \o runs, disk'.cells)
  BY <1>4, CrashLeaves
<1> QED BY <1>1, <1>2, <1>3, <1>5, LeavesOn DEF Image

-----------------------------------------------------------------------------
(* The first part of a writeFile, or remove(): every other file stays.      *)
LEMMA KeptHeld ==
  ASSUME OInv, status = "open", Clean(mem, Image.cells), NEW n \in Name, NEW m, NEW c, Clean(m, c),
         Kept(mem, Image.cells, m, c, n), NEW x \in DOMAIN mem.files, x # n
  PROVE  x \in DOMAIN m.files /\ m.files[x] = mem.files[x] /\ Held(c, mem.files[x], x)
<1> DEFINE f == mem.files[x]
<1>1. /\ x \in DOMAIN m.files /\ m.files[x] = f
      /\ \A i \in f.pos + 1 .. f.pos + f.size : c[i] = Image.cells[i]
  <2>1. x \in DOMAIN mem.files \ {n}
    OBVIOUS
  <2>2. x \in DOMAIN m.files
    BY <2>1 DEF Kept
  <2> QED BY <2>1, <2>2 DEF Kept
<1>2. Described(m, c)
  BY DEF Clean
<1>3. \A i \in m.files[x].pos + 1 .. m.files[x].pos + m.files[x].size : i \in 1 .. Len(c)
  BY <1>1, <1>2, SpanInside
<1>4. Found(c, f, x)
  BY <1>1, CleanFound
<1> HIDE DEF f
<1> QED BY <1>1, <1>3, <1>4 DEF Held, f

(* A crash in remove().                                                    *)
LEMMA RemoveHeld ==
  ASSUME OInv, Clean(mem, Image.cells), status = "open", NEW n \in DOMAIN mem.files, n \in Name,
         NEW c, Leaves(Image, Removal(mem, n).runs, c), NEW x \in DOMAIN mem.files, x # n
  PROVE  Held(c, mem.files[x], x)
<1> DEFINE r == Removal(mem, n)
           e == ApplyAll(Image, r.runs)
<1>1. DiskOK(Image)
  BY StreamOK
<1>2. r = Removal(mem, n) /\ e = ApplyAll(Image, r.runs) /\ Leaves(Image, r.runs, c)
  OBVIOUS
<1> HIDE DEF r, e
<1>3. /\ Clean(r.m, e.cells) /\ Kept(mem, Image.cells, r.m, e.cells, n)
      /\ \A b : Leaves(Image, r.runs, b) => b = Image.cells \/ b = e.cells
  BY <1>1, <1>2, RemovalClean
<1>4. c = Image.cells \/ c = e.cells
  BY <1>2, <1>3
<1>5. Held(e.cells, mem.files[x], x)
  BY <1>3, KeptHeld
<1>6. Held(Image.cells, mem.files[x], x)
  <2>1. Kept(mem, Image.cells, mem, Image.cells, n)
    BY DEF Kept
  <2> QED BY <2>1, KeptHeld
<1> QED BY <1>4, <1>5, <1>6

(* A crash in writeFile().                                                 *)
LEMMA WriteHeld ==
  ASSUME OInv, TypeInv, Clean(mem, Image.cells), status = "open", NEW n \in Name, NEW s \in Nat, NEW v,
         NEW c, Leaves(Image, Replaced(n).runs \o Addition(Replaced(n).m, n, v, s).runs, c),
         NEW x \in DOMAIN mem.files, x # n
  PROVE  Held(c, mem.files[x], x)
<1> DEFINE r == Replaced(n)
           p == r.runs
           a == Addition(r.m, n, v, s)
           g == ClearFlag(r.m)
           e == ApplyAll(Image, p)
           d == ApplyAll(e, g)
           f == mem.files[x]
<1>1. DiskOK(Image) /\ Described(mem, Image.cells)
  BY StreamOK DEF Clean
<1>2. r = Replaced(n) /\ e = ApplyAll(Image, r.runs) /\ a = Addition(r.m, n, v, s)
      /\ Leaves(Image, p \o a.runs, c)
  OBVIOUS
<1>3. /\ Len(p) \in 0 .. 2 /\ (r.m.changed \/ Len(p) = 0)
      /\ n \notin DOMAIN r.m.files /\ Done(Image, mem, p, r.m, n)
  BY <1>1, ReplacedDone
<1>4. IsList(p) /\ DiskOK(e)
  BY <1>3 DEF Done
<1>5. IsList(g) /\ Len(g) \in 0 .. 1 /\ DiskOK(d) /\ d.cells = e.cells /\ (r.m.changed => Len(g) = 0)
  <2>1. r.m.changed => Len(g) = 0
    BY DEF ClearFlag
  <2> HIDE DEF r, e
  <2>2. IsList(g) /\ Len(g) \in 0 .. 1 /\ DiskOK(d) /\ d.cells = e.cells
    BY <1>4, Cleared
  <2> QED BY <2>1, <2>2
<1> HIDE DEF r, e, a
<1>6. /\ Clean(r.m, e.cells) /\ Kept(mem, Image.cells, r.m, e.cells, n)
      /\ \A b : Leaves(Image, r.runs, b) => b = Image.cells \/ b = e.cells
  BY <1>1, <1>2, ReplacedClean
<1>7. x \in DOMAIN r.m.files /\ r.m.files[x] = f /\ Held(e.cells, f, x)
  BY <1>6, KeptHeld
<1>8. Held(Image.cells, f, x)
  <2>1. Kept(mem, Image.cells, mem, Image.cells, n)
    BY DEF Kept
  <2> QED BY <2>1, KeptHeld
<1>9. Described(r.m, e.cells) /\ Headed(r.m, e.cells)
  BY <1>6 DEF Clean
<1>10. PICK at \in Nat \ {0} : Adds(r.m, a.m, n, at, s) /\ a.runs = g \o <<Run(at, FileCells(n, v, s))>>
  <2>1. \E at \in Nat \ {0} : /\ Adds(r.m, a.m, n, at, s)
                              /\ a.runs = ClearFlag(r.m) \o <<Run(at, FileCells(n, v, s))>>
    <3>1. Described(r.m, e.cells) /\ n \notin DOMAIN r.m.files /\ a = Addition(r.m, n, v, s) /\ DiskOK(e)
      BY <1>2, <1>3, <1>4, <1>9
    <3> QED BY <3>1, AdditionAdds
  <2> QED BY <2>1
<1> DEFINE w == <<Run(at, FileCells(n, v, s))>>
<1>11. IsList(w) /\ Len(w) = 1
  BY DEF IsList
<1> HIDE DEF w
<1>12. IsList(g \o w) /\ Len(g \o w) = Len(g) + 1
  <2>1. IsList(g) /\ IsList(w) /\ Len(w) = 1
    BY <1>5, <1>11
  <2> HIDE DEF g
  <2>2. IsList(g \o w) /\ Len(g \o w) = Len(g) + Len(w)
    BY ONLY <2>1, ConcatCells
  <2> QED BY <2>1, <2>2
<1> DEFINE lp == Len(p)
           lg == Len(g)
<1>13. lp \in Nat /\ lg \in Nat /\ lp \in 0 .. 2 /\ lg \in 0 .. 1 /\ (lp = 0 \/ lg = 0)
  BY <1>3, <1>5
<1>14. lp + (lg + 1) \in 0 .. 4 /\ lg + 1 \in 0 .. 4
  <2> HIDE DEF lp, lg
  <2> QED BY <1>13
<1> HIDE DEF g, d
<1>15. Leaves(Image, p, c) \/ Leaves(e, g \o w, c)
  <2>1. Leaves(Image, p \o (g \o w), c) /\ Len(p) + Len(g \o w) \in 0 .. 4
    BY <1>2, <1>10, <1>12, <1>14 DEF w
  <2>2. Leaves(Image, p, c) \/ Leaves(ApplyAll(Image, p), g \o w, c)
    BY <1>4, <1>12, <2>1, LeavesOn
  <2> QED BY <1>2, <2>2
<1>16. ASSUME Leaves(e, g \o w, c) PROVE c = e.cells \/ Leaves(d, w, c)
  <2>1. Leaves(e, g, c) \/ Leaves(ApplyAll(e, g), w, c)
    BY <1>5, <1>11, <1>14, <1>16, LeavesOn
  <2>2. Leaves(e, g, c) => c = e.cells
    BY <1>4, LeavesClear DEF g
  <2> QED BY <2>1, <2>2 DEF d
<1>17. ASSUME Leaves(d, w, c), c # d.cells PROVE Held(c, f, x)
  <2>1. Leaves(d, <<Run(at, FileCells(n, v, s))>>, c)
    BY <1>17 DEF w
  <2>2. PICK b : Begins(b, n, s) /\ c = Overwritten(d.cells, at, b)
    BY <1>5, <1>17, <2>1, LeavesFile
  <2>3. c = Overwritten(e.cells, at, b)
    BY <1>5, <2>2
  <2>4. Found(c, f, x)
    BY <1>3, <1>7, <1>9, <1>10, <2>2, <2>3, AddFound
  <2>5. Len(c) \in Nat /\ Len(c) >= Len(e.cells)
        /\ \A i \in Lo(r.m)[<<1, x>>] .. Hi(r.m)[<<1, x>>] : c[i] = e.cells[i]
    BY <1>3, <1>7, <1>9, <1>10, <2>2, <2>3, AddHeaded
  <2>6. f \in Piece /\ Lo(r.m)[<<1, x>>] = f.pos - 3 /\ Hi(r.m)[<<1, x>>] = f.pos + f.size + 1
    <3>1. <<1, x>> \in Ids(r.m)
      BY <1>7 DEF Ids
    <3>2. f \in Piece
      BY <1>7, <1>9 DEF Described, MemOK
    <3> HIDE DEF f
    <3> QED BY <1>7, <3>1, <3>2 DEF Lo, Hi
  <2>7. Len(e.cells) \in Nat
    BY <1>4 DEF DiskOK, IsList
  <2> HIDE DEF f
  <2>8. \A i \in f.pos + 1 .. f.pos + f.size :
          /\ i \in 1 .. Len(e.cells) /\ e.cells[i] = Image.cells[i]
          /\ i \in f.pos - 3 .. f.pos + f.size + 1
    BY <1>7, <2>6 DEF Held, Piece
  <2>9. \A i \in f.pos + 1 .. f.pos + f.size : i \in 1 .. Len(c) /\ c[i] = Image.cells[i]
    <3> DEFINE lc == Len(c)
               le == Len(e.cells)
    <3> SUFFICES ASSUME NEW i \in f.pos + 1 .. f.pos + f.size PROVE i \in 1 .. lc /\ c[i] = Image.cells[i]
      OBVIOUS
    <3>1. i \in 1 .. le /\ e.cells[i] = Image.cells[i] /\ c[i] = e.cells[i]
      BY <2>5, <2>6, <2>8
    <3>2. lc \in Nat /\ le \in Nat /\ lc >= le
      BY <2>5, <2>7
    <3> HIDE DEF lc, le
    <3> QED BY <3>1, <3>2
  <2> QED BY <2>4, <2>9 DEF Held
<1> HIDE DEF f
<1> QED BY <1>2, <1>5, <1>6, <1>7, <1>8, <1>15, <1>16, <1>17 DEF f

(* A crash while the table is written.                                     *)
LEMMA TableHeld ==
  ASSUME OInv, Clean(mem, Image.cells), status = "open",
         NEW c, Leaves(Image, <<Run(mem.eoa, TableCells(mem))>>, c), NEW x \in DOMAIN mem.files
  PROVE  Held(c, mem.files[x], x)
<1> DEFINE f == mem.files[x]
           o == Overwritten(Image.cells, mem.eoa, TableCells(mem))
<1>1. DiskOK(Image) /\ Described(mem, Image.cells) /\ Headed(mem, Image.cells) /\ MemOK(mem)
  BY StreamOK DEF Clean, Described
<1>2. c = Image.cells \/ c = o
  BY <1>1, LeavesTable
<1>3. Clean(mem, o) /\ AllKept(mem, Image.cells, mem, o)
  <2>1. o = Overwritten(Image.cells, mem.eoa, TableCells(mem))
    OBVIOUS
  <2> HIDE DEF o
  <2>2. Described(mem, o) /\ AllKept(mem, Image.cells, mem, o) /\ SameTo(mem, Image.cells, mem, o)
    BY <1>1, <2>1, TableWritten
  <2>3. Headed(mem, o)
    BY <1>1, <2>2, HeadedSame
  <2> QED BY <2>2, <2>3 DEF Clean
<1> HIDE DEF o
<1>4. \A b : Clean(mem, b) /\ AllKept(mem, Image.cells, mem, b) => Held(b, f, x)
  <2> SUFFICES ASSUME NEW b, Clean(mem, b), AllKept(mem, Image.cells, mem, b) PROVE Held(b, f, x)
    OBVIOUS
  <2>1. \A i \in f.pos + 1 .. f.pos + f.size : b[i] = Image.cells[i]
    BY DEF AllKept
  <2>2. \A i \in f.pos + 1 .. f.pos + f.size : i \in 1 .. Len(b)
    BY SpanInside DEF Clean
  <2>3. Found(b, f, x)
    BY CleanFound
  <2> HIDE DEF f
  <2> QED BY <2>1, <2>2, <2>3 DEF Held
<1>5. AllKept(mem, Image.cells, mem, Image.cells)
  BY DEF AllKept
<1> QED BY <1>2, <1>3, <1>4, <1>5

-----------------------------------------------------------------------------
(* The next process reads a durable file of which the crash has left the    *)
(* cells: the flag is as it was and the table too, or it is clear and the   *)
(* scan finds the file.                                                    *)
LEMMA CrashReads ==
  ASSUME OInv, FlagInv, HeadInv, TypeInv', NEW runs, Quiet(mem, runs), CrashDuring(runs),
         NEW x \in Name, Whole(disk, x), Held(disk'.cells, mem.files[x], x)
  PROVE  Contents'[x] = Contents[x]
<1> DEFINE f == mem.files[x]
           c == disk'.cells
<1>1. /\ status = "open" /\ x \in DOMAIN mem.files /\ f \in Piece /\ disk.cells # <<>>
      /\ \A i \in f.pos + 1 .. f.pos + f.size : i \in 1 .. Len(Image.cells)
  BY DurableIs
<1>2. Contents[x] = Content(mem.files, Image, x)
  BY <1>1 DEF Contents
<1>3. status' = "closed"
  BY DEF CrashDuring
<1>4. disk.flag # -1
  BY <1>1 DEF HeadInv, Waiting
<1>5. (disk' = disk \/ disk'.flag # 1) /\ disk'.flag # -1
  BY <1>4, FlagCrash
<1>6. disk'.flag \in {0, 1} /\ CellsOK(c)
  BY <1>5 DEF TypeInv, FileTyped
<1>7. CASE disk'.flag = 1
  <2>1. disk' = disk /\ disk.flag = 1
    BY <1>5, <1>7
  <2>2. ~mem.changed /\ pending = <<>>
    BY <1>1, <2>1 DEF FlagInv
  <2>3. Saved(disk, mem) /\ Image = disk
    BY <1>1, <2>2, StreamOK DEF OInv
  <2>4. HasTable(disk) /\ TableIndex(disk) = mem
    BY <2>3 DEF Saved
  <2>5. Index(disk', TRUE) = mem /\ Readable(disk')
    BY <2>1, <2>4 DEF Index, Readable
  <2>6. Contents'[x] = Content(mem.files, disk, x)
    BY <1>3, <1>5, <2>1, <2>5 DEF Contents
  <2> QED BY <1>2, <2>3, <2>6
<1>8. CASE disk'.flag = 0
  <2> DEFINE found == Scanned(c, TRUE)
  <2>1. \A resync \in BOOLEAN : x \in DOMAIN Scanned(c, resync).files /\ Scanned(c, resync).files[x] = f
    <3>1. Found(c, f, x)
      BY DEF Held
    <3> HIDE DEF c, f
    <3> QED BY <1>6, <3>1, ScanFinds
  <2>2. x \in DOMAIN found.files /\ found.files[x] = f
    BY <2>1
  <2>3. Readable(disk') /\ Index(disk', TRUE) = found
    BY <1>8 DEF Readable, Index
  <2>4. Contents'[x] = Content(found.files, disk', x)
    <3> HIDE DEF found
    <3> QED BY <1>3, <1>5, <2>3 DEF Contents
  <2>5. \A i \in f.pos + 1 .. f.pos + f.size : CellAt(disk', i) = CellAt(Image, i)
    <3>1. \A i \in f.pos + 1 .. f.pos + f.size : i \in 1 .. Len(c) /\ c[i] = Image.cells[i]
      BY DEF Held
    <3> HIDE DEF f
    <3> QED BY <1>1, <3>1 DEF CellAt
  <2>6. Content(found.files, disk', x) = Content(mem.files, Image, x)
    <3> DEFINE ff == found.files
               mf == mem.files
               e  == disk'
    <3>1. x \in DOMAIN mf /\ x \in DOMAIN ff /\ mf[x] = f /\ ff[x] = f /\ f \in Piece
      BY <1>1, <2>2
    <3>2. \A i \in f.pos + 1 .. f.pos + f.size : CellAt(e, i) = CellAt(Image, i)
      BY <2>5
    <3> HIDE DEF ff, mf, e, f, found
    <3>3. Content(ff, e, x) = Content(mf, Image, x)
      BY <3>1, <3>2, SpanContent
    <3> QED BY <3>3 DEF ff, mf, e
  <2> QED BY <1>2, <2>4, <2>6
<1> QED BY <1>6, <1>7, <1>8

(* Every crash but the one in front of truncate64 keeps what CrashKeepsOthers *)
(* says.                                                                   *)
LEMMA CrashSurvived ==
  ASSUME KeepInv, TypeInv, TypeInv', crashes = 0, ~recovered
  PROVE  /\ CrashIdle \/ CrashInFinish => \A x \in Name : Survives(x)
         /\ \A n \in Name : CrashInRemove(n) \/ (\E s \in usage.lengths : CrashInWrite(n, s))
              => \A x \in Name \ {n} : Survives(x)
<1>1. OInv /\ FlagInv /\ HeadInv
  BY DEF KeepInv, SInv, Orderly
<1>2. Typed(mem) /\ DiskOK(Image) /\ MemOK(mem)
  BY <1>1, FlagStream, TypedIs DEF FlagInv
<1>3. ASSUME NEW x \in Name, Whole(disk, x)
      PROVE  status = "open" /\ x \in DOMAIN mem.files /\ Clean(mem, Image.cells)
  BY <1>1, <1>3 DEF Whole, OInv, HeadInv, Clean
<1>4. ASSUME NEW runs, Quiet(mem, runs), CrashDuring(runs), NEW x \in Name, Whole(disk, x),
             Leaves(Image, runs, disk'.cells) => Held(disk'.cells, mem.files[x], x)
      PROVE  Survives(x)
  <2>1. Held(disk'.cells, mem.files[x], x)
    BY <1>1, <1>4, CrashSplit, BufferHeld
  <2> QED BY <1>1, <1>4, <2>1, CrashReads DEF Survives
<1>5. ASSUME CrashIdle, NEW x \in Name, Whole(disk, x) PROVE Survives(x)
  <2> DEFINE runs == <<>>
  <2>1. Quiet(mem, runs) /\ CrashDuring(runs)
    BY <1>5, QuietClear DEF CrashIdle
  <2>2. Leaves(Image, runs, disk'.cells) => Held(disk'.cells, mem.files[x], x)
    <3> SUFFICES ASSUME Leaves(Image, runs, disk'.cells) PROVE Held(disk'.cells, mem.files[x], x)
      OBVIOUS
    <3>1. disk'.cells = Image.cells
      BY LeavesNone
    <3>2. \A i \in mem.files[x].pos + 1 .. mem.files[x].pos + mem.files[x].size : i \in 1 .. Len(Image.cells)
      BY <1>1, <1>5, DurableIs
    <3>3. Found(Image.cells, mem.files[x], x)
      BY <1>3, <1>5, CleanFound
    <3> QED BY <3>1, <3>2, <3>3 DEF Held
  <2> HIDE DEF runs
  <2> QED BY <1>4, <1>5, <2>1, <2>2
<1>6. ASSUME CrashInFinish, NEW x \in Name, Whole(disk, x) PROVE Survives(x)
  <2> DEFINE r == Run(mem.eoa, TableCells(mem))
             runs == <<r>>
  <2>1. mem.changed /\ CrashDuring(runs)
    BY <1>6 DEF CrashInFinish, Finish
  <2>2. Quiet(mem, runs)
    <3>1. mem.eoa \in Nat \ {0} /\ IsList(TableCells(mem))
      BY <1>2, TableLayout DEF MemOK, Layout
    <3>2. Harmless(r)
      BY <3>1, HarmlessKinds
    <3>3. IsList(runs) /\ Len(runs) = 1 /\ runs[1] = r
      BY <3>1, CellRun
    <3> HIDE DEF runs, r
    <3> QED BY <2>1, <3>2, <3>3 DEF Quiet
  <2>3. Leaves(Image, runs, disk'.cells) => Held(disk'.cells, mem.files[x], x)
    BY <1>1, <1>3, <1>6, TableHeld
  <2> HIDE DEF runs
  <2> QED BY <1>4, <1>6, <2>1, <2>2, <2>3
<1>7. ASSUME NEW n \in Name, CrashInRemove(n), NEW x \in Name \ {n}, Whole(disk, x) PROVE Survives(x)
  <2> DEFINE runs == Removal(mem, n).runs
  <2>1. n \in DOMAIN mem.files /\ CrashDuring(runs)
    BY <1>7 DEF CrashInRemove
  <2>2. Quiet(mem, runs)
    BY <1>2, <2>1, RemovalQuiet
  <2>3. Leaves(Image, runs, disk'.cells) => Held(disk'.cells, mem.files[x], x)
    BY <1>1, <1>3, <1>7, <2>1, RemoveHeld
  <2> HIDE DEF runs
  <2> QED BY <1>4, <1>7, <2>1, <2>2, <2>3
<1>8. ASSUME NEW n \in Name, NEW s \in usage.lengths, CrashInWrite(n, s), NEW x \in Name \ {n}, Whole(disk, x)
      PROVE  Survives(x)
  <2> DEFINE v == ops + 1
             runs == Replaced(n).runs \o Addition(Replaced(n).m, n, v, s).runs
  <2>1. s \in Nat
    BY UsageIs DEF TypeInv
  <2>2. CrashDuring(runs)
    BY <1>8 DEF CrashInWrite
  <2>3. Quiet(mem, runs)
    BY <1>2, <2>1, WriteQuiet
  <2>4. Leaves(Image, runs, disk'.cells) => Held(disk'.cells, mem.files[x], x)
    <3> HIDE DEF v
    <3> QED BY <1>1, <1>3, <1>8, <2>1, WriteHeld
  <2> HIDE DEF runs
  <2> QED BY <1>4, <1>8, <2>2, <2>3, <2>4
<1>9. \A x \in Name : ~Whole(disk, x) => Survives(x)
  BY DEF Survives
<1> QED BY <1>5, <1>6, <1>7, <1>8, <1>9

(* While recover() is not called, the first crash, wherever it strikes and  *)
(* whatever part of the write reaches the file, leaves every file that was  *)
(* completely in the archive file, and that the process was not writing or  *)
(* removing, readable to the next process (the scan in scanArchive and     *)
(* readFileInfoTable, against the order of the writes in write, remove and *)
(* writeFileInfoTable); for all names, lengths and numbers of operations.  *)
THEOREM CrashesKeepOthers == Spec => CrashKeepsOthers
<1>1. KeepInv /\ TypeInv /\ TypeInv' /\ [Next]_vars
        => [crashes = 0 /\ crashes' = 1 /\ ~recovered =>
              /\ CrashIdle \/ CrashInFinish => \A n \in Name : Survives(n)
              /\ \A n \in Name : CrashInRemove(n) \/ (\E s \in usage.lengths : CrashInWrite(n, s))
                   => \A x \in Name \ {n} : Survives(x)]_vars
  BY CrashSurvived
<1> QED BY <1>1, KeepInvariance, TypeInvariance, PTL DEF Spec, CrashKeepsOthers

-----------------------------------------------------------------------------
(* recover(): what a scan leaves in front of endOfArchive_.                 *)

(* A file of the index that has its end tag is in front of endOfArchive_,  *)
(* which the scan has passed.                                              *)
InFront(m, c) ==
  \A x \in DOMAIN m.files :
    LET h == m.files[x].pos + m.files[x].size + 1 IN h <= Len(c) /\ c[h] = End => h < m.eoa
Passing(s, c) == InFront(s.m, c) /\ s.m.eoa <= s.at

(* So it is after the segment that the scan sees at p is in the index.     *)
LEMMA EntryInFront ==
  ASSUME NEW c, CellsOK(c), NEW p \in 1 .. Len(c), WholeHeader(c, p), SegmentAt(c, p).next <= Len(c) + 1,
         NEW m, Typed(m), InFront(m, c), m.eoa <= p, NEW w, w = AddEntry(m, SegmentAt(c, p))
  PROVE  InFront(w, c) /\ w.eoa <= SegmentAt(c, p).next
<1> DEFINE e == SegmentAt(c, p)
           h == e.pos + e.size + 1
<1>1. EntryOK(e)
  BY SegmentOK
<1>2. /\ e.next = h + 1 /\ (e.good <=> h <= Len(c) /\ c[h] = End) /\ e.next > p
  <2> DEFINE l == c[p + 1].len
             q == p + 2 + l
             z == c[q].size
  <2>1. e.pos = q /\ e.size = z /\ e.next = (q + z + 1) + 1
        /\ e.good = (q + z + 1 <= Len(c) /\ c[q + z + 1] = End)
    BY DEF SegmentAt
  <2>2. l \in Nat
    <3>1. p + 1 \in 1 .. Len(c) /\ "len" \in DOMAIN c[p + 1]
      BY DEF WholeHeader, CellsOK, IsList
    <3> QED BY <3>1 DEF CellsOK, CellOK
  <2>3. q \in Nat /\ z \in Nat
    BY <1>1, <2>1 DEF EntryOK
  <2> HIDE DEF e, z, l
  <2>4. (q + z + 1) + 1 > p
    BY <2>2, <2>3
  <2> QED BY <2>1, <2>4
<1>3. /\ e.pos \in Nat /\ e.size \in Nat /\ e.next \in Nat /\ h \in Nat
  BY <1>1 DEF EntryOK
<1>4. /\ w.files = IF e.name = Absent THEN m.files ELSE AddFile(m.files, e.name, e.pos, e.size)
      /\ w.eoa = IF e.good THEN e.next ELSE m.eoa
  BY DEF AddEntry, Typed
<1>5. m.eoa \in Nat
  BY DEF Typed
<1> HIDE DEF e
<1>6. w.eoa <= e.next /\ w.eoa >= m.eoa /\ w.eoa \in Nat
  BY <1>2, <1>3, <1>4, <1>5
<1>7. ASSUME NEW x \in DOMAIN w.files, NEW k, k = w.files[x].pos + w.files[x].size + 1, k <= Len(c), c[k] = End
      PROVE  k < w.eoa
  <2>1. CASE x \in DOMAIN m.files
    <3>1. w.files[x] = m.files[x]
      BY <1>4, <2>1 DEF AddFile
    <3>2. k < m.eoa
      BY <1>7, <2>1, <3>1 DEF InFront
    <3>3. k \in Nat
      BY <1>7, <2>1, <3>1 DEF Typed, Place
    <3> QED BY <1>5, <1>6, <3>2, <3>3
  <2>2. CASE x \notin DOMAIN m.files
    <3>1. w.files[x] = [pos |-> e.pos, size |-> e.size]
      BY <1>4, <2>2 DEF AddFile
    <3>2. k = h
      BY <1>7, <3>1
    <3>3. w.eoa = h + 1
      BY <1>2, <1>4, <1>7, <3>2
    <3> QED BY <1>3, <3>2, <3>3
  <2> QED BY <2>1, <2>2
<1> QED BY <1>6, <1>7 DEF InFront, e

(* And after a pass of the loop.                                           *)
LEMMA PassInFront ==
  ASSUME NEW c, CellsOK(c), NEW resync \in BOOLEAN, NEW s \in ScanStates(Len(c)), Passing(s, c),
         NEW t, t = Passed(c, resync, s)
  PROVE  Passing(t, c)
<1> DEFINE n == Len(c)
           e == SegmentAt(c, s.at)
<1>1. n \in Nat
  BY DEF CellsOK, IsList
<1>2. s.at \in 1 .. n + 1 /\ Typed(s.m) /\ s = [at |-> s.at, m |-> s.m]
  BY TypedIndices DEF ScanStates
<1>3. s.m.eoa \in Nat
  BY <1>2 DEF Typed
<1>4. CASE s.at # n + 1 /\ c[s.at] = Start /\ WholeHeader(c, s.at) /\ ~(e.next > n + 1)
  <2>1. t = [at |-> e.next, m |-> AddEntry(s.m, e)]
    BY <1>4 DEF Passed
  <2>2. s.at \in 1 .. n
    BY <1>1, <1>2, <1>4
  <2>3. e.next \in Nat
    BY <1>4, <2>2, SegmentOK DEF EntryOK
  <2>4. e.next <= n + 1
    <3> HIDE DEF e, n
    <3> QED BY <1>1, <1>4, <2>3
  <2>5. InFront(AddEntry(s.m, e), c) /\ AddEntry(s.m, e).eoa <= e.next
    BY <1>2, <1>4, <2>2, <2>4, EntryInFront DEF Passing
  <2> HIDE DEF e
  <2> QED BY <2>1, <2>5 DEF Passing
<1>5. CASE ~(s.at # n + 1 /\ c[s.at] = Start /\ WholeHeader(c, s.at) /\ ~(e.next > n + 1))
  <2>1. \/ t = s
        \/ t = [s EXCEPT !.at = s.at + 1]
        \/ t = [s EXCEPT !.at = n + 1]
    <3> HIDE DEF e
    <3> QED BY <1>5 DEF Passed, e
  <2>2. t.m = s.m /\ t.at >= s.at /\ t.at \in Nat
    <3> DEFINE l == s.at
               k == s.m
               stop == n + 1
    <3>1. l \in 1 .. stop /\ stop \in Nat /\ s = [at |-> l, m |-> k]
      BY <1>1, <1>2
    <3>2. t = s \/ t = [s EXCEPT !.at = l + 1] \/ t = [s EXCEPT !.at = stop]
      BY <2>1
    <3> HIDE DEF l, k, stop
    <3>3. t.m = k /\ (t.at = l \/ t.at = l + 1 \/ t.at = stop)
      BY <3>1, <3>2
    <3>4. t.at >= l /\ t.at \in Nat
      BY <3>1, <3>3
    <3> QED BY <3>3, <3>4 DEF l, k
  <2>3. s.m.eoa <= s.at
    BY DEF Passing
  <2> HIDE DEF e
  <2>4. s.m.eoa <= t.at
    BY <1>1, <1>2, <1>3, <2>2, <2>3
  <2> QED BY <2>2, <2>4 DEF Passing
<1> QED BY <1>4, <1>5

(* And after the scan.                                                     *)
LEMMA ScanEnds ==
  ASSUME NEW c, CellsOK(c), NEW resync \in BOOLEAN
  PROVE  InFront(Scanned(c, resync), c)
<1> DEFINE n == Len(c)
<1>1. PICK g : /\ g[0] = [at |-> 1, m |-> Closed]
               /\ \A k \in 1 .. n : g[k] = Passed(c, resync, g[k - 1])
               /\ \A k \in 0 .. n : g[k] \in ScanStates(n)
               /\ Scanned(c, resync) = g[n].m
  BY ScanPasses
<1>2. n \in Nat
  BY DEF CellsOK, IsList
<1> DEFINE T == {k \in 0 .. n : Passing(g[k], c)}
<1>3. 0 \in T
  <2>1. Passing([at |-> 1, m |-> Closed], c)
    <3>1. DOMAIN Closed.files = {} /\ Closed.eoa = 1
      BY DEF Closed
    <3> QED BY <3>1 DEF Passing, InFront
  <2> QED BY <1>1, <1>2, <2>1
<1>4. ASSUME NEW k \in 0 .. n - 1, k \in T PROVE k + 1 \in T
  <2> HIDE DEF n
  <2>1. k + 1 \in 1 .. n /\ k + 1 \in 0 .. n /\ (k + 1) - 1 = k /\ k \in 0 .. n
    BY <1>2
  <2>2. g[k + 1] = Passed(c, resync, g[k]) /\ g[k] \in ScanStates(n) /\ Passing(g[k], c)
    BY <1>1, <1>4, <2>1
  <2>3. Passing(g[k + 1], c)
    BY <2>2, PassInFront DEF n
  <2> QED BY <2>1, <2>3
<1>5. n \in T
  <2> HIDE DEF T, n
  <2>1. \A k \in 0 .. n : k \in T
    BY <1>2, <1>3, <1>4, Counting
  <2> QED BY <1>2, <2>1
<1> QED BY <1>1, <1>5 DEF Passing

-----------------------------------------------------------------------------
(* recover(): what it writes.                                              *)

(* A write leaves what is in front of it.                                  *)
LEMMA OverwrittenFront ==
  ASSUME NEW c, NEW new, NEW at \in Nat \ {0}, IsList(c), IsList(new), NEW o, o = Overwritten(c, at, new)
  PROVE  IsList(o) /\ Len(o) \in Nat /\ \A i \in 1 .. Len(c) : i < at => o[i] = c[i]
<1>1. /\ IsList(o) /\ Len(o) \in Nat
      /\ \A i \in 1 .. Len(c) : i < at \/ i > at + Len(new) - 1 => o[i] = c[i]
  BY OverwrittenCells, SMTT(30)
<1> QED BY <1>1

(* recover() takes what a scan finds for the index, and writes behind it.  *)
LEMMA RecoverWrites ==
  ASSUME TypeInv, Recover
  PROVE  \E r \in usage.resync : \E x :
           /\ r \in BOOLEAN /\ x = Scanned(Image.cells, r) /\ Typed(x)
           /\ mem' = [x EXCEPT !.changed = TRUE]
           /\ \A i \in 1 .. Len(Image.cells) : i < x.eoa => CellAt(disk', i) = CellAt(Image, i)
<1>1. PICK r \in usage.resync :
        LET m == [Scanned(Image.cells, r) EXCEPT !.changed = TRUE] IN
        /\ disk' = Truncated(ApplyAll(Image, ClearFlag(mem) \o Finish(m)), m)
        /\ mem' = m
  BY DEF Recover
<1> DEFINE x == Scanned(Image.cells, r)
           m == [x EXCEPT !.changed = TRUE]
           p == ClearFlag(mem)
           q == Finish(m)
           c == Image.cells
<1>2. disk' = Truncated(ApplyAll(Image, p \o q), m) /\ mem' = m
  BY <1>1
<1>3. r \in BOOLEAN /\ FileTyped(Image) /\ DiskOK(Image) /\ CellsOK(Image.cells)
  BY UsageIs, StreamTyped DEF FileTyped, TypeInv
<1>4. Typed(x)
  BY <1>3, ScannedTyped
<1> HIDE DEF x
<1>5. Typed(m) /\ m.eoa = x.eoa /\ m.changed
  <2>1. Typed(m)
    BY <1>4, ChangedTyped
  <2>2. x = [files |-> x.files, empties |-> x.empties, eoa |-> x.eoa, changed |-> x.changed]
    BY <1>4 DEF Typed
  <2> QED BY <2>1, <2>2
<1>6. mem' = [x EXCEPT !.changed = TRUE]
  BY <1>2
<1> HIDE DEF m
<1> DEFINE d == ApplyAll(Image, p)
           T == TableCells(m)
           o == Overwritten(c, x.eoa, T)
           e == ApplyAll(d, q)
<1>7. RunsTyped(p) /\ Len(p) \in 0 .. 1
  BY OneRunTyped
<1>8. d.cells = c /\ FileTyped(d)
  <2>1. p = <<>> \/ p = <<FlagRun(0)>>
    BY DEF ClearFlag
  <2>2. ApplyAll(Image, <<>>) = Image
    BY ApplyNone
  <2>3. ApplyAll(Image, <<FlagRun(0)>>).cells = c
    <3> DEFINE f == FlagRun(0)
    <3>1. ApplyAll(Image, <<f>>) = Apply(Image, f)
      BY ApplyOne
    <3>2. Apply(Image, f) = [flag |-> 0, cells |-> Image.cells]
      BY <1>3, ApplyIs
    <3> QED BY <3>1, <3>2
  <2>4. Len(p) \in 0 .. 4
    BY <1>7
  <2> HIDE DEF p
  <2>5. FileTyped(d)
    BY <1>3, <1>7, <2>4, AppliedTyped
  <2> QED BY <2>1, <2>2, <2>3, <2>5
<1>9. /\ RunsTyped(q) /\ Len(q) \in 0 .. 2 /\ Ending(m) <= Len(e.cells) /\ e.cells = o
  <2> HIDE DEF d, p, T
  <2>1. /\ RunsTyped(q) /\ Len(q) \in 0 .. 2
        /\ Ending(m) <= Len(e.cells) /\ e.cells = Overwritten(d.cells, m.eoa, TableCells(m))
    BY <1>5, <1>8, FinishTyped
  <2> QED BY <1>5, <1>8, <2>1 DEF T
<1>10. ApplyAll(Image, p \o q) = e
  <2> HIDE DEF p, q
  <2>1. IsList(p) /\ IsList(q)
    BY <1>7, <1>9 DEF RunsTyped
  <2>2. Len(p) + Len(q) \in 0 .. 4
    <3> DEFINE a == Len(p)
               b == Len(q)
    <3>1. a \in 0 .. 1 /\ b \in 0 .. 2
      BY <1>7, <1>9
    <3> HIDE DEF a, b
    <3>2. a + b \in 0 .. 4
      BY <3>1
    <3> QED BY <3>2 DEF a, b
  <2> QED BY <2>1, <2>2, ApplyConcat DEF d
<1> HIDE DEF p, q, d
<1>11. disk'.cells = SubSeq(o, 1, Ending(m))
  <2>1. DiskOK(e)
    <3>1. FileTyped(e)
      <4>1. Len(q) \in 0 .. 4
        <5> DEFINE b == Len(q)
        <5>1. b \in 0 .. 2
          BY <1>9
        <5> HIDE DEF b
        <5>2. b \in 0 .. 4
          BY <5>1
        <5> QED BY <5>2 DEF b
      <4> QED BY <1>8, <1>9, <4>1, AppliedTyped
    <3> QED BY <3>1 DEF FileTyped
  <2> HIDE DEF e, o, T
  <2>2. disk' = [e EXCEPT !.cells = SubSeq(@, 1, Ending(m))]
    BY <1>2, <1>5, <1>10 DEF Truncated, Ending
  <2> QED BY <1>9, <2>1, <2>2 DEF DiskOK
<1>12. /\ IsList(c) /\ IsList(T) /\ x.eoa \in Nat \ {0} /\ Len(T) \in Nat /\ Len(T) >= 1
  <2>1. IsList(T) /\ Len(T) \in Nat /\ Len(T) >= 1
    <3>1. MemOK(m)
      BY <1>5, TypedIs
    <3>2. Layout(m, T)
      BY <3>1, TableLayout
    <3>3. IsList(T) /\ \E a \in Nat : \E b \in Nat : Len(T) = a + b + 3
      <4> HIDE DEF T
      <4> QED BY <3>2 DEF Layout
    <3> DEFINE l == Len(T)
    <3>4. \E a \in Nat : \E b \in Nat : l = a + b + 3
      BY <3>3
    <3> HIDE DEF l
    <3>5. l \in Nat /\ l >= 1
      BY <3>4
    <3> QED BY <3>3, <3>5 DEF l
  <2>2. IsList(c)
    BY <1>3 DEF CellsOK
  <2>3. x.eoa \in Nat \ {0}
    BY <1>4 DEF Typed
  <2> HIDE DEF T, c
  <2> QED BY <2>1, <2>2, <2>3
<1>13. /\ IsList(o) /\ Len(o) \in Nat /\ \A i \in 1 .. Len(c) : i < x.eoa => o[i] = c[i]
  <2> DEFINE at == x.eoa
  <2>1. o = Overwritten(c, at, T) /\ at \in Nat \ {0} /\ IsList(c) /\ IsList(T)
    BY <1>12
  <2> HIDE DEF o, T, c, at
  <2>2. IsList(o) /\ Len(o) \in Nat /\ \A i \in 1 .. Len(c) : i < at => o[i] = c[i]
    BY ONLY <2>1, OverwrittenFront
  <2> QED BY <2>2 DEF at
<1>14. Ending(m) = x.eoa + Len(T) - 1 /\ Ending(m) <= Len(o)
  BY <1>5, <1>9 DEF Ending
<1>15. ASSUME NEW i \in 1 .. Len(c), i < x.eoa PROVE CellAt(disk', i) = CellAt(Image, i)
  <2> DEFINE k == Ending(m)
             l == Len(T)
  <2>1. k \in Nat /\ i \in Nat /\ 1 <= i /\ i <= k /\ k <= Len(o)
    <3>1. l \in Nat /\ l >= 1 /\ x.eoa \in Nat /\ k = x.eoa + l - 1 /\ i \in Nat /\ 1 <= i
      BY <1>12, <1>14 DEF CellsOK, IsList
    <3>2. k <= Len(o)
      BY <1>14
    <3> HIDE DEF k, l, o, T
    <3> QED BY <1>15, <3>1, <3>2
  <2>2. Len(SubSeq(o, 1, k)) = k /\ SubSeq(o, 1, k)[i] = o[i]
    <3> DEFINE S == {o[j] : j \in 1 .. Len(o)}
    <3>1. o \in Seq(S)
      <4> HIDE DEF o
      <4> QED BY <1>13 DEF IsList
    <3> HIDE DEF o, S, k
    <3> QED BY <1>13, <2>1, <3>1
  <2> HIDE DEF k, o
  <2>3. i \in 1 .. Len(disk'.cells) /\ disk'.cells[i] = c[i]
    BY <1>11, <1>13, <1>15, <2>1, <2>2 DEF k
  <2> QED BY <2>3 DEF CellAt
<1> QED BY <1>3, <1>4, <1>6, <1>15 DEF x

(* What is in front of endOfArchive_ it leaves: a file that was completely in *)
(* the archive file, and that the index still has there, keeps its content.  *)
LEMMA RecoverKeepsFound ==
  ASSUME TypeInv, Recover, NEW n \in Name, Whole(Image, n),
         n \in DOMAIN mem'.files, mem'.files[n] = mem.files[n]
  PROVE  Contents'[n] = Contents[n]
<1> DEFINE c == Image.cells
           f == mem.files[n]
           h == f.pos + f.size + 1
<1>a. PICK r \in usage.resync : \E x :
        /\ r \in BOOLEAN /\ x = Scanned(c, r) /\ Typed(x)
        /\ mem' = [x EXCEPT !.changed = TRUE]
        /\ \A i \in 1 .. Len(c) : i < x.eoa => CellAt(disk', i) = CellAt(Image, i)
  BY RecoverWrites
<1>1. PICK x :
        /\ r \in BOOLEAN /\ x = Scanned(c, r) /\ Typed(x)
        /\ mem' = [x EXCEPT !.changed = TRUE]
        /\ \A i \in 1 .. Len(c) : i < x.eoa => CellAt(disk', i) = CellAt(Image, i)
  BY <1>a
<1>2. CellsOK(c) /\ Len(c) \in Nat
  BY StreamTyped DEF FileTyped, CellsOK, IsList
<1>3. mem'.files = x.files
  <2>1. x = [files |-> x.files, empties |-> x.empties, eoa |-> x.eoa, changed |-> x.changed]
    BY <1>1 DEF Typed
  <2> QED BY <1>1, <2>1
<1>4. status = "open" /\ status' = "open" /\ pending' = <<>>
  BY DEF Recover
<1>5. n \in DOMAIN mem.files /\ CellAt(Image, h) = End
  BY <1>4 DEF Whole
<1>6. n \in DOMAIN x.files /\ x.files[n] = f /\ f \in Piece
  <2>1. n \in DOMAIN x.files /\ x.files[n] = f
    BY <1>3
  <2>2. f \in Place
    BY <1>5 DEF Typed, TypeInv
  <2> QED BY <2>1, <2>2 DEF Place, Piece
<1>7. h \in 1 .. Len(c) /\ c[h] = End
  <2>1. [eof |-> TRUE] # End
    <3>1. "eof" \in DOMAIN [eof |-> TRUE] /\ "eof" \notin DOMAIN End
      BY DEF End
    <3> QED BY <3>1
  <2> QED BY <1>5, <2>1 DEF CellAt
<1>8. h < x.eoa
  <2>1. InFront(x, c)
    BY <1>1, <1>2, ScanEnds
  <2> HIDE DEF c, f
  <2> QED BY <1>2, <1>6, <1>7, <2>1 DEF InFront
<1>9. \A i \in f.pos + 1 .. f.pos + f.size : CellAt(disk', i) = CellAt(Image, i)
  <2> SUFFICES ASSUME NEW i \in f.pos + 1 .. f.pos + f.size PROVE CellAt(disk', i) = CellAt(Image, i)
    OBVIOUS
  <2>1. f.pos \in Nat /\ f.size \in Nat /\ x.eoa \in Nat
    BY <1>1, <1>6 DEF Piece, Typed
  <2> HIDE DEF c, f
  <2>2. i \in 1 .. Len(c) /\ i < x.eoa
    BY <1>2, <1>7, <1>8, <2>1
  <2> QED BY <1>1, <2>2
<1>10. Contents[n] = Content(mem.files, Image, n)
  BY <1>4 DEF Contents
<1>11. Contents'[n] = Content(x.files, disk', n)
  <2>1. Image' = disk'
    BY <1>4, ApplyNone DEF Image
  <2> QED BY <1>3, <1>4, <2>1 DEF Contents
<1>12. Content(x.files, disk', n) = Content(mem.files, Image, n)
  <2> DEFINE a == mem.files
             b == x.files
             e == disk'
  <2>1. n \in DOMAIN a /\ n \in DOMAIN b /\ a[n] = f /\ b[n] = f /\ f \in Piece
    BY <1>5, <1>6
  <2>2. \A i \in f.pos + 1 .. f.pos + f.size : CellAt(e, i) = CellAt(Image, i)
    BY <1>9
  <2> HIDE DEF a, b, e, f
  <2>3. Content(b, e, n) = Content(a, Image, n)
    BY <2>1, <2>2, SpanContent
  <2> QED BY <2>3 DEF a, b, e
<1> QED BY <1>10, <1>11, <1>12

(* An archive that was never scanned it finds again as its process has it. *)
LEMMA RecoverRefinds ==
  ASSUME TypeInv, KeepInv, Orderly, Recover, NEW n \in Name, Whole(Image, n)
  PROVE  n \in DOMAIN mem'.files /\ mem'.files[n] = mem.files[n]
<1> DEFINE c == Image.cells
<1>a. PICK r \in usage.resync : \E x :
        r \in BOOLEAN /\ x = Scanned(c, r) /\ Typed(x) /\ mem' = [x EXCEPT !.changed = TRUE]
  BY RecoverWrites
<1>1. PICK x :
        r \in BOOLEAN /\ x = Scanned(c, r) /\ Typed(x) /\ mem' = [x EXCEPT !.changed = TRUE]
  BY <1>a
<1>2. CellsOK(c)
  BY StreamTyped DEF FileTyped
<1>3. mem'.files = x.files
  <2>1. x = [files |-> x.files, empties |-> x.empties, eoa |-> x.eoa, changed |-> x.changed]
    BY <1>1 DEF Typed
  <2> QED BY <1>1, <2>1
<1>4. status = "open" /\ n \in DOMAIN mem.files /\ OInv /\ HeadInv
  BY DEF Recover, Whole, KeepInv, SInv
<1>5. Clean(mem, c)
  BY <1>4 DEF OInv, HeadInv, Clean
<1>6. Found(c, mem.files[n], n)
  BY <1>4, <1>5, CleanFound
<1>7. n \in DOMAIN x.files /\ x.files[n] = mem.files[n]
  <2> HIDE DEF c
  <2> QED BY <1>1, <1>2, <1>6, ScanFinds
<1> QED BY <1>3, <1>7

-----------------------------------------------------------------------------
(* What a process has scanned and not changed is what is in the file.      *)
ScanInv ==
  /\ pending # <<>> => status = "open" /\ mem.changed
  /\ status = "open" /\ ~mem.changed /\ disk.flag = 0
       => \E r \in usage.resync : mem = Scanned(disk.cells, r)

(* An operation that succeeds changes the index, or nothing.               *)
LEMMA RemovalChanges ==
  ASSUME NEW m, Typed(m), NEW n, NEW w, w = Removal(m, n)
  PROVE  (w.m = m /\ w.runs = <<>>) \/ w.m.changed
<1> DEFINE rest == [x \in DOMAIN m.files \ {n} |-> m.files[x]]
           gone == Gone(m, n)
<1>1. gone = [files |-> rest, empties |-> m.empties, eoa |-> m.eoa, changed |-> TRUE]
  BY GoneIs, Zenon
<1>2. \/ w.m = m /\ w.runs = <<>>
      \/ \E e : w.m = [gone EXCEPT !.eoa = e]
      \/ \E E : w.m = [gone EXCEPT !.empties = E]
  BY DEF Removal, Gone
<1> HIDE DEF gone, rest
<1>3. \A e, E : [gone EXCEPT !.eoa = e].changed /\ [gone EXCEPT !.empties = E].changed
  BY <1>1
<1> QED BY <1>2, <1>3

(* Each step keeps it.                                                     *)
LEMMA ScanStep ==
  ASSUME ScanInv, TypeInv, Next \/ UNCHANGED vars
  PROVE  ScanInv'
<1>1. usage' = usage
  BY CrashesCounted
<1>2. Typed(mem)
  BY DEF TypeInv
<1>3. CASE Open
  <2>1. status = "closed" /\ disk' = disk /\ pending = <<>>
    BY <1>3 DEF Open, ScanInv
  <2>2. CASE disk.flag = -1
    <3>1. mem' = [Closed EXCEPT !.changed = TRUE] /\ status' = "open"
      BY <1>3, <2>2 DEF Open
    <3>2. mem'.changed
      BY <3>1 DEF Closed
    <3> QED BY <3>1, <3>2 DEF ScanInv
  <2>3. CASE disk.flag # -1
    <3>1. pending' = <<>> /\ (status' = "open" => \E r \in usage.resync : mem' = Index(disk, r))
      BY <1>3, <2>1, <2>3 DEF Open
    <3> QED BY <1>1, <2>1, <3>1 DEF ScanInv, Index
  <2> QED BY <2>2, <2>3
<1>4. CASE ReadFile
  <2>1. mem.changed /\ mem' = mem /\ pending' = <<>>
    BY <1>4 DEF ReadFile, ScanInv, EmitAndFlush
  <2> QED BY <2>1 DEF ScanInv
<1>5. CASE ClearArchive
  <2>1. mem' = [Closed EXCEPT !.changed = TRUE] /\ pending' = <<>>
    BY <1>5 DEF ClearArchive
  <2>2. mem'.changed
    BY <2>1 DEF Closed
  <2> QED BY <2>1, <2>2 DEF ScanInv
<1>6. CASE Recover
  <2>1. pending' = <<>> /\ mem'.changed
    <3>1. PICK x : Typed(x) /\ mem' = [x EXCEPT !.changed = TRUE]
      BY <1>6, RecoverWrites
    <3> QED BY <1>6, <3>1 DEF Typed, Recover
  <2> QED BY <2>1 DEF ScanInv
<1>7. CASE Close
  BY <1>7 DEF Close, EmitAndFlush, ScanInv
<1>8. CASE Truncate
  BY <1>8 DEF Truncate, ScanInv
<1>9. ASSUME NEW n \in Name, RemoveFile(n) PROVE ScanInv'
  <2> DEFINE w == Removal(mem, n)
  <2>1. pending' = <<>> /\ disk' = ApplyAll(disk, pending \o w.runs) /\ status = "open"
    BY <1>9 DEF RemoveFile, EmitAndFlush
  <2>2. (mem' = w.m /\ status' = status) \/ status' = "aborted"
    BY <1>9 DEF RemoveFile
  <2>3. (w.m = mem /\ w.runs = <<>>) \/ w.m.changed
    BY <1>2, RemovalChanges
  <2> HIDE DEF w
  <2>4. CASE mem' = mem /\ w.runs = <<>> /\ ~mem.changed
    <3>1. pending = <<>>
      BY <2>4 DEF ScanInv
    <3>2. pending \o w.runs = <<>>
      BY <2>4, <3>1
    <3>3. disk' = disk
      BY <2>1, <3>2, ApplyNone
    <3> QED BY <1>1, <2>1, <2>4, <3>3 DEF ScanInv
  <2>5. CASE mem'.changed \/ status' = "aborted"
    BY <2>1, <2>5 DEF ScanInv
  <2> QED BY <2>2, <2>3, <2>4, <2>5
<1>10. ASSUME NEW n \in Name, NEW s \in usage.lengths, WriteFile(n, s) PROVE ScanInv'
  <2> DEFINE k == Replaced(n)
             a == Addition(k.m, n, ops', s)
  <2>1. \/ mem' = a.m /\ status' = status /\ status = "open"
        \/ EmitAndFlush(k.runs) /\ status' = "aborted"
    BY <1>10 DEF WriteFile
  <2>2. CASE mem' = a.m /\ status' = status /\ status = "open"
    <3>1. a.m.changed
      <4>1. Typed(k.m)
        <5>1. DiskOK(Image)
          BY StreamTyped
        <5>2. CASE n \in DOMAIN mem.files
          BY <1>2, <5>1, <5>2, RemovalTyped DEF Replaced
        <5>3. CASE n \notin DOMAIN mem.files
          BY <1>2, <5>3 DEF Replaced, NoRemoval
        <5> QED BY <5>2, <5>3
      <4> HIDE DEF k
      <4> DEFINE m == k.m
                 E == Addition(m, n, ops', s).m.empties
                 e == Addition(m, n, ops', s).m.eoa
                 F == Addition(m, n, ops', s).m.files
      <4>2. m = [files |-> m.files, empties |-> m.empties, eoa |-> m.eoa, changed |-> m.changed]
        BY <4>1 DEF Typed
      <4> HIDE DEF m
      <4>3. Addition(m, n, ops', s).m.changed
        BY <4>2 DEF Addition
      <4> QED BY <4>3 DEF m
    <3> HIDE DEF a
    <3> QED BY <2>2, <3>1 DEF ScanInv
  <2>3. CASE EmitAndFlush(k.runs) /\ status' = "aborted"
    BY <2>3 DEF ScanInv, EmitAndFlush
  <2> QED BY <2>1, <2>2, <2>3
<1>11. CASE Crash
  <2>1. ASSUME NEW runs, CrashDuring(runs) PROVE pending' = <<>> /\ status' = "closed"
    BY <2>1 DEF CrashDuring
  <2>2. CrashBeforeTruncate => pending' = <<>> /\ status' = "closed"
    BY DEF CrashBeforeTruncate, ScanInv
  <2>3. pending' = <<>> /\ status' = "closed"
    BY <1>11, <2>1, <2>2 DEF Crash, CrashIdle, CrashInFinish, CrashInRemove, CrashInWrite
  <2> QED BY <2>3 DEF ScanInv
<1>12. CASE Finished \/ UNCHANGED vars
  BY <1>12 DEF Finished, vars, ScanInv
<1> QED BY <1>3, <1>4, <1>5, <1>6, <1>7, <1>8, <1>9, <1>10, <1>11, <1>12 DEF Next

(* It holds in every run.                                                  *)
LEMMA ScanInvariance == Spec => []ScanInv
<1>1. Init => ScanInv
  BY DEF Init, ScanInv
<1>2. ScanInv /\ TypeInv /\ [Next]_vars => ScanInv'
  BY ScanStep
<1> QED BY <1>1, <1>2, TypeInvariance, PTL DEF Spec

(* What opening has found by scanning the next scan finds too.             *)
LEMMA RecoverRescans ==
  ASSUME TypeInv, ScanInv, JustScanned, Recover
  PROVE  mem'.files = mem.files
<1>a. PICK r \in usage.resync : \E x :
        x = Scanned(Image.cells, r) /\ Typed(x) /\ mem' = [x EXCEPT !.changed = TRUE]
  BY RecoverWrites
<1>1. PICK x :
        x = Scanned(Image.cells, r) /\ Typed(x) /\ mem' = [x EXCEPT !.changed = TRUE]
  BY <1>a
<1>2. status = "open" /\ ~mem.changed /\ disk.flag = 0 /\ \A s \in usage.resync : r = s
  BY DEF Recover, JustScanned
<1>3. PICK s \in usage.resync : mem = Scanned(disk.cells, s)
  BY <1>2 DEF ScanInv
<1>4. Image = disk
  <2>1. pending = <<>>
    BY <1>2 DEF ScanInv
  <2> QED BY <2>1, ApplyNone DEF Image
<1>5. x = mem
  BY <1>1, <1>2, <1>3, <1>4
<1>6. x = [files |-> x.files, empties |-> x.empties, eoa |-> x.eoa, changed |-> x.changed]
  BY <1>1 DEF Typed
<1> QED BY <1>1, <1>5, <1>6

(* recover() finds every complete file of an archive that was never scanned *)
(* or has just been, and whatever the archive has been through, it does not *)
(* write its table over a complete file that it has found (recover and     *)
(* scanArchive); for all names, lengths, crashes and numbers of operations. *)
THEOREM RecoverKeeps == Spec => RecoverLosesNothing
<1>1. KeepInv /\ TypeInv /\ ScanInv /\ Recover
        => \A n \in Name : Whole(Image, n) =>
             LET refound == n \in DOMAIN mem'.files /\ mem'.files[n] = mem.files[n] IN
             /\ Orderly \/ JustScanned => refound
             /\ refound => Contents'[n] = Contents[n]
  <2> SUFFICES ASSUME KeepInv, TypeInv, ScanInv, Recover, NEW n \in Name, Whole(Image, n)
               PROVE  LET refound == n \in DOMAIN mem'.files /\ mem'.files[n] = mem.files[n] IN
                      /\ Orderly \/ JustScanned => refound
                      /\ refound => Contents'[n] = Contents[n]
    OBVIOUS
  <2> DEFINE refound == n \in DOMAIN mem'.files /\ mem'.files[n] = mem.files[n]
  <2>1. Orderly => refound
    BY RecoverRefinds
  <2>2. JustScanned => refound
    <3>1. n \in DOMAIN mem.files
      BY DEF Whole, Recover
    <3> QED BY <3>1, RecoverRescans
  <2>3. refound => Contents'[n] = Contents[n]
    BY RecoverKeepsFound
  <2> QED BY <2>1, <2>2, <2>3
<1>2. KeepInv /\ TypeInv /\ ScanInv /\ [Next]_vars
        => [Recover =>
              \A n \in Name : Whole(Image, n) =>
                LET refound == n \in DOMAIN mem'.files /\ mem'.files[n] = mem.files[n] IN
                /\ Orderly \/ JustScanned => refound
                /\ refound => Contents'[n] = Contents[n]]_vars
  BY <1>1
<1> QED BY <1>2, KeepInvariance, TypeInvariance, ScanInvariance, PTL DEF Spec, RecoverLosesNothing
=============================================================================
