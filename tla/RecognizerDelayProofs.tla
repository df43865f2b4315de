----------------------- MODULE RecognizerDelayProofs -----------------------
(***************************************************************************)
(* Proofs about RecognizerDelay, for every ring size, every look-ahead and *)
(* both drivers.                                                           *)
(***************************************************************************)
EXTENDS RecognizerDelay, WellFoundedInduction, TLAPS

(* The larger and the smaller of two numbers.                              *)
LEMMA MaxOfTwo ==
  ASSUME NEW a \in Int, NEW b \in Int
  PROVE  Max({a, b}) = IF a >= b THEN a ELSE b
BY DEF Max

(* The smaller of two numbers, as the ring and the buffer are compared.    *)
LEMMA MinOfTwo ==
  ASSUME NEW a \in Int, NEW b \in Int
  PROVE  Min({a, b}) = IF a <= b THEN a ELSE b
BY DEF Min

(* A position one round further is the same position of the ring.          *)
LEMMA RingMod ==
  ASSUME NEW n \in Nat \ {0}, NEW x \in 0 .. 2 * n - 1
  PROVE  x % n = IF x < n THEN x ELSE x - n
OBVIOUS

(* Position i of the window that begins at c.                              *)
At(c, i, n) == (c + i - 1) % n

(* The position a place of the window is at, without the remainder.        *)
LEMMA AtValue ==
  ASSUME NEW n \in Nat \ {0}, NEW c \in 0 .. n - 1, NEW i \in 1 .. n
  PROVE  At(c, i, n) = IF c + i - 1 < n THEN c + i - 1 ELSE c + i - 1 - n
<1> DEFINE x == c + i - 1
<1>1. x \in 0 .. 2 * n - 1
  OBVIOUS
<1>2. x % n = IF x < n THEN x ELSE x - n
  <2> HIDE DEF x
  <2> QED BY <1>1, RingMod
<1> QED BY <1>2 DEF At

(* A place of the window is a position of the ring.                        *)
LEMMA AtPosition ==
  ASSUME NEW n \in Nat \ {0}, NEW c \in 0 .. n - 1, NEW i \in 1 .. n
  PROVE  At(c, i, n) \in 0 .. n - 1
BY AtValue

(* Different places of the window are different positions.                 *)
LEMMA AtInjective ==
  ASSUME NEW n \in Nat \ {0}, NEW c \in 0 .. n - 1, NEW i \in 1 .. n, NEW j \in 1 .. n,
         At(c, i, n) = At(c, j, n)
  PROVE  i = j
<1>1. At(c, i, n) = IF c + i - 1 < n THEN c + i - 1 ELSE c + i - 1 - n
  BY AtValue
<1>2. At(c, j, n) = IF c + j - 1 < n THEN c + j - 1 ELSE c + j - 1 - n
  BY AtValue
<1>3. (IF c + i - 1 < n THEN c + i - 1 ELSE c + i - 1 - n)
        = (IF c + j - 1 < n THEN c + j - 1 ELSE c + j - 1 - n)
  BY <1>1, <1>2
<1> QED BY <1>3

(* The window begins at c, and the position before c is its last one.      *)
LEMMA AtEnds ==
  ASSUME NEW n \in Nat \ {0}, NEW c \in 0 .. n - 1
  PROVE  /\ At(c, 1, n) = c
         /\ At(c, n, n) = IF c # 0 THEN (c - 1) % n ELSE n - 1
<1>1. n \in 1 .. n /\ 1 \in 1 .. n
  OBVIOUS
<1>2. At(c, 1, n) = c
  BY <1>1, AtValue
<1>3. At(c, n, n) = IF c # 0 THEN c - 1 ELSE n - 1
  BY <1>1, AtValue
<1>4. c # 0 => c - 1 \in 0 .. 2 * n - 1 /\ c - 1 < n
  OBVIOUS
<1>5. c # 0 => (c - 1) % n = c - 1
  BY <1>4, RingMod
<1> QED BY <1>2, <1>3, <1>5

(* A window that begins one position later.                                *)
LEMMA AtNext ==
  ASSUME NEW n \in Nat \ {0}, NEW c \in 0 .. n - 1
  PROVE  /\ (c + 1) % n \in 0 .. n - 1
         /\ \A i \in 1 .. n - 1 : At((c + 1) % n, i, n) = At(c, i + 1, n)
<1> DEFINE x == c + 1
<1>1. x \in 0 .. 2 * n - 1
  OBVIOUS
<1>2. x % n = IF x < n THEN x ELSE x - n
  <2> HIDE DEF x
  <2> QED BY <1>1, RingMod
<1> DEFINE d == (c + 1) % n
<1>3. d \in 0 .. n - 1
  BY <1>2
<1> SUFFICES ASSUME NEW i \in 1 .. n - 1 PROVE At(d, i, n) = At(c, i + 1, n)
  BY <1>3
<1> HIDE DEF d
<1>4. i \in 1 .. n /\ i + 1 \in 1 .. n
  OBVIOUS
<1>5. At(d, i, n) = IF d + i - 1 < n THEN d + i - 1 ELSE d + i - 1 - n
  BY <1>3, <1>4, AtValue
<1>6. At(c, i + 1, n) = IF c + (i + 1) - 1 < n THEN c + (i + 1) - 1 ELSE c + (i + 1) - 1 - n
  BY <1>4, AtValue
<1>7. d = IF c + 1 < n THEN c + 1 ELSE c + 1 - n
  BY <1>2 DEF d
<1> QED BY <1>5, <1>6, <1>7

-----------------------------------------------------------------------------
(* The invariant.                                                          *)

Value == Feature \cup {Zero}
ScorerOf(kind, n) ==
  [kind : {kind}, n : {n}, ring : [0 .. n - 1 -> Value], scored : [0 .. n - 1 -> Value \cup {None}],
   filled : 0 .. n - 1, cur : 0 .. n - 1]

Types ==
  /\ config \in Config
  /\ scorer \in ScorerOf(config.kind, config.n)
  /\ buffer \in Seq(Feature) /\ Len(buffer) <= BufferSize
  /\ offset \in Nat /\ starting \in BOOLEAN /\ failed \in BOOLEAN
  /\ phase \in {"idle", "in", "leaving"}
  /\ added \in 0 .. MaxFeatures /\ segments \in 0 .. MaxSegments
  /\ fed \in [feature : Feature \cup {0}, score : Value \cup {None}]

(* The ring in use: the scorer has been started in this segment.           *)
InUse == IsBuffered /\ ~starting /\ phase # "idle"

(* How much the ring holds.  featureScorerOffset_ is one less than the     *)
(* ring, unless the segment ended before the ring was full: then it is the *)
(* number of features of the segment and they are all in the ring.  As     *)
(* long as the segment goes on the delay is at its full length.            *)
Counted ==
  /\ starting \/ ~IsBuffered => scorer.filled = 0
  /\ ~IsBuffered => offset = 0
  /\ phase = "idle" /\ config.driver = "flf" => buffer = <<>> /\ (IsBuffered => starting)
  /\ InUse => /\ scorer.filled = Min({config.n - 1, Len(buffer)})
              /\ offset <= config.n - 1
              /\ phase = "in" \/ Len(buffer) > offset => offset = config.n - 1
              /\ phase = "in" => Len(buffer) = BufferSize

(* The delay buffer holds the features added last, in order, and the one   *)
(* before them is the one the search was fed last.                         *)
InOrder ==
  phase # "idle" =>
    /\ fed.feature = added - Len(buffer)
    /\ \A i \in 1 .. Len(buffer) : buffer[i] = fed.feature + i

CInv == Types /\ Counted /\ InOrder /\ RequirementsKept

(* Flf does not reset the scorer: the ring of Mm would go on where the     *)
(* last segment left it.                                                   *)
MmIsReset == \A c \in Config : c.kind = "mm" => c.driver = "speech"

(* The m positions from the current one on hold the first m features of b, *)
(* and scores of theirs if any.                                            *)
Window(s, n, b, m) ==
  \A i \in 1 .. m : LET p == At(s.cur, i, n) IN
                   s.ring[p] = b[i] /\ s.scored[p] \in {None, b[i]}

(* What the ring holds: a ring that will be started is at its first        *)
(* position, and no score is cached that addFeature will not forget; one   *)
(* in use holds the first features of the delay buffer.                    *)
Holds ==
  /\ IsBuffered /\ starting =>
       scorer.cur = 0 /\ (config.kind = "mm" => \A p \in 0 .. config.n - 1 : scorer.scored[p] = None)
  /\ config.kind = "nn" /\ scorer.filled = 0 => scorer.cur = 0
  /\ InUse => Window(scorer, config.n, buffer, scorer.filled)

DInv == CInv /\ Holds /\ OwnScore

-----------------------------------------------------------------------------
(* The operations of a scorer keep it a scorer of its kind and size, and   *)
(* do the following to its parts.                                          *)

(* A scorer is a record of these parts.                                    *)
LEMMA ScorerIs ==
  ASSUME NEW k, NEW n, NEW s \in ScorerOf(k, n)
  PROVE  /\ s.kind = k /\ s.n = n
         /\ s.ring \in [0 .. n - 1 -> Value] /\ s.scored \in [0 .. n - 1 -> Value \cup {None}]
         /\ s.filled \in 0 .. n - 1 /\ s.cur \in 0 .. n - 1
BY DEF ScorerOf

(* reset() of a scorer empties the ring and forgets all scores.            *)
LEMMA ResetScorerIs ==
  ASSUME NEW k, NEW n \in Nat \ {0}, NEW s \in ScorerOf(k, n)
  PROVE  /\ ResetScorer(s) \in ScorerOf(k, n)
         /\ ResetScorer(s).filled = 0 /\ ResetScorer(s).cur = 0
         /\ \A p \in 0 .. n - 1 : ResetScorer(s).scored[p] = None
<1> DEFINE none == [p \in 0 .. n - 1 |-> None]
<1>1. ResetScorer(s) = [s EXCEPT !.scored = none, !.filled = 0, !.cur = 0]
  BY ScorerIs DEF ResetScorer, Everywhere, Position
<1>2. 0 \in 0 .. n - 1 /\ s.ring \in [0 .. n - 1 -> Value] /\ none \in [0 .. n - 1 -> Value \cup {None}]
  BY ScorerIs
<1>3. \A p \in 0 .. n - 1 : none[p] = None
  OBVIOUS
<1> HIDE DEF none
<1>4. ResetScorer(s) \in ScorerOf(k, n) /\ ResetScorer(s).filled = 0 /\ ResetScorer(s).cur = 0
        /\ ResetScorer(s).scored = none
  BY <1>1, <1>2 DEF ScorerOf
<1> QED BY <1>3, <1>4

(* Flushing until the ring is empty leaves an empty ring, which for Nn     *)
(* begins at its first position again.                                     *)
LEMMA DrainedIs ==
  ASSUME NEW k, NEW n \in Nat \ {0}, NEW s \in ScorerOf(k, n)
  PROVE  /\ Drained(s) \in ScorerOf(k, n)
         /\ Drained(s).filled = 0
         /\ s.filled = 0 => Drained(s) = s
         /\ s.filled # 0 /\ k = "nn" => Drained(s).cur = 0
<1> USE DEF Drained, BufferEmpty, Everywhere, Position, Value
<1>1. CASE s.filled = 0
  BY <1>1 DEF ScorerOf
<1>2. CASE s.filled # 0 /\ k = "nn"
  <2> DEFINE zeros == [p \in 0 .. n - 1 |-> Zero]
  <2>1. Drained(s) = [s EXCEPT !.ring = zeros, !.cur = 0, !.filled = 0]
    <3>1. ~(s.filled = 0) /\ s.kind = "nn" /\ s.n = n
      BY <1>2, ScorerIs
    <3> QED BY <3>1
  <2>2. 0 \in 0 .. n - 1 /\ zeros \in [0 .. n - 1 -> Value]
        /\ s.scored \in [0 .. n - 1 -> Value \cup {None}]
    BY ScorerIs
  <2> HIDE DEF zeros, Drained
  <2>3. Drained(s) \in ScorerOf(k, n) /\ Drained(s).filled = 0 /\ Drained(s).cur = 0
    BY <2>1, <2>2 DEF ScorerOf
  <2> QED BY <1>2, <2>3
<1>3. CASE s.filled # 0 /\ k # "nn"
  <2> DEFINE x == s.cur + s.filled
  <2>1. x \in 0 .. 2 * n - 1
    BY DEF ScorerOf
  <2>2. Drained(s) = [s EXCEPT !.cur = x % n, !.filled = 0]
    <3>1. ~(s.filled = 0) /\ ~(s.kind = "nn") /\ s.n = n
      BY <1>3, ScorerIs
    <3> QED BY <3>1
  <2> HIDE DEF x, Drained
  <2>3. x % n \in 0 .. n - 1 /\ 0 \in 0 .. n - 1
    <3>1. x % n = IF x < n THEN x ELSE x - n
      BY <2>1, RingMod
    <3> QED BY <2>1, <3>1
  <2> DEFINE y == x % n
  <2>4. y \in 0 .. n - 1 /\ Drained(s) = [s EXCEPT !.cur = y, !.filled = 0]
    BY <2>2, <2>3
  <2> HIDE DEF y
  <2>5. Drained(s) \in ScorerOf(k, n) /\ Drained(s).filled = 0
    BY <2>3, <2>4 DEF ScorerOf
  <2> QED BY <1>3, <2>5
<1> QED BY <1>1, <1>2, <1>3

(* What initializeBatchScorer() makes of an empty ring: the first features *)
(* of b, as many as fit, from its first position on.                       *)
LoadedWell(k, n, s, b) ==
  LET m == Min({n - 1, Len(b)})
      l == Loaded(s, b) IN
  /\ m \in 0 .. n - 1 /\ m <= Len(b) /\ (m = n - 1 \/ m = Len(b))
  /\ l.offset = m /\ l.s \in ScorerOf(k, n)
  /\ l.s.filled = m /\ l.s.cur = s.cur
  /\ \A p \in 0 .. m - 1 : l.s.ring[p] = b[p + 1]
  /\ \A p \in 0 .. m - 1 : l.s.scored[p] = IF k = "nn" THEN None ELSE s.scored[p]

(* initializeBatchScorer() on an empty ring.                               *)
LEMMA LoadedIs ==
  ASSUME NEW k, NEW n \in Nat \ {0}, NEW s \in ScorerOf(k, n), s.filled = 0,
         NEW b \in Seq(Feature)
  PROVE  LoadedWell(k, n, s, b)
<1> DEFINE m == Min({n - 1, Len(b)})
           l == Loaded(s, b)
<1>1. m = IF n - 1 <= Len(b) THEN n - 1 ELSE Len(b)
  <2>1. n - 1 \in Int /\ Len(b) \in Int
    OBVIOUS
  <2> QED BY <2>1, MinOfTwo
<1>2. m \in 0 .. n - 1 /\ m <= Len(b) /\ (m = n - 1 \/ m = Len(b))
  BY <1>1
<1>3. s.n = n /\ s.kind = k /\ Missing(s, b) = m /\ Loading(s, b) = 0 .. m - 1
  <2>1. s.n = n /\ s.kind = k
    BY DEF ScorerOf
  <2>2. Missing(s, b) = Min({n - 1 - 0, Len(b)}) /\ n - 1 - 0 = n - 1
    BY <2>1 DEF Missing
  <2>3. Missing(s, b) = m
    BY <2>2
  <2> QED BY <2>1, <2>3, <1>2 DEF Loading
<1> HIDE DEF m
<1> DEFINE ring == [p \in 0 .. n - 1 |-> IF p \in 0 .. m - 1 THEN b[p + 1] ELSE s.ring[p]]
           scored == [p \in 0 .. n - 1 |-> IF p \in 0 .. m - 1 /\ k = "nn" THEN None ELSE s.scored[p]]
<1>4. \A p \in 0 .. m - 1 : p \in 0 .. n - 1 /\ p - 0 + 1 = p + 1 /\ p + 1 \in 1 .. Len(b)
  BY <1>2
<1>5. ring \in [0 .. n - 1 -> Value] /\ scored \in [0 .. n - 1 -> Value \cup {None}]
  <2>1. \A p \in 0 .. m - 1 : b[p + 1] \in Value
    BY <1>4 DEF Value
  <2> QED BY <2>1, ScorerIs
<1>6. l.offset = m /\ l.s = [s EXCEPT !.ring = ring, !.scored = scored, !.filled = m]
  <2>1. ring = [p \in 0 .. n - 1 |-> IF p \in 0 .. m - 1 THEN b[p - 0 + 1] ELSE s.ring[p]]
    BY <1>4
  <2>2. 0 + m = m
    BY <1>2
  <2>3. s.n = n /\ s.kind = k /\ s.filled = 0
    BY ScorerIs
  <2>4. l = [s |-> [s EXCEPT !.ring = ring, !.scored = scored, !.filled = 0 + m], offset |-> m]
    BY <1>3, <2>1, <2>3 DEF Loaded, Position
  <2> HIDE DEF l, ring, scored
  <2> QED BY <2>2, <2>4
<1>7. /\ \A p \in 0 .. m - 1 : ring[p] = b[p + 1]
      /\ \A p \in 0 .. m - 1 : scored[p] = IF k = "nn" THEN None ELSE s.scored[p]
  BY <1>4
<1> HIDE DEF ring, scored, l
<1>8. s.cur \in 0 .. n - 1
  BY ScorerIs
<1>9. /\ l.offset = m /\ l.s \in ScorerOf(k, n) /\ l.s.filled = m /\ l.s.cur = s.cur
      /\ l.s.ring = ring /\ l.s.scored = scored
  BY <1>2, <1>5, <1>6, <1>8 DEF ScorerOf
<1> QED BY <1>2, <1>7, <1>9 DEF m, l, LoadedWell

(* getScorer() hands out the current position, puts the new feature at the *)
(* end of the window and moves on.                                         *)
LEMMA GetScorerIs ==
  ASSUME NEW k, NEW n \in Nat \ {0}, NEW s \in ScorerOf(k, n), NEW f \in Feature
  PROVE  LET r == GetScorer(s, f)
             last == At(s.cur, n, n) IN
         /\ r.pos = s.cur /\ r.length >= 1 /\ r.s \in ScorerOf(k, n)
         /\ r.s.filled = s.filled /\ r.s.cur = (s.cur + 1) % n
         /\ \A p \in 0 .. n - 1 : /\ r.s.ring[p] = IF p = last THEN f ELSE s.ring[p]
                                  /\ r.s.scored[p] = IF p = last THEN None ELSE s.scored[p]
<1> DEFINE r == GetScorer(s, f)
           last == At(s.cur, n, n)
<1>1. s.cur \in 0 .. n - 1 /\ s.n = n /\ s.kind = k /\ s.filled \in 0 .. n - 1
  BY DEF ScorerOf
<1>2. Behind(s) = last
  BY <1>1, AtEnds DEF Behind
<1>3. last \in 0 .. n - 1 /\ (s.cur + 1) % n \in 0 .. n - 1
  <2>1. n \in 1 .. n
    OBVIOUS
  <2> QED BY <1>1, <2>1, AtPosition, AtNext
<1> DEFINE ring == [s.ring EXCEPT ![last] = f]
           scored == [s.scored EXCEPT ![last] = None]
           next == (s.cur + 1) % n
<1>4. /\ r.pos = s.cur /\ r.length = s.filled + 1
      /\ r.s = [s EXCEPT !.ring[last] = f, !.scored[last] = None, !.cur = next]
  BY <1>1, <1>2 DEF GetScorer, Advanced
<1> HIDE DEF last, r
<1>5. ring \in [0 .. n - 1 -> Value] /\ scored \in [0 .. n - 1 -> Value \cup {None}]
  BY ScorerIs DEF Value
<1>6. \A p \in 0 .. n - 1 : /\ ring[p] = IF p = last THEN f ELSE s.ring[p]
                           /\ scored[p] = IF p = last THEN None ELSE s.scored[p]
  BY <1>3, ScorerIs
<1> HIDE DEF ring, scored, next
<1>7. next \in 0 .. n - 1
  BY <1>3 DEF next
<1>8. r.pos = s.cur /\ r.length >= 1
  BY <1>1, <1>4
<1>9. /\ r.s \in ScorerOf(k, n) /\ r.s.ring = ring /\ r.s.scored = scored
      /\ r.s.filled = s.filled /\ r.s.cur = next
  <2>1. r.s = [s EXCEPT !.ring = ring, !.scored = scored, !.cur = next]
    BY <1>4 DEF ring, scored
  <2> QED BY <1>5, <1>7, <2>1 DEF ScorerOf
<1> QED BY <1>6, <1>8, <1>9 DEF last, r, next

(* What a scorer that flush() hands out is.                                *)
FlushGives(r, k, n, s) ==
  /\ r.pos = s.cur /\ r.length >= 1 /\ r.s \in ScorerOf(k, n)
  /\ r.s.filled = s.filled - 1 /\ r.s.scored = s.scored
  /\ IF s.filled = 1 /\ k = "nn"
     THEN r.s.cur = 0 /\ \A p \in 0 .. n - 1 : r.s.ring[p] = Zero
     ELSE r.s.cur = (s.cur + 1) % n /\ r.s.ring = s.ring

(* flush() hands out the current position and moves on; Nn sets the ring   *)
(* to zero with the last one.                                              *)
LEMMA FlushIs ==
  ASSUME NEW k, NEW n \in Nat \ {0}, NEW s \in ScorerOf(k, n), s.filled # 0
  PROVE  FlushGives(Flush(s), k, n, s)
<1> DEFINE r == Flush(s)
           next == (s.cur + 1) % n
           left == s.filled - 1
           zeros == [p \in 0 .. n - 1 |-> Zero]
<1>1. s.cur \in 0 .. n - 1 /\ s.n = n /\ s.kind = k /\ s.filled \in 1 .. n - 1
  BY ScorerIs
<1>2. next \in 0 .. n - 1 /\ 0 \in 0 .. n - 1 /\ left \in 0 .. n - 1 /\ s.filled >= 1
  <2>1. next \in 0 .. n - 1
    BY <1>1, AtNext
  <2> HIDE DEF next
  <2> QED BY <1>1, <2>1
<1>3. /\ s.ring \in [0 .. n - 1 -> Value] /\ s.scored \in [0 .. n - 1 -> Value \cup {None}]
      /\ zeros \in [0 .. n - 1 -> Value] /\ \A p \in 0 .. n - 1 : zeros[p] = Zero
  BY ScorerIs DEF Value
<1>4. CASE s.filled = 1 /\ k = "nn"
  <2>1. /\ r.pos = s.cur /\ r.length = s.filled
        /\ r.s = [s EXCEPT !.ring = zeros, !.cur = 0, !.filled = left]
    BY <1>1, <1>4 DEF Flush, Everywhere, Position
  <2> HIDE DEF r, next, left, zeros
  <2>2. r.pos = s.cur /\ r.length >= 1
    BY <1>2, <2>1
  <2>3. /\ r.s \in ScorerOf(k, n) /\ r.s.ring = zeros /\ r.s.scored = s.scored
        /\ r.s.filled = left /\ r.s.cur = 0
    BY <1>2, <1>3, <2>1 DEF ScorerOf
  <2>4. FlushGives(r, k, n, s)
    BY <1>3, <1>4, <2>2, <2>3 DEF FlushGives, left
  <2> QED BY <2>4 DEF r
<1>5. CASE ~(s.filled = 1 /\ k = "nn")
  <2>1. /\ r.pos = s.cur /\ r.length = s.filled
        /\ r.s = [s EXCEPT !.ring = s.ring, !.cur = next, !.filled = left]
    BY <1>1, <1>5 DEF Flush, Advanced
  <2> HIDE DEF r, next, left, zeros
  <2>2. r.pos = s.cur /\ r.length >= 1
    BY <1>2, <2>1
  <2>3. /\ r.s \in ScorerOf(k, n) /\ r.s.ring = s.ring /\ r.s.scored = s.scored
        /\ r.s.filled = left /\ r.s.cur = next
    BY <1>2, <1>3, <2>1 DEF ScorerOf
  <2>4. FlushGives(r, k, n, s)
    BY <1>5, <2>2, <2>3 DEF FlushGives, left, next
  <2> QED BY <2>4 DEF r
<1> QED BY <1>4, <1>5

(* A score that is asked for is the cached one, or is computed from what   *)
(* the ring holds at the position; the scores that are computed with it    *)
(* are those of what the ring holds at theirs.                             *)
LEMMA AskedIs ==
  ASSUME NEW k, NEW n \in Nat \ {0}, NEW r, r.s \in ScorerOf(k, n),
         r.pos \in 0 .. n - 1, r.length \in Nat \ {0}
  PROVE  LET t == Asked(r) IN
         /\ t \in ScorerOf(k, n)
         /\ t.ring = r.s.ring /\ t.filled = r.s.filled /\ t.cur = r.s.cur
         /\ \A p \in 0 .. n - 1 : t.scored[p] \in {r.s.scored[p], r.s.ring[p]}
         /\ t.scored[r.pos] = IF r.s.scored[r.pos] # None THEN r.s.scored[r.pos] ELSE r.s.ring[r.pos]
<1> DEFINE t == Asked(r)
<1>1. CASE r.s.scored[r.pos] # None
  BY <1>1 DEF Asked
<1>2. CASE r.s.scored[r.pos] = None
  <2> DEFINE C == Covered(r)
  <2>1. r.s.n = n
    BY DEF ScorerOf
  <2>2. r.pos \in C
    <3>1. CASE r.s.kind = "nn"
      BY <2>1, <3>1 DEF Covered, Position
    <3>2. CASE r.s.kind # "nn"
      <4> DEFINE x == r.pos
      <4>1. x \in 0 .. 2 * n - 1 /\ x < n
        OBVIOUS
      <4>2. x % n = x
        <5> HIDE DEF x
        <5> QED BY <4>1, RingMod
      <4>3. 0 \in 0 .. r.length - 1 /\ (r.pos + 0) % n = r.pos
        BY <4>2
      <4> QED BY <2>1, <3>2, <4>3 DEF Covered
    <3> QED BY <3>1, <3>2
  <2> HIDE DEF C
  <2>3. t = [r.s EXCEPT !.scored = [p \in 0 .. n - 1 |-> IF p \in C THEN r.s.ring[p] ELSE r.s.scored[p]]]
    BY <1>2, <2>1 DEF Asked, Position, C
  <2> HIDE DEF t
  <2>4. t \in ScorerOf(k, n)
    BY <2>3 DEF ScorerOf
  <2>5. t.ring = r.s.ring /\ t.filled = r.s.filled /\ t.cur = r.s.cur
    BY <2>3 DEF ScorerOf
  <2>6. \A p \in 0 .. n - 1 : t.scored[p] = IF p \in C THEN r.s.ring[p] ELSE r.s.scored[p]
    BY <2>3 DEF ScorerOf
  <2> QED BY <1>2, <2>2, <2>4, <2>5, <2>6 DEF t
<1> QED BY <1>1, <1>2

(* What the search gets to know of a scorer it was fed.                    *)
GivenScore(r) == IF r.s.scored[r.pos] # None THEN r.s.scored[r.pos] ELSE r.s.ring[r.pos]

(* t is the scorer r.s after the search may have asked for its score.      *)
MayBeAsked(t, r, n) ==
  /\ t.ring = r.s.ring /\ t.filled = r.s.filled /\ t.cur = r.s.cur
  /\ \A p \in 0 .. n - 1 : t.scored[p] \in {r.s.scored[p], r.s.ring[p]}

(* Feeding the search with a buffered scorer: it may ask for the score.    *)
LEMMA FeedIs ==
  ASSUME config \in Config, IsBuffered, NEW r, r.s \in ScorerOf(config.kind, config.n),
         r.pos \in 0 .. config.n - 1, r.length \in Nat \ {0},
         NEW f \in Feature, Feed(f, r)
  PROVE  /\ scorer' \in ScorerOf(config.kind, config.n) /\ MayBeAsked(scorer', r, config.n)
         /\ fed' \in [feature : Feature \cup {0}, score : Value \cup {None}]
         /\ fed'.feature = f /\ fed'.score \in {None, GivenScore(r)}
<1> DEFINE n == config.n
           k == config.kind
<1>1. n \in Nat \ {0}
  BY ConfigAssumption
<1> HIDE DEF n, k
<1>2. r.s \in ScorerOf(k, n) /\ r.pos \in 0 .. n - 1
  BY DEF n, k
<1>3. GivenScore(r) \in Value \cup {None}
  <2>1. r.s.ring \in [0 .. n - 1 -> Value] /\ r.s.scored \in [0 .. n - 1 -> Value \cup {None}]
    BY <1>2, ScorerIs
  <2>2. r.s.ring[r.pos] \in Value /\ r.s.scored[r.pos] \in Value \cup {None}
    BY <1>2, <2>1
  <2> QED BY <2>2 DEF GivenScore
<1>4. PICK asked \in BOOLEAN :
        /\ scorer' = IF asked THEN Asked(r) ELSE r.s
        /\ fed' = [feature |-> f,
                   score |-> IF ~asked THEN None ELSE (IF asked THEN Asked(r) ELSE r.s).scored[r.pos]]
  BY DEF Feed
<1>5. CASE asked
  <2>1. scorer' = Asked(r) /\ fed' = [feature |-> f, score |-> Asked(r).scored[r.pos]]
    BY <1>4, <1>5
  <2>2. Asked(r) \in ScorerOf(k, n) /\ MayBeAsked(Asked(r), r, n)
        /\ Asked(r).scored[r.pos] = GivenScore(r)
    BY <1>1, <1>2, AskedIs DEF MayBeAsked, GivenScore
  <2> QED BY <1>3, <2>1, <2>2 DEF n, k
<1>6. CASE ~asked
  <2>1. scorer' = r.s /\ fed' = [feature |-> f, score |-> None]
    BY <1>4, <1>6
  <2> QED BY <1>2, <2>1 DEF n, k, MayBeAsked
<1> QED BY <1>5, <1>6

(* Feeding the search with a scorer that does not buffer.                  *)
LEMMA FeedPlain ==
  ASSUME ~IsBuffered, NEW s, NEW f \in Feature, NEW g \in Feature, Feed(f, ScorerFor(s, g))
  PROVE  /\ scorer' = s
         /\ fed' \in [feature : Feature \cup {0}, score : Value \cup {None}]
         /\ fed'.feature = f /\ fed'.score \in {None, g}
BY DEF Feed, ScorerFor, Value

(* The scorer t and the score g after a step that took the first feature   *)
(* of all: with a new feature for the ring, or from what the ring has.     *)
AfterTake(t, n, all, g) ==
  t.filled = n - 1 /\ Window(t, n, Tail(all), n - 1) /\ g = Head(all)

AfterFlush(t, k, n, all, g) ==
  /\ t.filled = Len(all) - 1 /\ Window(t, n, Tail(all), Len(all) - 1)
  /\ g = Head(all) \/ (k = "nn" /\ Len(all) = 1 /\ g = Zero)
  /\ k = "nn" /\ Len(all) = 1 => t.cur = 0

(* A scorer handed out for a new feature scores the first one of the       *)
(* window, which moves on by one.                                          *)
LEMMA TakeHolds ==
  ASSUME NEW k, NEW n \in Nat \ {0}, NEW s \in ScorerOf(k, n), s.filled = n - 1,
         NEW all \in Seq(Feature), Len(all) >= n, Window(s, n, all, n - 1),
         NEW t \in ScorerOf(k, n), MayBeAsked(t, GetScorer(s, all[n]), n)
  PROVE  AfterTake(t, n, all, GivenScore(GetScorer(s, all[n])))
<1> DEFINE r == GetScorer(s, all[n])
           last == At(s.cur, n, n)
<1>1. all[n] \in Feature
  OBVIOUS
<1>2. /\ r.pos = s.cur /\ r.s.filled = s.filled /\ r.s.cur = (s.cur + 1) % n
      /\ \A p \in 0 .. n - 1 : /\ r.s.ring[p] = IF p = last THEN all[n] ELSE s.ring[p]
                               /\ r.s.scored[p] = IF p = last THEN None ELSE s.scored[p]
  BY <1>1, GetScorerIs
<1>3. s.cur \in 0 .. n - 1
  BY ScorerIs
<1> HIDE DEF r, last
<1>a. MayBeAsked(t, r, n)
  BY DEF r
<1>4. \A i \in 1 .. n - 1 : At(t.cur, i, n) = At(s.cur, i + 1, n)
  <2>1. t.cur = (s.cur + 1) % n
    BY <1>2, <1>a DEF MayBeAsked
  <2> QED BY <1>3, <2>1, AtNext
<1>5. \A i \in 1 .. n - 1 : At(s.cur, i, n) \in 0 .. n - 1 /\ At(s.cur, i, n) # last
  <2> SUFFICES ASSUME NEW i \in 1 .. n - 1
               PROVE  At(s.cur, i, n) \in 0 .. n - 1 /\ At(s.cur, i, n) # last
    OBVIOUS
  <2>1. i \in 1 .. n /\ n \in 1 .. n /\ i # n
    OBVIOUS
  <2> QED BY <1>3, <2>1, AtPosition, AtInjective DEF last
<1>6. last \in 0 .. n - 1
  <2>1. n \in 1 .. n
    OBVIOUS
  <2> QED BY <1>3, <2>1, AtPosition DEF last
<1>7. ASSUME NEW i \in 1 .. n, NEW p, p = At(s.cur, i, n)
      PROVE  r.s.ring[p] = all[i] /\ r.s.scored[p] \in {None, all[i]}
  <2>1. CASE i = n
    BY <1>2, <1>6, <1>7, <2>1 DEF last
  <2>2. CASE i \in 1 .. n - 1
    <3>1. p \in 0 .. n - 1 /\ p # last
      BY <1>5, <1>7, <2>2
    <3>2. s.ring[p] = all[i] /\ s.scored[p] \in {None, all[i]}
      BY <1>7, <2>2 DEF Window
    <3> QED BY <1>2, <3>1, <3>2
  <2> QED BY <2>1, <2>2
<1>8. Window(t, n, Tail(all), n - 1)
  <2> SUFFICES ASSUME NEW i \in 1 .. n - 1, NEW p, p = At(t.cur, i, n)
               PROVE  t.ring[p] = Tail(all)[i] /\ t.scored[p] \in {None, Tail(all)[i]}
    BY DEF Window
  <2>1. i + 1 \in 1 .. n /\ p = At(s.cur, i + 1, n)
    BY <1>4
  <2>2. p \in 0 .. n - 1
    BY <2>1, <1>3, AtPosition
  <2>3. Tail(all)[i] = all[i + 1]
    OBVIOUS
  <2>4. r.s.ring[p] = all[i + 1] /\ r.s.scored[p] \in {None, all[i + 1]}
    BY <2>1, <1>7
  <2>5. t.ring[p] = r.s.ring[p] /\ t.scored[p] \in {r.s.scored[p], r.s.ring[p]}
    BY <1>a, <2>2 DEF MayBeAsked
  <2> QED BY <2>3, <2>4, <2>5
<1>9. GivenScore(r) = Head(all)
  <2>1. 1 \in 1 .. n /\ r.pos = At(s.cur, 1, n)
    BY <1>2, <1>3, AtEnds
  <2>2. r.s.ring[r.pos] = all[1] /\ r.s.scored[r.pos] \in {None, all[1]}
    BY <2>1, <1>7
  <2>3. Head(all) = all[1]
    OBVIOUS
  <2> QED BY <2>2, <2>3 DEF GivenScore
<1>10. t.filled = n - 1
  BY <1>2, <1>a DEF MayBeAsked
<1>11. AfterTake(t, n, all, GivenScore(r))
  BY <1>8, <1>9, <1>10 DEF AfterTake
<1> QED BY <1>11 DEF r

(* So does a scorer handed out without one; but the last one of Nn may     *)
(* score zeros.                                                            *)
LEMMA FlushHolds ==
  ASSUME NEW k, NEW n \in Nat \ {0}, NEW s \in ScorerOf(k, n),
         NEW all \in Seq(Feature), s.filled = Len(all), Len(all) # 0, Window(s, n, all, Len(all)),
         NEW t \in ScorerOf(k, n), MayBeAsked(t, Flush(s), n)
  PROVE  AfterFlush(t, k, n, all, GivenScore(Flush(s)))
<1> DEFINE r == Flush(s)
           clears == s.filled = 1 /\ k = "nn"
<1>1. /\ r.pos = s.cur /\ r.s.filled = s.filled - 1 /\ r.s.scored = s.scored
      /\ IF clears
         THEN r.s.cur = 0 /\ \A p \in 0 .. n - 1 : r.s.ring[p] = Zero
         ELSE r.s.cur = (s.cur + 1) % n /\ r.s.ring = s.ring
  <2>1. s.filled # 0
    OBVIOUS
  <2>2. FlushGives(r, k, n, s)
    BY <2>1, FlushIs
  <2> HIDE DEF r
  <2> QED BY <2>2 DEF FlushGives
<1>2. s.cur \in 0 .. n - 1 /\ Len(all) \in 1 .. n - 1
  BY ScorerIs
<1> HIDE DEF r
<1>a. MayBeAsked(t, r, n)
  BY DEF r
<1>3. /\ 1 \in 1 .. Len(all) /\ r.pos = At(s.cur, 1, n) /\ r.pos \in 0 .. n - 1 /\ Head(all) = all[1]
  BY <1>1, <1>2, AtEnds
<1>4. s.ring[r.pos] = all[1] /\ s.scored[r.pos] \in {None, all[1]}
  BY <1>3 DEF Window
<1>5. t.filled = Len(all) - 1
  BY <1>1, <1>a DEF MayBeAsked
<1>6. CASE clears
  <2>1. Len(all) - 1 = 0
    BY <1>6
  <2>2. Window(t, n, Tail(all), 0)
    BY DEF Window
  <2>3. GivenScore(r) \in {all[1], Zero}
    BY <1>1, <1>3, <1>4, <1>6 DEF GivenScore
  <2>4. t.cur = 0
    BY <1>1, <1>6, <1>a DEF MayBeAsked
  <2>5. AfterFlush(t, k, n, all, GivenScore(r))
    BY <1>3, <1>5, <1>6, <2>1, <2>2, <2>3, <2>4 DEF AfterFlush
  <2> QED BY <2>5 DEF r
<1>7. CASE ~clears
  <2>1. r.s.cur = (s.cur + 1) % n /\ r.s.ring = s.ring /\ t.cur = r.s.cur
    BY <1>1, <1>7, <1>a DEF MayBeAsked
  <2>2. \A i \in 1 .. n - 1 : At(t.cur, i, n) = At(s.cur, i + 1, n)
    BY <1>2, <2>1, AtNext
  <2>3. GivenScore(r) = Head(all)
    BY <1>1, <1>3, <1>4, <2>1 DEF GivenScore
  <2>4. Window(t, n, Tail(all), Len(all) - 1)
    <3> SUFFICES ASSUME NEW i \in 1 .. Len(all) - 1, NEW p, p = At(t.cur, i, n)
                 PROVE  t.ring[p] = Tail(all)[i] /\ t.scored[p] \in {None, Tail(all)[i]}
      BY DEF Window
    <3>1. i + 1 \in 1 .. Len(all) /\ i \in 1 .. n - 1 /\ i + 1 \in 1 .. n
      BY <1>2
    <3>2. p = At(s.cur, i + 1, n)
      BY <2>2, <3>1
    <3>3. p \in 0 .. n - 1
      BY <1>2, <3>1, <3>2, AtPosition
    <3>4. s.ring[p] = all[i + 1] /\ s.scored[p] \in {None, all[i + 1]}
      BY <3>1, <3>2 DEF Window
    <3>5. Tail(all)[i] = all[i + 1]
      BY <3>1
    <3>6. t.ring[p] = s.ring[p] /\ t.scored[p] \in {s.scored[p], s.ring[p]}
      BY <1>1, <1>a, <2>1, <3>3 DEF MayBeAsked
    <3> QED BY <3>4, <3>5, <3>6
  <2>5. AfterFlush(t, k, n, all, GivenScore(r))
    BY <1>5, <1>7, <2>3, <2>4 DEF AfterFlush
  <2> QED BY <2>5 DEF r
<1> QED BY <1>6, <1>7

-----------------------------------------------------------------------------
(* The delay is as long as the ring and as the look-ahead.                 *)
LEMMA BufferSizeIs ==
  ASSUME config \in Config
  PROVE  /\ config.n \in Nat \ {0} /\ config.look \in Nat
         /\ BufferSize \in Nat /\ BufferSize >= config.look
         /\ IsBuffered => BufferSize >= config.n
<1>1. config.n \in Nat \ {0} /\ config.look \in Nat
  BY ConfigAssumption
<1> DEFINE a == config.look
           b == IF IsBuffered THEN config.n ELSE 0
<1>2. a \in Int /\ b \in Int /\ a \in Nat /\ b \in Nat
  BY <1>1
<1>3. BufferSize = Max({a, b})
  BY DEF BufferSize
<1> HIDE DEF a, b
<1>4. BufferSize = IF a >= b THEN a ELSE b
  BY <1>2, <1>3, MaxOfTwo
<1>5. BufferSize \in Nat /\ BufferSize >= a /\ BufferSize >= b
  BY <1>2, <1>4
<1> QED BY <1>1, <1>5 DEF a, b

(* The scorer that add() and flush() use holds as much of the delay buffer *)
(* as fits, and featureScorerOffset_ tells whether there is more.          *)
LEMMA StartedIs ==
  ASSUME Types, Counted, IsBuffered, phase # "idle"
  PROVE  /\ Started.s \in ScorerOf(config.kind, config.n)
         /\ Started.s.filled = IF config.n - 1 <= Len(buffer) THEN config.n - 1 ELSE Len(buffer)
         /\ Started.offset \in 0 .. config.n - 1
         /\ (phase = "in" /\ ~starting) \/ Len(buffer) > Started.offset => Started.offset = config.n - 1
<1> DEFINE n == config.n
           k == config.kind
<1>1. n \in Nat \ {0} /\ scorer \in ScorerOf(k, n) /\ buffer \in Seq(Feature)
  BY BufferSizeIs DEF Types
<1>a. n - 1 \in Int /\ Len(buffer) \in Nat
  BY <1>1
<1> HIDE DEF n, k
<1>2. Min({n - 1, Len(buffer)}) = IF n - 1 <= Len(buffer) THEN n - 1 ELSE Len(buffer)
  BY <1>a, MinOfTwo
<1>3. CASE starting
  <2>1. Started = Loaded(scorer, buffer) /\ scorer.filled = 0
    BY <1>3 DEF Started, Counted
  <2> DEFINE m == Min({n - 1, Len(buffer)})
             l == Loaded(scorer, buffer)
  <2>2. m \in 0 .. n - 1 /\ l.offset = m /\ l.s \in ScorerOf(k, n) /\ l.s.filled = m
        /\ (m = n - 1 \/ m = Len(buffer))
    <3>1. LoadedWell(k, n, scorer, buffer)
      BY <1>1, <2>1, LoadedIs
    <3> QED BY <3>1 DEF LoadedWell
  <2> HIDE DEF m, l
  <2>3. l.offset = n - 1 \/ l.offset = Len(buffer)
    BY <2>2
  <2>4. Len(buffer) > l.offset => l.offset = n - 1
    BY <1>a, <2>3
  <2> QED BY <1>2, <1>3, <2>1, <2>2, <2>4 DEF m, l, n, k
<1>4. CASE ~starting
  <2>1. Started = [s |-> scorer, offset |-> offset]
    BY <1>4 DEF Started
  <2>2. /\ scorer.filled = Min({n - 1, Len(buffer)}) /\ offset \in 0 .. n - 1
        /\ phase = "in" \/ Len(buffer) > offset => offset = n - 1
    BY <1>4, <1>1 DEF Counted, InUse, Types, n
  <2> QED BY <1>1, <1>2, <2>1, <2>2 DEF n, k
<1> QED BY <1>3, <1>4

(* The scorer that add() and flush() use holds the first features of the   *)
(* delay buffer.                                                           *)
LEMMA StartedHolds ==
  ASSUME CInv, Holds, IsBuffered, phase # "idle"
  PROVE  Window(Started.s, config.n, buffer, Started.s.filled)
<1> DEFINE n == config.n
           k == config.kind
<1>1. n \in Nat \ {0} /\ scorer \in ScorerOf(k, n) /\ buffer \in Seq(Feature) /\ k \in {"mm", "nn"}
  BY BufferSizeIs, ConfigAssumption DEF CInv, Types, IsBuffered
<1>2. CASE ~starting
  BY <1>2 DEF Started, Holds, InUse
<1>3. CASE starting
  <2>1. /\ Started = Loaded(scorer, buffer) /\ scorer.filled = 0 /\ scorer.cur = 0
        /\ k = "mm" => \A p \in 0 .. n - 1 : scorer.scored[p] = None
    BY <1>3 DEF Started, Counted, CInv, Holds
  <2> HIDE DEF n, k
  <2> DEFINE m == Min({n - 1, Len(buffer)})
             l == Loaded(scorer, buffer)
  <2>2. /\ m \in 0 .. n - 1 /\ l.s.filled = m /\ l.s.cur = 0
        /\ \A p \in 0 .. m - 1 : l.s.ring[p] = buffer[p + 1]
        /\ \A p \in 0 .. m - 1 : l.s.scored[p] = IF k = "nn" THEN None ELSE scorer.scored[p]
    <3>1. LoadedWell(k, n, scorer, buffer)
      BY <1>1, <2>1, LoadedIs
    <3> QED BY <2>1, <3>1 DEF LoadedWell
  <2> HIDE DEF m, l
  <2>3. Window(l.s, n, buffer, m)
    <3> SUFFICES ASSUME NEW i \in 1 .. m, NEW p, p = At(l.s.cur, i, n)
                 PROVE  l.s.ring[p] = buffer[i] /\ l.s.scored[p] \in {None, buffer[i]}
      BY DEF Window
    <3>1. i \in 1 .. n /\ 0 \in 0 .. n - 1 /\ 0 + i - 1 < n
      BY <1>1, <2>2
    <3>2. p = i - 1
      <4>1. At(0, i, n) = IF 0 + i - 1 < n THEN 0 + i - 1 ELSE 0 + i - 1 - n
        BY <1>1, <3>1, AtValue
      <4> QED BY <2>2, <3>1, <4>1
    <3>3. p \in 0 .. m - 1 /\ p + 1 = i /\ p \in 0 .. n - 1
      <4>1. m \in Nat /\ m <= n - 1 /\ n \in Nat
        BY <1>1, <2>2
      <4> QED BY <3>2, <4>1
    <3> QED BY <1>1, <2>1, <2>2, <3>3
  <2> QED BY <2>1, <2>2, <2>3 DEF l, n
<1> QED BY <1>2, <1>3

(* Consecutive features, one taken from the front.                         *)
LEMMA TailInOrder ==
  ASSUME NEW b \in Seq(Feature), Len(b) # 0, NEW x \in Nat, \A i \in 1 .. Len(b) : b[i] = x + i
  PROVE  /\ Head(b) = x + 1 /\ Head(b) \in Feature
         /\ Tail(b) \in Seq(Feature) /\ Len(Tail(b)) = Len(b) - 1
         /\ \A i \in 1 .. Len(Tail(b)) : Tail(b)[i] = (x + 1) + i
<1>1. Len(b) \in Nat /\ 1 \in 1 .. Len(b)
  OBVIOUS
<1>2. Head(b) = b[1] /\ b[1] \in Feature
  BY <1>1
<1>3. Tail(b) \in Seq(Feature) /\ Len(Tail(b)) = Len(b) - 1
  BY <1>1
<1>4. ASSUME NEW i \in 1 .. Len(Tail(b)) PROVE Tail(b)[i] = (x + 1) + i
  <2>1. Tail(b)[i] = b[i + 1] /\ i + 1 \in 1 .. Len(b)
    BY <1>1, <1>3
  <2>2. b[i + 1] = x + (i + 1)
    BY <2>1
  <2> QED BY <2>1, <2>2
<1> QED BY <1>1, <1>2, <1>3, <1>4

(* The delay buffer with the new feature behind it.                        *)
LEMMA AppendInOrder ==
  ASSUME Types, InOrder, phase # "idle", added < MaxFeatures
  PROVE  LET all == Append(buffer, added + 1) IN
         /\ all \in Seq(Feature) /\ Len(all) = Len(buffer) + 1
         /\ fed.feature \in Nat
         /\ \A i \in 1 .. Len(all) : all[i] = fed.feature + i
         /\ added + 1 \in Feature
<1> DEFINE all == Append(buffer, added + 1)
<1>1. buffer \in Seq(Feature) /\ added \in Nat /\ added + 1 \in Feature /\ fed.feature \in Nat
  BY BoundAssumption DEF Types, Feature
<1>2. all \in Seq(Feature) /\ Len(all) = Len(buffer) + 1 /\ Len(buffer) \in Nat
      /\ all[Len(buffer) + 1] = added + 1
      /\ \A i \in 1 .. Len(buffer) : all[i] = buffer[i]
  BY <1>1
<1> HIDE DEF all
<1>3. fed.feature = added - Len(buffer) /\ \A i \in 1 .. Len(buffer) : buffer[i] = fed.feature + i
  BY DEF InOrder
<1>4. ASSUME NEW i \in 1 .. Len(all) PROVE all[i] = fed.feature + i
  <2>1. CASE i \in 1 .. Len(buffer)
    BY <1>2, <1>3, <2>1
  <2>2. CASE i = Len(buffer) + 1
    BY <1>1, <1>2, <1>3, <2>2
  <2> QED BY <1>2, <2>1, <2>2
<1> QED BY <1>1, <1>2, <1>4 DEF all

(* The scorer after one was handed out that is at s, with the feature f.   *)
FedWith(r, n, f) ==
  /\ scorer' \in ScorerOf(config.kind, config.n) /\ MayBeAsked(scorer', r, n)
  /\ fed' \in [feature : Feature \cup {0}, score : Value \cup {None}]
  /\ fed'.feature = f /\ fed'.score \in {None, GivenScore(r)}

(* add() with a buffered scorer: the ring is full, and the feature it gets *)
(* is the one behind those it holds.                                       *)
LEMMA AddScoredIs ==
  ASSUME CInv, AddScored, IsBuffered
  PROVE  LET n == config.n
             st == Started
             all == Append(buffer, added + 1) IN
         /\ all \in Seq(Feature) /\ Len(all) >= n + 1
         /\ st.s \in ScorerOf(config.kind, config.n) /\ st.s.filled = n - 1
         /\ st.offset = n - 1 /\ ~failed' /\ offset' = n - 1
         /\ FedWith(GetScorer(st.s, all[n]), n, Head(all))
<1> DEFINE n == config.n
           k == config.kind
           st == Started
           all == Append(buffer, added + 1)
           r == GetScorer(st.s, all[n])
<1>0. Types /\ Counted /\ InOrder /\ ~failed /\ config \in Config
  BY DEF CInv, Types, RequirementsKept
<1>1. /\ phase = "in" /\ added < MaxFeatures /\ Len(buffer) >= BufferSize /\ added' = added + 1
      /\ offset' = st.offset
      /\ failed' = (failed \/ (IsBuffered /\ ~BufferFilled(st.s)))
      /\ Feed(Head(all), ScorerFor(st.s, all[st.offset + 1]))
  BY DEF AddScored
<1>2. n \in Nat \ {0} /\ BufferSize >= n /\ BufferSize \in Nat /\ Len(buffer) \in Nat
  BY <1>0, BufferSizeIs DEF Types
<1>3. /\ all \in Seq(Feature) /\ Len(all) = Len(buffer) + 1 /\ fed.feature \in Nat
      /\ \A i \in 1 .. Len(all) : all[i] = fed.feature + i
  BY <1>0, <1>1, AppendInOrder
<1>4. /\ st.s \in ScorerOf(k, n)
      /\ st.s.filled = IF n - 1 <= Len(buffer) THEN n - 1 ELSE Len(buffer)
      /\ st.offset \in 0 .. n - 1
      /\ Len(buffer) > st.offset => st.offset = n - 1
  BY <1>0, <1>1, StartedIs
<1> HIDE DEF n, k, st, all
<1>5. st.s.filled = n - 1 /\ st.offset = n - 1 /\ st.offset + 1 = n /\ Len(all) >= n + 1
  BY <1>1, <1>2, <1>3, <1>4
<1>6. BufferFilled(st.s)
  BY <1>2, <1>4, <1>5, ScorerIs DEF BufferFilled
<1>7. ~failed' /\ offset' = n - 1
  BY <1>0, <1>1, <1>5, <1>6
<1>8. n \in 1 .. Len(all) /\ all[n] \in Feature /\ Head(all) \in Feature
  BY <1>2, <1>3, <1>5
<1>9. Feed(Head(all), r)
  BY <1>1, <1>5 DEF ScorerFor
<1>10. r.pos = st.s.cur /\ r.length >= 1 /\ r.length \in Nat \ {0} /\ r.s \in ScorerOf(k, n)
  <2>1. r.pos = st.s.cur /\ r.length >= 1 /\ r.s \in ScorerOf(k, n)
    BY <1>2, <1>4, <1>8, GetScorerIs
  <2>2. r.length = st.s.filled + 1
    BY DEF GetScorer
  <2> QED BY <1>2, <1>5, <2>1, <2>2
<1>11. r.pos \in 0 .. n - 1
  BY <1>4, <1>10, ScorerIs
<1> HIDE DEF r
<1>12. FedWith(r, n, Head(all))
  BY <1>0, <1>8, <1>9, <1>10, <1>11, FeedIs DEF n, k, FedWith
<1> QED BY <1>3, <1>4, <1>5, <1>7, <1>12 DEF n, k, st, all, r

(* flush() with a buffered scorer: as long as there are features that the  *)
(* ring does not hold it gets the next one, then the ring is emptied.      *)
LEMMA FlushOneIs ==
  ASSUME CInv, FlushOne, IsBuffered
  PROVE  LET n == config.n
             st == Started IN
         /\ buffer \in Seq(Feature) /\ Len(buffer) # 0
         /\ st.s \in ScorerOf(config.kind, config.n)
         /\ st.offset \in 0 .. n - 1 /\ ~failed' /\ offset' = st.offset
         /\ \/ /\ Len(buffer) >= n /\ st.offset = n - 1 /\ st.s.filled = n - 1
               /\ FedWith(GetScorer(st.s, buffer[n]), n, Head(buffer))
            \/ /\ Len(buffer) <= st.offset /\ st.s.filled = Len(buffer)
               /\ FedWith(Flush(st.s), n, Head(buffer))
<1> DEFINE n == config.n
           k == config.kind
           st == Started
<1>0. Types /\ Counted /\ ~failed /\ config \in Config
  BY DEF CInv, Types, RequirementsKept
<1>1. /\ phase = "leaving" /\ buffer # <<>> /\ offset' = st.offset
      /\ failed' = (failed \/ (IsBuffered /\ (IF Len(buffer) > st.offset THEN ~BufferFilled(st.s)
                                                                      ELSE BufferEmpty(st.s))))
      /\ Feed(Head(buffer), IF Len(buffer) > st.offset THEN ScorerFor(st.s, buffer[st.offset + 1])
                                                       ELSE Flush(st.s))
  BY DEF FlushOne
<1>2. n \in Nat \ {0} /\ buffer \in Seq(Feature) /\ Len(buffer) \in Nat \ {0} /\ Head(buffer) \in Feature
  BY <1>0, <1>1, BufferSizeIs DEF Types
<1>4. /\ st.s \in ScorerOf(k, n)
      /\ st.s.filled = IF n - 1 <= Len(buffer) THEN n - 1 ELSE Len(buffer)
      /\ st.offset \in 0 .. n - 1
      /\ Len(buffer) > st.offset => st.offset = n - 1
  BY <1>0, <1>1, StartedIs
<1> HIDE DEF n, k, st
<1>5. CASE Len(buffer) > st.offset
  <2> DEFINE r == GetScorer(st.s, buffer[n])
  <2>1. st.s.filled = n - 1 /\ st.offset = n - 1 /\ st.offset + 1 = n /\ Len(buffer) >= n
    BY <1>2, <1>4, <1>5
  <2>2. ~failed'
    <3>1. BufferFilled(st.s)
      BY <1>2, <1>4, <2>1, ScorerIs DEF BufferFilled
    <3> QED BY <1>0, <1>1, <1>5, <3>1
  <2>3. n \in 1 .. Len(buffer) /\ buffer[n] \in Feature
    BY <1>2, <2>1
  <2>4. Feed(Head(buffer), r)
    BY <1>1, <1>5, <2>1 DEF ScorerFor
  <2>5. r.pos = st.s.cur /\ r.length \in Nat \ {0} /\ r.s \in ScorerOf(k, n)
    <3>1. r.pos = st.s.cur /\ r.length >= 1 /\ r.s \in ScorerOf(k, n)
      BY <1>2, <1>4, <2>3, GetScorerIs
    <3>2. r.length = st.s.filled + 1
      BY DEF GetScorer
    <3> QED BY <1>2, <2>1, <3>1, <3>2
  <2>6. r.pos \in 0 .. n - 1
    BY <1>4, <2>5, ScorerIs
  <2> HIDE DEF r
  <2>7. FedWith(r, n, Head(buffer))
    BY <1>0, <1>2, <2>4, <2>5, <2>6, FeedIs DEF n, k, FedWith
  <2> QED BY <1>1, <1>2, <1>4, <2>1, <2>2, <2>7 DEF n, k, st, r
<1>6. CASE ~(Len(buffer) > st.offset)
  <2> DEFINE r == Flush(st.s)
  <2>1. Len(buffer) <= st.offset /\ st.s.filled = Len(buffer) /\ st.s.filled # 0
    BY <1>2, <1>4, <1>6
  <2>2. ~failed'
    <3>1. ~BufferEmpty(st.s)
      BY <2>1 DEF BufferEmpty
    <3> QED BY <1>0, <1>1, <1>6, <3>1
  <2>3. Feed(Head(buffer), r)
    BY <1>1, <1>6
  <2>4. r.pos = st.s.cur /\ r.length \in Nat \ {0} /\ r.s \in ScorerOf(k, n)
    <3>1. r.pos = st.s.cur /\ r.length >= 1 /\ r.s \in ScorerOf(k, n)
      BY <1>2, <1>4, <2>1, FlushIs DEF FlushGives
    <3>2. r.length = st.s.filled
      BY DEF Flush
    <3> QED BY <1>2, <2>1, <3>1, <3>2
  <2>5. r.pos \in 0 .. n - 1
    BY <1>4, <2>4, ScorerIs
  <2> HIDE DEF r
  <2>6. FedWith(r, n, Head(buffer))
    BY <1>0, <1>2, <2>3, <2>4, <2>5, FeedIs DEF n, k, FedWith
  <2> QED BY <1>1, <1>2, <1>4, <2>1, <2>2, <2>6 DEF n, k, st, r
<1> QED BY <1>5, <1>6

-----------------------------------------------------------------------------
(* The counting part of the invariant is kept by every action, whatever    *)
(* the configuration.                                                      *)

(* What the invariant gives for the ring in terms of numbers.              *)
LEMMA CountIs ==
  ASSUME NEW n \in Nat \ {0}, NEW b \in Seq(Feature)
  PROVE  /\ Len(b) \in Nat
         /\ Min({n - 1, Len(b)}) = IF n - 1 <= Len(b) THEN n - 1 ELSE Len(b)
<1>1. n - 1 \in Int /\ Len(b) \in Nat /\ Len(b) \in Int
  OBVIOUS
<1> QED BY <1>1, MinOfTwo

(* reset() of the handler empties the delay buffer and the ring.           *)
LEMMA HandlerResetIs ==
  ASSUME config \in Config, NEW s \in ScorerOf(config.kind, config.n), HandlerReset(s)
  PROVE  /\ buffer' = <<>> /\ starting' = TRUE
         /\ scorer' \in ScorerOf(config.kind, config.n) /\ scorer'.filled = 0
         /\ scorer' = Drained(s)
<1>1. config.n \in Nat \ {0}
  BY ConfigAssumption
<1> QED BY <1>1, DrainedIs DEF HandlerReset

(* After reset() the invariant holds whatever held before.                 *)
LEMMA ResetKeepsCInv ==
  ASSUME CInv, NEW s \in ScorerOf(config.kind, config.n), HandlerReset(s),
         config' = config, offset' = offset, added' = added, failed' = failed,
         phase' \in {"idle", "in"}, segments' \in 0 .. MaxSegments,
         fed' \in [feature : Feature \cup {0}, score : Value \cup {None}],
         phase' = "in" => fed'.feature = added
  PROVE  CInv'
<1>1. /\ buffer' = <<>> /\ starting' = TRUE /\ scorer'.filled = 0
      /\ scorer' \in ScorerOf(config.kind, config.n)
  BY HandlerResetIs DEF CInv, Types
<1>2. BufferSize' = BufferSize /\ BufferSize \in Nat /\ IsBuffered' = IsBuffered
  BY BufferSizeIs DEF CInv, Types, BufferSize, IsBuffered
<1>3. Types'
  BY <1>1, <1>2 DEF CInv, Types
<1>4. Counted'
  BY <1>1, <1>2 DEF CInv, Counted, InUse
<1>5. InOrder'
  BY <1>1 DEF CInv, Types, InOrder
<1> QED BY <1>3, <1>4, <1>5 DEF CInv, RequirementsKept

(* Entering a segment: reset by the speech driver, left empty by Flf.      *)
LEMMA EnterSegmentKeepsCInv == CInv /\ EnterSegment => CInv'
<1> SUFFICES ASSUME CInv, EnterSegment PROVE CInv'
  OBVIOUS
<1>1. /\ phase = "idle" /\ phase' = "in" /\ segments' = segments + 1 /\ segments < MaxSegments
      /\ fed' = [feature |-> added, score |-> None]
      /\ config' = config /\ offset' = offset /\ added' = added /\ failed' = failed
  BY DEF EnterSegment
<1>2. segments' \in 0 .. MaxSegments
      /\ fed' \in [feature : Feature \cup {0}, score : Value \cup {None}] /\ fed'.feature = added
  BY <1>1, BoundAssumption DEF CInv, Types, Feature, Value
<1>3. CASE config.driver = "speech"
  <2>1. HandlerReset(ResetScorer(scorer))
    BY <1>3 DEF EnterSegment
  <2>2. ResetScorer(scorer) \in ScorerOf(config.kind, config.n)
    BY ResetScorerIs, BufferSizeIs DEF CInv, Types
  <2> QED BY <1>1, <1>2, <2>1, <2>2, ResetKeepsCInv
<1>4. CASE config.driver # "speech"
  <2>1. scorer' = scorer /\ buffer' = buffer /\ starting' = starting
    BY <1>4 DEF EnterSegment
  <2>2. config.driver = "flf"
    BY <1>4, ConfigAssumption DEF CInv, Types
  <2>3. buffer = <<>> /\ (IsBuffered => starting)
    BY <1>1, <2>2 DEF CInv, Counted
  <2>4. BufferSize' = BufferSize /\ IsBuffered' = IsBuffered
    BY <1>1 DEF BufferSize, IsBuffered
  <2>5. Types'
    BY <1>1, <1>2, <2>1, <2>4 DEF CInv, Types
  <2>6. Counted'
    BY <1>1, <2>1, <2>3, <2>4 DEF CInv, Counted, InUse
  <2>7. InOrder'
    BY <1>1, <1>2, <2>1, <2>3 DEF CInv, Types, InOrder
  <2> QED BY <1>1, <2>5, <2>6, <2>7 DEF CInv, RequirementsKept
<1> QED BY <1>3, <1>4

(* A feature that is only delayed: the ring is not in use yet.             *)
LEMMA AddDelayedKeepsCInv == CInv /\ AddDelayed => CInv'
<1> SUFFICES ASSUME CInv, AddDelayed PROVE CInv'
  OBVIOUS
<1>1. /\ phase = "in" /\ phase' = "in" /\ added < MaxFeatures /\ Len(buffer) < BufferSize
      /\ added' = added + 1 /\ buffer' = Append(buffer, added + 1)
      /\ config' = config /\ scorer' = scorer /\ offset' = offset /\ starting' = starting
      /\ fed' = fed /\ failed' = failed /\ segments' = segments
  BY DEF AddDelayed
<1>2. /\ buffer' \in Seq(Feature) /\ Len(buffer') = Len(buffer) + 1
      /\ \A i \in 1 .. Len(buffer') : buffer'[i] = fed.feature + i
  BY <1>1, AppendInOrder DEF CInv
<1>3. BufferSize' = BufferSize /\ IsBuffered' = IsBuffered /\ BufferSize \in Nat /\ Len(buffer) \in Nat
  BY <1>1, BufferSizeIs DEF BufferSize, IsBuffered, CInv, Types
<1>4. Types'
  BY <1>1, <1>2, <1>3, BoundAssumption DEF CInv, Types
<1>5. ~InUse
  BY <1>1, <1>3 DEF CInv, Counted
<1>6. Counted'
  BY <1>1, <1>3, <1>5 DEF CInv, Counted, InUse
<1>7. InOrder'
  BY <1>1, <1>2, <1>3 DEF CInv, Types, InOrder
<1> QED BY <1>1, <1>4, <1>6, <1>7 DEF CInv, RequirementsKept

(* A feature taken while the segment goes on: the buffer keeps its length. *)
LEMMA AddScoredKeepsCInv == CInv /\ AddScored => CInv'
<1> SUFFICES ASSUME CInv, AddScored PROVE CInv'
  OBVIOUS
<1> DEFINE all == Append(buffer, added + 1)
<1>1. /\ phase = "in" /\ phase' = "in" /\ added < MaxFeatures /\ Len(buffer) >= BufferSize
      /\ added' = added + 1 /\ buffer' = Tail(all) /\ starting' = (starting /\ ~IsBuffered)
      /\ config' = config /\ segments' = segments
  BY DEF AddScored
<1>2. /\ all \in Seq(Feature) /\ Len(all) = Len(buffer) + 1 /\ fed.feature \in Nat
      /\ \A i \in 1 .. Len(all) : all[i] = fed.feature + i
      /\ added + 1 \in Feature /\ fed.feature = added - Len(buffer)
  BY <1>1, AppendInOrder DEF CInv, InOrder
<1>3. /\ BufferSize' = BufferSize /\ IsBuffered' = IsBuffered /\ BufferSize \in Nat /\ Len(buffer) \in Nat
      /\ Len(buffer) = BufferSize /\ added \in Nat
  BY <1>1, BufferSizeIs DEF BufferSize, IsBuffered, CInv, Types
<1> HIDE DEF all
<1>4. /\ Head(all) = fed.feature + 1 /\ Head(all) \in Feature
      /\ buffer' \in Seq(Feature) /\ Len(buffer') = Len(buffer)
      /\ \A i \in 1 .. Len(buffer') : buffer'[i] = (fed.feature + 1) + i
  BY <1>1, <1>2, <1>3, TailInOrder
<1>5. ASSUME scorer' \in ScorerOf(config.kind, config.n), fed'.feature = Head(all),
             fed' \in [feature : Feature \cup {0}, score : Value \cup {None}],
             ~failed', offset' \in Nat, Counted'
      PROVE  CInv'
  <2>1. starting' \in BOOLEAN /\ failed' \in BOOLEAN
    BY <1>1 DEF CInv, Types, AddScored, RequirementsKept
  <2>2. Types'
    BY <1>1, <1>2, <1>3, <1>4, <1>5, <2>1 DEF CInv, Types, Feature
  <2>3. InOrder'
    BY <1>1, <1>2, <1>3, <1>4, <1>5 DEF InOrder
  <2> QED BY <1>5, <2>2, <2>3 DEF CInv, RequirementsKept
<1>6. CASE IsBuffered
  <2> DEFINE n == config.n
             st == Started
             r == GetScorer(st.s, all[n])
  <2>1. /\ st.s \in ScorerOf(config.kind, config.n) /\ st.s.filled = n - 1
        /\ ~failed' /\ offset' = n - 1 /\ FedWith(r, n, Head(all)) /\ Len(all) >= n + 1
    BY <1>6, AddScoredIs DEF all
  <2>2. n \in Nat \ {0}
    BY BufferSizeIs DEF CInv, Types
  <2>3. scorer'.filled = n - 1
    <3>1. all[n] \in Feature
      BY <1>2, <2>1, <2>2
    <3>2. r.s.filled = st.s.filled
      BY <2>1, <2>2, <3>1, GetScorerIs
    <3> HIDE DEF r, st
    <3> QED BY <2>1, <3>2 DEF FedWith, MayBeAsked
  <2> HIDE DEF n, st, r
  <2>4. Min({n - 1, Len(buffer')}) = n - 1
    <3>1. Min({n - 1, Len(buffer')}) = IF n - 1 <= Len(buffer') THEN n - 1 ELSE Len(buffer')
      BY <1>4, <2>2, CountIs
    <3> QED BY <1>2, <1>3, <1>4, <2>1, <2>2, <3>1
  <2>a. config'.n = n /\ offset' <= n - 1 /\ Len(buffer') = BufferSize'
    BY <1>1, <1>3, <1>4, <2>1, <2>2 DEF n
  <2>5. Counted'
    BY <1>1, <1>3, <1>6, <2>1, <2>3, <2>4, <2>a DEF Counted, InUse
  <2> QED BY <1>5, <2>1, <2>2, <2>5 DEF FedWith
<1>7. CASE ~IsBuffered
  <2>1. Started = [s |-> scorer, offset |-> offset] /\ offset = 0 /\ scorer.filled = 0
    BY <1>7 DEF Started, CInv, Counted
  <2>2. all[0 + 1] = Head(all) /\ Feed(Head(all), ScorerFor(scorer, all[0 + 1])) /\ offset' = 0
        /\ failed' = failed
    BY <1>1, <1>2, <1>3, <1>7, <2>1 DEF AddScored, all, CInv, Types
  <2>3. /\ scorer' = scorer /\ fed'.feature = Head(all)
        /\ fed' \in [feature : Feature \cup {0}, score : Value \cup {None}]
    BY <1>4, <1>7, <2>2, FeedPlain
  <2>4. Counted'
    BY <1>1, <1>3, <1>7, <2>1, <2>2, <2>3 DEF Counted, InUse
  <2> QED BY <1>5, <2>2, <2>3, <2>4 DEF CInv, Types, RequirementsKept
<1> QED BY <1>6, <1>7

(* The end of a segment changes nothing but the phase.                     *)
LEMMA EndOfSegmentKeepsCInv == CInv /\ EndOfSegment => CInv'
<1> SUFFICES ASSUME CInv, EndOfSegment PROVE CInv'
  OBVIOUS
<1>1. /\ phase = "in" /\ phase' = "leaving"
      /\ UNCHANGED <<config, scorer, buffer, offset, starting, added, fed, failed, segments>>
  BY DEF EndOfSegment
<1>2. BufferSize' = BufferSize /\ IsBuffered' = IsBuffered
  BY <1>1 DEF BufferSize, IsBuffered
<1>3. Types'
  BY <1>1, <1>2 DEF CInv, Types
<1>4. Counted'
  BY <1>1, <1>2 DEF CInv, Counted, InUse
<1>5. InOrder'
  BY <1>1 DEF CInv, InOrder
<1> QED BY <1>1, <1>3, <1>4, <1>5 DEF CInv, RequirementsKept

(* A feature flushed from the delay buffer.                                *)
LEMMA FlushOneKeepsCInv == CInv /\ FlushOne => CInv'
<1> SUFFICES ASSUME CInv, FlushOne PROVE CInv'
  OBVIOUS
<1>1. /\ phase = "leaving" /\ phase' = "leaving" /\ buffer # <<>>
      /\ buffer' = Tail(buffer) /\ starting' = (starting /\ ~IsBuffered)
      /\ config' = config /\ added' = added /\ segments' = segments
  BY DEF FlushOne
<1>2. /\ buffer \in Seq(Feature) /\ Len(buffer) # 0 /\ fed.feature \in Nat /\ added \in Nat
      /\ \A i \in 1 .. Len(buffer) : buffer[i] = fed.feature + i
      /\ fed.feature = added - Len(buffer) /\ Len(buffer) <= BufferSize
  BY <1>1 DEF CInv, Types, InOrder, Feature
<1>3. BufferSize' = BufferSize /\ IsBuffered' = IsBuffered /\ BufferSize \in Nat /\ Len(buffer) \in Nat
  BY <1>1, BufferSizeIs DEF BufferSize, IsBuffered, CInv, Types
<1>4. /\ Head(buffer) = fed.feature + 1 /\ Head(buffer) \in Feature
      /\ buffer' \in Seq(Feature) /\ Len(buffer') = Len(buffer) - 1
      /\ \A i \in 1 .. Len(buffer') : buffer'[i] = (fed.feature + 1) + i
  BY <1>1, <1>2, TailInOrder
<1>5. ASSUME scorer' \in ScorerOf(config.kind, config.n), fed'.feature = Head(buffer),
             fed' \in [feature : Feature \cup {0}, score : Value \cup {None}],
             ~failed', offset' \in Nat, Counted'
      PROVE  CInv'
  <2>1. starting' \in BOOLEAN /\ failed' \in BOOLEAN
    BY <1>1 DEF CInv, Types, FlushOne, RequirementsKept
  <2>2. Types'
    BY <1>1, <1>2, <1>3, <1>4, <1>5, <2>1 DEF CInv, Types
  <2>3. InOrder'
    BY <1>1, <1>2, <1>3, <1>4, <1>5 DEF InOrder
  <2> QED BY <1>5, <2>2, <2>3 DEF CInv, RequirementsKept
<1>6. CASE IsBuffered
  <2> DEFINE n == config.n
             st == Started
             taken == GetScorer(st.s, buffer[n])
             flushed == Flush(st.s)
             empty == Len(buffer) <= st.offset
  <2>1. /\ st.s \in ScorerOf(config.kind, config.n)
        /\ st.offset \in 0 .. n - 1 /\ ~failed' /\ offset' = st.offset
        /\ \/ /\ Len(buffer) >= n /\ st.offset = n - 1 /\ st.s.filled = n - 1
              /\ FedWith(taken, n, Head(buffer))
           \/ /\ empty /\ st.s.filled = Len(buffer) /\ FedWith(flushed, n, Head(buffer))
    BY <1>6, FlushOneIs
  <2>2. n \in Nat \ {0}
    BY BufferSizeIs DEF CInv, Types
  <2>3. Min({n - 1, Len(buffer')}) = IF n - 1 <= Len(buffer') THEN n - 1 ELSE Len(buffer')
    BY <1>4, <2>2, CountIs
  <2>4. scorer'.filled = Min({n - 1, Len(buffer')})
    <3>1. ASSUME Len(buffer) >= n, st.s.filled = n - 1, FedWith(taken, n, Head(buffer))
          PROVE  scorer'.filled = Min({n - 1, Len(buffer')})
      <4>1. buffer[n] \in Feature
        BY <1>2, <2>2, <3>1
      <4>2. taken.s.filled = st.s.filled
        BY <2>1, <2>2, <4>1, GetScorerIs
      <4> HIDE DEF taken, st
      <4>3. scorer'.filled = n - 1
        BY <3>1, <4>2 DEF FedWith, MayBeAsked
      <4>4. n - 1 <= Len(buffer')
        BY <1>3, <1>4, <2>2, <3>1
      <4> QED BY <2>3, <4>3, <4>4
    <3>2. ASSUME empty, st.s.filled = Len(buffer), FedWith(flushed, n, Head(buffer))
          PROVE  scorer'.filled = Min({n - 1, Len(buffer')})
      <4>1. flushed.s.filled = st.s.filled - 1
        <5>1. st.s.filled # 0
          BY <1>2, <3>2
        <5>2. st.s \in ScorerOf(config.kind, n)
          BY <2>1
        <5> DEFINE s == st.s
                   k == config.kind
        <5> HIDE DEF s, n, k
        <5>3. s \in ScorerOf(k, n) /\ s.filled # 0
          BY <5>1, <5>2 DEF s, k
        <5>4. Flush(s).s.filled = s.filled - 1
          BY <2>2, <5>3, FlushIs DEF FlushGives
        <5> QED BY <5>4 DEF s
      <4>2. st.s.filled \in 0 .. n - 1
        BY <2>1, ScorerIs
      <4> HIDE DEF flushed, st, n
      <4>3. scorer'.filled = Len(buffer')
        BY <1>4, <3>2, <4>1 DEF FedWith, MayBeAsked
      <4>4. Len(buffer') <= n - 1
        BY <1>3, <1>4, <2>2, <3>2, <4>2
      <4>5. Len(buffer') \in Nat
        BY <1>4
      <4> QED BY <2>2, <2>3, <4>3, <4>4, <4>5
    <3> QED BY <2>1, <3>1, <3>2
  <2>5. Len(buffer') > offset' => offset' = n - 1
    <3> HIDE DEF st, taken, flushed, n
    <3>1. CASE st.offset = n - 1
      BY <2>1, <3>1
    <3>2. CASE empty
      BY <1>3, <1>4, <2>1, <2>2, <3>2
    <3> QED BY <2>1, <3>1, <3>2
  <2>6. scorer' \in ScorerOf(config.kind, config.n) /\ fed'.feature = Head(buffer)
        /\ fed' \in [feature : Feature \cup {0}, score : Value \cup {None}]
    BY <2>1 DEF FedWith
  <2> HIDE DEF st, taken, flushed, n, empty
  <2>7. config'.n = n /\ offset' \in Nat /\ offset' <= n - 1
    BY <1>1, <2>1, <2>2 DEF n
  <2>8. Counted'
    BY <1>1, <1>3, <1>6, <2>4, <2>5, <2>7 DEF Counted, InUse
  <2> QED BY <1>5, <2>1, <2>6, <2>7, <2>8
<1>7. CASE ~IsBuffered
  <2>1. Started = [s |-> scorer, offset |-> offset] /\ offset = 0 /\ scorer.filled = 0
    BY <1>7 DEF Started, CInv, Counted
  <2>2. buffer[0 + 1] = Head(buffer) /\ Len(buffer) > 0
    BY <1>2, <1>3
  <2>3. Feed(Head(buffer), ScorerFor(scorer, buffer[0 + 1])) /\ offset' = 0 /\ failed' = failed
    BY <1>7, <2>1, <2>2 DEF FlushOne, CInv, Types
  <2>4. /\ scorer' = scorer /\ fed'.feature = Head(buffer)
        /\ fed' \in [feature : Feature \cup {0}, score : Value \cup {None}]
    BY <1>4, <1>7, <2>2, <2>3, FeedPlain
  <2>5. Counted'
    BY <1>1, <1>3, <1>7, <2>1, <2>3, <2>4 DEF Counted, InUse
  <2> QED BY <1>5, <2>3, <2>4, <2>5 DEF CInv, Types, RequirementsKept
<1> QED BY <1>6, <1>7

(* Leaving a segment with an empty delay buffer.                           *)
LEMMA LeaveSegmentKeepsCInv == CInv /\ LeaveSegment => CInv'
<1> SUFFICES ASSUME CInv, LeaveSegment PROVE CInv'
  OBVIOUS
<1>1. /\ phase = "leaving" /\ phase' = "idle" /\ buffer = <<>>
      /\ config' = config /\ offset' = offset /\ added' = added /\ failed' = failed
      /\ segments' = segments /\ fed' = fed
  BY DEF LeaveSegment
<1>2. CASE config.driver = "flf"
  <2>1. HandlerReset(scorer)
    BY <1>2 DEF LeaveSegment
  <2> QED BY <1>1, <2>1, ResetKeepsCInv DEF CInv, Types
<1>3. CASE config.driver # "flf"
  <2>1. scorer' = scorer /\ buffer' = buffer /\ starting' = starting
    BY <1>3 DEF LeaveSegment
  <2>2. BufferSize' = BufferSize /\ IsBuffered' = IsBuffered
    BY <1>1 DEF BufferSize, IsBuffered
  <2>3. Types'
    BY <1>1, <2>1, <2>2 DEF CInv, Types
  <2>4. Counted'
    BY <1>1, <1>3, <2>1, <2>2 DEF CInv, Counted, InUse
  <2> QED BY <1>1, <2>3, <2>4 DEF CInv, InOrder, RequirementsKept
<1> QED BY <1>2, <1>3

(* Flf abandons a segment: the handler is reset.                           *)
LEMMA AbandonKeepsCInv == CInv /\ Abandon => CInv'
<1> SUFFICES ASSUME CInv, Abandon PROVE CInv'
  OBVIOUS
<1>1. /\ phase' = "idle" /\ HandlerReset(scorer)
      /\ config' = config /\ offset' = offset /\ added' = added /\ failed' = failed
      /\ segments' = segments /\ fed' = fed
  BY DEF Abandon
<1> QED BY <1>1, ResetKeepsCInv DEF CInv, Types

(* The counting invariant is inductive.                                    *)
LEMMA CInvStep == CInv /\ [Next]_vars => CInv'
<1> SUFFICES ASSUME CInv, [Next]_vars PROVE CInv'
  OBVIOUS
<1>1. CASE UNCHANGED vars
  BY <1>1 DEF vars, CInv, Types, Counted, InOrder, RequirementsKept, InUse, BufferSize, IsBuffered
<1> QED
  BY <1>1, EnterSegmentKeepsCInv, AddDelayedKeepsCInv, AddScoredKeepsCInv, EndOfSegmentKeepsCInv,
     FlushOneKeepsCInv, LeaveSegmentKeepsCInv, AbandonKeepsCInv DEF Next

(* Nothing is delayed or buffered at first.                                *)
LEMMA CInvInit == Init => CInv
<1> SUFFICES ASSUME Init PROVE CInv
  OBVIOUS
<1> DEFINE n == config.n
           zeros == [p \in 0 .. n - 1 |-> Zero]
           none == [p \in 0 .. n - 1 |-> None]
<1>1. /\ config \in Config /\ buffer = <<>> /\ offset = 0 /\ starting = TRUE
      /\ phase = "idle" /\ added = 0 /\ fed = [feature |-> 0, score |-> None]
      /\ failed = FALSE /\ segments = 0
      /\ scorer = [kind |-> config.kind, n |-> n, ring |-> zeros, scored |-> none, filled |-> 0, cur |-> 0]
  BY DEF Init, NewScorer
<1>2. n \in Nat \ {0} /\ BufferSize \in Nat
  BY <1>1, BufferSizeIs
<1>3. zeros \in [0 .. n - 1 -> Value] /\ none \in [0 .. n - 1 -> Value \cup {None}] /\ 0 \in 0 .. n - 1
  BY <1>2 DEF Value
<1> HIDE DEF zeros, none, n
<1>4. scorer \in ScorerOf(config.kind, n) /\ scorer.filled = 0
  BY <1>1, <1>3 DEF ScorerOf
<1>5. Types
  <2>1. buffer \in Seq(Feature) /\ Len(buffer) <= BufferSize
    BY <1>1, <1>2
  <2>2. fed \in [feature : Feature \cup {0}, score : Value \cup {None}]
    BY <1>1
  <2>3. added \in 0 .. MaxFeatures /\ segments \in 0 .. MaxSegments /\ offset \in Nat
    BY <1>1, BoundAssumption
  <2> QED BY <1>1, <1>4, <2>1, <2>2, <2>3 DEF Types, n
<1>6. Counted /\ InOrder
  BY <1>1, <1>4 DEF Counted, InOrder, InUse
<1> QED BY <1>1, <1>5, <1>6 DEF CInv, RequirementsKept

(* The counting invariant holds of the specification.                      *)
LEMMA CInvHolds == Spec => []CInv
BY CInvInit, CInvStep, PTL DEF Spec

-----------------------------------------------------------------------------
(* What the counting invariant says of the specification.                  *)

(* The parts of the state keep their types; the ring always has the length *)
(* that the configuration gives, the delay never exceeds its own.          *)
THEOREM WellTyped == Spec => []TypeOK
<1>1. CInv => TypeOK
  <2> SUFFICES ASSUME CInv PROVE TypeOK
    OBVIOUS
  <2>1. /\ scorer.n = config.n /\ config.n \in Nat \ {0}
        /\ scorer.ring \in [0 .. config.n - 1 -> Value]
        /\ scorer.scored \in [0 .. config.n - 1 -> Value \cup {None}]
        /\ scorer.filled \in 0 .. config.n - 1 /\ scorer.cur \in 0 .. config.n - 1
    BY BufferSizeIs, ScorerIs DEF CInv, Types
  <2>2. /\ scorer.ring \in [Position(scorer) -> Feature \cup {Zero}]
        /\ scorer.scored \in [Position(scorer) -> Feature \cup {Zero, None}]
        /\ scorer.filled \in 0 .. scorer.n /\ scorer.cur \in Position(scorer)
    BY <2>1 DEF Position, Value
  <2>3. fed.feature \in Feature \cup {0} /\ fed.score \in Feature \cup {Zero, None}
    BY DEF CInv, Types, Value
  <2> QED BY <2>2, <2>3 DEF CInv, Types, TypeOK
<1> QED BY <1>1, CInvHolds, PTL

(* The handler never asks a scorer for something it does not have: no      *)
(* getScorer before the ring is full, no flush of an empty ring.           *)
THEOREM KeepsRequirements == Spec => []RequirementsKept
<1>1. CInv => RequirementsKept
  BY DEF CInv
<1> QED BY <1>1, CInvHolds, PTL

(* leaveSpeechSegment's ensure(bufferEmpty()): the last feature of the     *)
(* delay buffer leaves together with the last one of the ring.             *)
THEOREM NothingLeft == Spec => []EmptyAtTheEnd
<1>1. CInv => EmptyAtTheEnd
  <2> SUFFICES ASSUME CInv, phase = "leaving", buffer = <<>>, IsBuffered, ~starting
               PROVE  BufferEmpty(scorer)
    BY DEF EmptyAtTheEnd
  <2>1. config.n \in Nat \ {0} /\ <<>> \in Seq(Feature)
    BY BufferSizeIs DEF CInv, Types
  <2>2. Min({config.n - 1, Len(buffer)}) = IF config.n - 1 <= Len(buffer) THEN config.n - 1 ELSE Len(buffer)
    BY <2>1, CountIs
  <2>3. scorer.filled = Min({config.n - 1, Len(buffer)})
    BY DEF CInv, Counted, InUse
  <2> QED BY <2>1, <2>2, <2>3 DEF BufferEmpty
<1> QED BY <1>1, CInvHolds, PTL

(* The features of a segment reach the search one after the other, each    *)
(* with its look-ahead behind it, and all of them before the segment is    *)
(* left.                                                                   *)
THEOREM FeedsInOrder == Spec => FedInOrder
<1> DEFINE Step ==
      /\ phase # "idle" /\ fed' # fed =>
           /\ fed'.feature = fed.feature + 1
           /\ phase = "in" => Len(buffer') >= config.look
      /\ phase = "leaving" /\ phase' = "idle" => fed.feature = added
<1>1. CInv /\ [Next]_vars => [Step]_vars
  <2> SUFFICES ASSUME CInv, Next PROVE Step
    OBVIOUS
  <2>1. CInv'
    BY CInvStep
  <2>2. /\ phase # "idle" => fed.feature = added - Len(buffer)
        /\ phase' # "idle" => fed'.feature = added' - Len(buffer')
    BY <2>1 DEF CInv, InOrder
  <2>3. added \in Nat /\ Len(buffer) \in Nat /\ buffer \in Seq(Feature) /\ Len(buffer) <= BufferSize
        /\ BufferSize \in Nat /\ BufferSize >= config.look /\ config.look \in Nat
    BY BufferSizeIs DEF CInv, Types
  <2>4. CASE AddScored
    <3>1. /\ phase = "in" /\ phase' = "in" /\ added' = added + 1 /\ added < MaxFeatures
          /\ Len(buffer) >= BufferSize /\ buffer' = Tail(Append(buffer, added + 1))
      BY <2>4 DEF AddScored
    <3>2. Len(Append(buffer, added + 1)) = Len(buffer) + 1
          /\ Append(buffer, added + 1) \in Seq(Feature)
      BY <3>1, AppendInOrder DEF CInv
    <3> DEFINE all == Append(buffer, added + 1)
    <3> HIDE DEF all
    <3>3. Len(buffer') = Len(buffer)
      <4>1. all \in Seq(Feature) /\ Len(all) = Len(buffer) + 1 /\ buffer' = Tail(all)
        BY <3>1, <3>2 DEF all
      <4> QED BY <2>3, <4>1
    <3>4. fed'.feature = fed.feature + 1
      <4>1. fed.feature = added - Len(buffer) /\ fed'.feature = added' - Len(buffer')
        BY <2>2, <3>1
      <4>2. fed'.feature = (added + 1) - Len(buffer)
        BY <3>1, <3>3, <4>1
      <4> QED BY <2>3, <4>1, <4>2
    <3>5. Len(buffer') >= config.look
      BY <2>3, <3>1, <3>3
    <3> QED BY <3>1, <3>4, <3>5
  <2>5. CASE FlushOne
    <3>1. /\ phase = "leaving" /\ phase' = "leaving" /\ added' = added
          /\ buffer # <<>> /\ buffer' = Tail(buffer)
      BY <2>5 DEF FlushOne
    <3>2. Len(buffer') = Len(buffer) - 1
      BY <2>3, <3>1
    <3> QED BY <2>2, <2>3, <3>1, <3>2
  <2>6. CASE LeaveSegment
    <3>1. phase = "leaving" /\ buffer = <<>> /\ fed' = fed
      BY <2>6 DEF LeaveSegment
    <3> QED BY <2>2, <2>3, <3>1
  <2>7. CASE EnterSegment \/ AddDelayed \/ EndOfSegment \/ Abandon
    BY <2>7 DEF EnterSegment, AddDelayed, EndOfSegment, Abandon
  <2> QED BY <2>4, <2>5, <2>6, <2>7 DEF Next
<1> QED BY <1>1, CInvHolds, PTL DEF Spec, FedInOrder

-----------------------------------------------------------------------------
(* What the ring holds, where a ring of Mm is reset for every segment.     *)

(* reset() of the handler makes a ring fit to be started again.            *)
LEMMA ResetKeepsDInv ==
  ASSUME MmIsReset, DInv, HandlerReset(scorer), config' = config, CInv',
         config.driver = "flf", phase' = "idle", fed' = fed, phase \in {"in", "leaving"},
         phase = "leaving" => buffer = <<>>
  PROVE  DInv'
<1>1. /\ buffer' = <<>> /\ starting' = TRUE /\ scorer' = Drained(scorer)
  BY DEF HandlerReset
<1>2. config.kind # "mm" /\ config \in Config
  BY DEF MmIsReset, DInv, CInv, Types
<1>3. IsBuffered <=> config.kind = "nn"
  BY <1>2, ConfigAssumption DEF IsBuffered
<1>4. config.kind = "nn" => scorer'.cur = 0
  <2> SUFFICES ASSUME config.kind = "nn" PROVE scorer'.cur = 0
    OBVIOUS
  <2> DEFINE n == config.n
             k == config.kind
  <2>1. n \in Nat \ {0} /\ scorer \in ScorerOf(k, n) /\ (scorer.filled = 0 => scorer.cur = 0)
    BY BufferSizeIs DEF DInv, CInv, Types, Holds
  <2> HIDE DEF n
  <2> QED BY <1>1, <2>1, DrainedIs
<1>5. Holds'
  BY <1>1, <1>2, <1>3, <1>4 DEF Holds, InUse, IsBuffered
<1>6. OwnScore'
  BY <1>1 DEF DInv, OwnScore
<1> QED BY <1>5, <1>6 DEF DInv

(* Entering a segment: a ring that was reset has no scores to forget.      *)
LEMMA EnterSegmentKeepsDInv == DInv /\ EnterSegment => DInv'
<1> SUFFICES ASSUME DInv, EnterSegment PROVE DInv'
  OBVIOUS
<1>1. CInv'
  BY EnterSegmentKeepsCInv DEF DInv
<1>2. /\ phase = "idle" /\ phase' = "in" /\ fed' = [feature |-> added, score |-> None] /\ config' = config
  BY DEF EnterSegment
<1>3. OwnScore'
  BY <1>2 DEF OwnScore
<1>4. CASE config.driver = "speech"
  <2> DEFINE n == config.n
             k == config.kind
             r == ResetScorer(scorer)
  <2>1. starting' = TRUE /\ scorer' = Drained(r)
    BY <1>4 DEF EnterSegment, HandlerReset
  <2>2. n \in Nat \ {0} /\ scorer \in ScorerOf(k, n)
    BY BufferSizeIs DEF DInv, CInv, Types
  <2>3. r \in ScorerOf(k, n) /\ r.filled = 0 /\ r.cur = 0 /\ \A p \in 0 .. n - 1 : r.scored[p] = None
    BY <2>2, ResetScorerIs
  <2> HIDE DEF n, k, r
  <2>4. scorer' = r
    BY <2>1, <2>2, <2>3, DrainedIs
  <2>5. Holds'
    BY <1>2, <2>1, <2>3, <2>4 DEF Holds, InUse, n
  <2> QED BY <1>1, <1>3, <2>5 DEF DInv
<1>5. CASE config.driver # "speech"
  <2>1. scorer' = scorer /\ buffer' = buffer /\ starting' = starting
    BY <1>5 DEF EnterSegment
  <2>2. config.driver = "flf"
    BY <1>5, ConfigAssumption DEF DInv, CInv, Types
  <2>3. IsBuffered => starting
    BY <1>2, <2>2 DEF DInv, CInv, Counted
  <2>4. Holds'
    BY <1>2, <2>1, <2>3 DEF DInv, Holds, InUse, IsBuffered
  <2> QED BY <1>1, <1>3, <2>4 DEF DInv
<1> QED BY <1>4, <1>5

(* A feature that is only delayed touches neither ring nor score.          *)
LEMMA AddDelayedKeepsDInv == DInv /\ AddDelayed => DInv'
<1> SUFFICES ASSUME DInv, AddDelayed PROVE DInv'
  OBVIOUS
<1>1. CInv'
  BY AddDelayedKeepsCInv DEF DInv
<1>2. /\ phase = "in" /\ phase' = "in" /\ Len(buffer) < BufferSize
      /\ config' = config /\ scorer' = scorer /\ starting' = starting /\ fed' = fed
  BY DEF AddDelayed
<1>3. ~InUse
  BY <1>2, BufferSizeIs DEF DInv, CInv, Counted, Types
<1>4. Holds'
  BY <1>2, <1>3 DEF DInv, Holds, InUse, IsBuffered
<1>5. OwnScore'
  BY <1>2 DEF DInv, OwnScore
<1> QED BY <1>1, <1>4, <1>5 DEF DInv

(* A feature taken while the segment goes on: the window moves by one.     *)
LEMMA AddScoredKeepsDInv == DInv /\ AddScored => DInv'
<1> SUFFICES ASSUME DInv, AddScored PROVE DInv'
  OBVIOUS
<1>1. CInv' /\ CInv /\ Holds
  BY AddScoredKeepsCInv DEF DInv
<1> DEFINE n == config.n
           k == config.kind
           st == Started
           all == Append(buffer, added + 1)
<1>2. /\ phase = "in" /\ phase' = "in" /\ added < MaxFeatures /\ Len(buffer) >= BufferSize
      /\ buffer' = Tail(all) /\ config' = config
      /\ starting' = (starting /\ ~IsBuffered)
  BY DEF AddScored
<1>3. CASE IsBuffered
  <2>1. /\ all \in Seq(Feature) /\ Len(all) >= n + 1 /\ st.s \in ScorerOf(k, n) /\ st.s.filled = n - 1
        /\ FedWith(GetScorer(st.s, all[n]), n, Head(all))
    BY <1>1, <1>3, AddScoredIs
  <2>2. n \in Nat \ {0} /\ Len(buffer) \in Nat /\ Len(all) = Len(buffer) + 1
    BY <1>1, <1>2, BufferSizeIs, AppendInOrder DEF CInv, Types
  <2>3. Window(st.s, n, buffer, n - 1)
    BY <1>1, <1>2, <1>3, <2>1, StartedHolds
  <2> HIDE DEF n, k, st
  <2>4. \A i \in 1 .. n - 1 : all[i] = buffer[i]
    <3>1. buffer \in Seq(Feature)
      BY <1>1 DEF CInv, Types
    <3> SUFFICES ASSUME NEW i \in 1 .. n - 1 PROVE all[i] = buffer[i]
      OBVIOUS
    <3>2. i \in 1 .. Len(buffer)
      BY <2>1, <2>2
    <3> QED BY <3>1, <3>2
  <2> HIDE DEF all
  <2>5. Window(st.s, n, all, n - 1)
    BY <2>3, <2>4 DEF Window
  <2>6. /\ scorer' \in ScorerOf(k, n) /\ MayBeAsked(scorer', GetScorer(st.s, all[n]), n)
        /\ fed'.feature = Head(all) /\ fed'.score \in {None, GivenScore(GetScorer(st.s, all[n]))}
    BY <2>1 DEF FedWith, n, k
  <2>7. /\ scorer'.filled = n - 1 /\ Window(scorer', n, Tail(all), n - 1)
        /\ GivenScore(GetScorer(st.s, all[n])) = Head(all)
    <3> DEFINE s == st.s
               t == scorer'
    <3>1. /\ Len(all) >= n /\ all \in Seq(Feature) /\ s \in ScorerOf(k, n) /\ s.filled = n - 1
          /\ t \in ScorerOf(k, n) /\ MayBeAsked(t, GetScorer(s, all[n]), n) /\ Window(s, n, all, n - 1)
      BY <2>1, <2>2, <2>5, <2>6
    <3> HIDE DEF s, t
    <3>2. AfterTake(t, n, all, GivenScore(GetScorer(s, all[n])))
      BY <2>2, <3>1, TakeHolds
    <3> QED BY <3>2 DEF s, t, AfterTake
  <2>8. scorer'.filled = 0 => scorer'.cur = 0
    BY <2>2, <2>6, <2>7, ScorerIs
  <2>9. Holds'
    BY <1>2, <1>3, <2>7, <2>8 DEF Holds, InUse, IsBuffered, n
  <2>10. OwnScore'
    BY <2>6, <2>7 DEF OwnScore
  <2> QED BY <1>1, <2>9, <2>10 DEF DInv
<1>4. CASE ~IsBuffered
  <2>1. Started = [s |-> scorer, offset |-> offset] /\ offset = 0
    BY <1>1, <1>4 DEF Started, CInv, Counted
  <2>2. all \in Seq(Feature) /\ Len(all) # 0
    BY <1>1, <1>2, BufferSizeIs, AppendInOrder DEF CInv, Types
  <2>3. Feed(Head(all), ScorerFor(scorer, all[0 + 1]))
    BY <2>1 DEF AddScored
  <2> HIDE DEF all
  <2>4. all[0 + 1] = Head(all) /\ Head(all) \in Feature
    BY <2>2
  <2>5. fed'.feature = Head(all) /\ fed'.score \in {None, Head(all)}
    BY <1>4, <2>3, <2>4, FeedPlain
  <2>6. OwnScore'
    BY <2>5 DEF OwnScore
  <2>7. Holds'
    BY <1>2, <1>4 DEF Holds, InUse, IsBuffered
  <2> QED BY <1>1, <2>6, <2>7 DEF DInv
<1> QED BY <1>3, <1>4

(* The end of a segment touches neither ring nor score.                    *)
LEMMA EndOfSegmentKeepsDInv == DInv /\ EndOfSegment => DInv'
<1> SUFFICES ASSUME DInv, EndOfSegment PROVE DInv'
  OBVIOUS
<1>1. CInv'
  BY EndOfSegmentKeepsCInv DEF DInv
<1>2. /\ phase = "in" /\ phase' = "leaving"
      /\ config' = config /\ scorer' = scorer /\ starting' = starting /\ fed' = fed /\ buffer' = buffer
  BY DEF EndOfSegment
<1>3. Holds'
  BY <1>2 DEF DInv, Holds, InUse, IsBuffered
<1>4. OwnScore'
  BY <1>2 DEF DInv, OwnScore
<1> QED BY <1>1, <1>3, <1>4 DEF DInv

(* A feature flushed: the window moves by one, or shrinks by one.          *)
LEMMA FlushOneKeepsDInv == DInv /\ FlushOne => DInv'
<1> SUFFICES ASSUME DInv, FlushOne PROVE DInv'
  OBVIOUS
<1>1. CInv' /\ CInv /\ Holds
  BY FlushOneKeepsCInv DEF DInv
<1> DEFINE n == config.n
           k == config.kind
           st == Started
<1>2. /\ phase = "leaving" /\ phase' = "leaving" /\ buffer # <<>> /\ buffer' = Tail(buffer)
      /\ config' = config /\ starting' = (starting /\ ~IsBuffered)
  BY DEF FlushOne
<1>3. n \in Nat \ {0} /\ buffer \in Seq(Feature) /\ Len(buffer) \in Nat \ {0} /\ Len(buffer') = Len(buffer) - 1
  BY <1>1, <1>2, BufferSizeIs DEF CInv, Types
<1>4. CASE IsBuffered
  <2> DEFINE taken == GetScorer(st.s, buffer[n])
             flushed == Flush(st.s)
  <2>1. /\ st.s \in ScorerOf(k, n)
        /\ \/ /\ Len(buffer) >= n /\ st.s.filled = n - 1 /\ FedWith(taken, n, Head(buffer))
           \/ /\ st.s.filled = Len(buffer) /\ FedWith(flushed, n, Head(buffer))
    BY <1>1, <1>4, FlushOneIs
  <2>2. Window(st.s, n, buffer, st.s.filled)
    BY <1>1, <1>2, <1>4, StartedHolds
  <2> HIDE DEF st, taken, flushed
  <2>3. ASSUME NEW r, FedWith(r, n, Head(buffer))
        PROVE  /\ scorer' \in ScorerOf(k, n) /\ MayBeAsked(scorer', r, n)
               /\ fed'.feature = Head(buffer) /\ fed'.score \in {None, GivenScore(r)}
    BY <2>3 DEF FedWith
  <2> HIDE DEF n, k
  <2>4. ASSUME Len(buffer) >= n, st.s.filled = n - 1, FedWith(taken, n, Head(buffer))
        PROVE  /\ Window(scorer', n, buffer', scorer'.filled)
               /\ scorer'.filled = 0 => scorer'.cur = 0
               /\ OwnScore'
    <3>1. /\ scorer' \in ScorerOf(k, n) /\ MayBeAsked(scorer', taken, n)
          /\ fed'.feature = Head(buffer) /\ fed'.score \in {None, GivenScore(taken)}
      BY <2>3, <2>4
    <3>2. /\ scorer'.filled = n - 1 /\ Window(scorer', n, Tail(buffer), n - 1)
          /\ GivenScore(taken) = Head(buffer)
      <4>1. Window(st.s, n, buffer, n - 1) /\ MayBeAsked(scorer', GetScorer(st.s, buffer[n]), n)
        BY <2>2, <2>4, <3>1 DEF taken
      <4> DEFINE s == st.s
                 t == scorer'
                 all == buffer
      <4>2. /\ Len(all) >= n /\ s \in ScorerOf(k, n) /\ all \in Seq(Feature) /\ n \in Nat \ {0}
            /\ s.filled = n - 1 /\ t \in ScorerOf(k, n)
        BY <1>3, <2>1, <2>4, <3>1
      <4>3. Window(s, n, all, n - 1) /\ MayBeAsked(t, GetScorer(s, all[n]), n)
        BY <4>1
      <4> HIDE DEF s, t, all
      <4>4. AfterTake(t, n, all, GivenScore(GetScorer(s, all[n])))
        BY <4>2, <4>3, TakeHolds
      <4> QED BY <4>4 DEF s, t, all, taken, AfterTake
    <3>3. scorer'.cur \in 0 .. n - 1
      BY <3>1, ScorerIs
    <3> QED BY <1>2, <1>3, <3>1, <3>2, <3>3 DEF OwnScore
  <2>5. ASSUME st.s.filled = Len(buffer), FedWith(flushed, n, Head(buffer))
        PROVE  /\ Window(scorer', n, buffer', scorer'.filled)
               /\ k = "nn" /\ scorer'.filled = 0 => scorer'.cur = 0
               /\ OwnScore'
    <3>1. /\ scorer' \in ScorerOf(k, n) /\ MayBeAsked(scorer', flushed, n)
          /\ fed'.feature = Head(buffer) /\ fed'.score \in {None, GivenScore(flushed)}
      BY <2>3, <2>5
    <3>2. /\ scorer'.filled = Len(buffer) - 1 /\ Window(scorer', n, Tail(buffer), Len(buffer) - 1)
          /\ \/ GivenScore(flushed) = Head(buffer)
             \/ k = "nn" /\ Len(buffer) = 1 /\ GivenScore(flushed) = Zero
          /\ k = "nn" /\ Len(buffer) = 1 => scorer'.cur = 0
      <4>1. Window(st.s, n, buffer, Len(buffer)) /\ MayBeAsked(scorer', Flush(st.s), n)
        BY <2>2, <2>5, <3>1 DEF flushed
      <4> DEFINE s == st.s
                 t == scorer'
                 all == buffer
      <4>2. /\ Len(all) # 0 /\ s \in ScorerOf(k, n) /\ all \in Seq(Feature) /\ n \in Nat \ {0}
            /\ s.filled = Len(all) /\ t \in ScorerOf(k, n)
        BY <1>3, <2>1, <2>5, <3>1
      <4>3. Window(s, n, all, Len(all)) /\ MayBeAsked(t, Flush(s), n)
        BY <4>1
      <4> HIDE DEF s, t, all
      <4>4. AfterFlush(t, k, n, all, GivenScore(Flush(s)))
        BY <4>2, <4>3, FlushHolds
      <4> QED BY <4>4 DEF s, t, all, flushed, AfterFlush
    <3>3. OwnScore'
      <4>1. CASE GivenScore(flushed) = Head(buffer)
        BY <3>1, <4>1 DEF OwnScore
      <4>2. CASE k = "nn" /\ Len(buffer) = 1 /\ GivenScore(flushed) = Zero
        <5>1. Tail(buffer) = <<>>
          BY <1>3, <4>2
        <5>2. config'.kind = "nn" /\ phase' # "in" /\ buffer' = <<>>
          BY <1>2, <4>2, <5>1 DEF k
        <5>3. fed'.score \in {None, Zero}
          BY <3>1, <4>2
        <5> QED BY <5>2, <5>3 DEF OwnScore
      <4> QED BY <3>2, <4>1, <4>2
    <3>4. scorer'.filled = 0 => Len(buffer) = 1
      BY <1>3, <3>2
    <3> QED BY <1>2, <3>2, <3>3, <3>4
  <2>6. /\ Window(scorer', n, buffer', scorer'.filled) /\ OwnScore'
        /\ k = "nn" /\ scorer'.filled = 0 => scorer'.cur = 0
    BY <2>1, <2>4, <2>5
  <2>7. Holds'
    BY <1>2, <1>4, <2>6 DEF Holds, InUse, IsBuffered, n, k
  <2> QED BY <1>1, <2>6, <2>7 DEF DInv
<1>5. CASE ~IsBuffered
  <2>1. Started = [s |-> scorer, offset |-> offset] /\ offset = 0
    BY <1>1, <1>5 DEF Started, CInv, Counted
  <2>2. buffer[0 + 1] = Head(buffer) /\ Head(buffer) \in Feature /\ Len(buffer) > 0
    BY <1>3
  <2>3. Feed(Head(buffer), ScorerFor(scorer, buffer[0 + 1]))
    BY <2>1, <2>2 DEF FlushOne
  <2>4. fed'.feature = Head(buffer) /\ fed'.score \in {None, Head(buffer)}
    BY <1>5, <2>2, <2>3, FeedPlain
  <2>5. OwnScore'
    BY <2>4 DEF OwnScore
  <2>6. Holds'
    BY <1>2, <1>5 DEF Holds, InUse, IsBuffered
  <2> QED BY <1>1, <2>5, <2>6 DEF DInv
<1> QED BY <1>4, <1>5

(* Leaving a segment: only a ring of Nn is drained without a reset.        *)
LEMMA LeaveSegmentKeepsDInv == MmIsReset /\ DInv /\ LeaveSegment => DInv'
<1> SUFFICES ASSUME MmIsReset, DInv, LeaveSegment PROVE DInv'
  OBVIOUS
<1>1. CInv'
  BY LeaveSegmentKeepsCInv DEF DInv
<1>2. phase = "leaving" /\ phase' = "idle" /\ buffer = <<>> /\ config' = config /\ fed' = fed
  BY DEF LeaveSegment
<1>3. CASE config.driver = "flf"
  <2>1. HandlerReset(scorer)
    BY <1>3 DEF LeaveSegment
  <2> QED BY <1>1, <1>2, <1>3, <2>1, ResetKeepsDInv
<1>4. CASE config.driver # "flf"
  <2>1. scorer' = scorer /\ buffer' = buffer /\ starting' = starting
    BY <1>4 DEF LeaveSegment
  <2>2. Holds'
    BY <1>2, <2>1 DEF DInv, Holds, InUse, IsBuffered
  <2>3. OwnScore'
    BY <1>2, <2>1 DEF DInv, OwnScore
  <2> QED BY <1>1, <2>2, <2>3 DEF DInv
<1> QED BY <1>3, <1>4

(* Abandoning a segment: only a ring of Nn is drained without a reset.     *)
LEMMA AbandonKeepsDInv == MmIsReset /\ DInv /\ Abandon => DInv'
<1> SUFFICES ASSUME MmIsReset, DInv, Abandon PROVE DInv'
  OBVIOUS
<1>1. CInv'
  BY AbandonKeepsCInv DEF DInv
<1>2. /\ phase = "in" /\ phase' = "idle" /\ config' = config /\ fed' = fed
      /\ config.driver = "flf" /\ HandlerReset(scorer)
  BY DEF Abandon
<1> QED BY <1>1, <1>2, ResetKeepsDInv

(* So is the whole invariant, under the condition on Mm.                   *)
LEMMA DInvStep == MmIsReset /\ DInv /\ [Next]_vars => DInv'
<1> SUFFICES ASSUME MmIsReset, DInv, [Next]_vars PROVE DInv'
  OBVIOUS
<1>1. CASE UNCHANGED vars
  <2>1. CInv'
    BY CInvStep DEF DInv
  <2>2. Holds' /\ OwnScore'
    BY <1>1 DEF vars, DInv, Holds, InUse, IsBuffered, OwnScore
  <2> QED BY <2>1, <2>2 DEF DInv
<1> QED
  BY <1>1, EnterSegmentKeepsDInv, AddDelayedKeepsDInv, AddScoredKeepsDInv, EndOfSegmentKeepsDInv,
     FlushOneKeepsDInv, LeaveSegmentKeepsDInv, AbandonKeepsDInv DEF Next

(* The first ring is at its first position and has no scores.              *)
LEMMA DInvInit == Init => DInv
<1> SUFFICES ASSUME Init PROVE DInv
  OBVIOUS
<1>1. CInv
  BY CInvInit
<1>2. /\ scorer.cur = 0 /\ scorer.scored = [p \in 0 .. config.n - 1 |-> None]
      /\ phase = "idle" /\ fed.score = None
  BY DEF Init, NewScorer
<1>3. Holds /\ OwnScore
  BY <1>2 DEF Holds, InUse, OwnScore
<1> QED BY <1>1, <1>3 DEF DInv

(* The whole invariant holds of the specification.                         *)
LEMMA DInvHolds ==
  ASSUME MmIsReset
  PROVE  Spec => []DInv
<1>1. DInv /\ [Next]_vars => DInv'
  BY DInvStep
<1> QED BY <1>1, DInvInit, PTL DEF Spec

(* The ring advances in step with the delay buffer: it holds the first     *)
(* features of the buffer, as many as fit, from its current position on.   *)
THEOREM RingInStep ==
  ASSUME MmIsReset
  PROVE  Spec => []InStep
<1>1. DInv => InStep
  <2> SUFFICES ASSUME DInv, InUse
               PROVE  /\ scorer.filled = Min({scorer.n - 1, Len(buffer)})
                      /\ \A i \in 1 .. scorer.filled :
                           scorer.ring[(scorer.cur + i - 1) % scorer.n] = buffer[i]
    BY DEF InStep, InUse
  <2>1. scorer.n = config.n
    BY ScorerIs DEF DInv, CInv, Types
  <2> QED BY <2>1 DEF DInv, CInv, Counted, Holds, Window, At
<1> QED BY <1>1, DInvHolds, PTL

(* A score that the search is given for a feature was computed from that   *)
(* feature (or, by Nn for the last one of a segment, from zeros).          *)
THEOREM ScoresItsOwn ==
  ASSUME MmIsReset
  PROVE  Spec => []OwnScore
<1>1. DInv => OwnScore
  BY DEF DInv
<1> QED BY <1>1, DInvHolds, PTL

-----------------------------------------------------------------------------
(* The loops of reset() and initializeBatchScorer(), round by round.       *)

(* A set of numbers has a least one.                                       *)
LEMMA LeastIs ==
  ASSUME NEW S, S \subseteq Nat, S # {}
  PROVE  Min(S) \in S /\ \A y \in S : Min(S) <= y
<1>1. PICK x \in S : \A y \in S : <<y, x>> \notin OpToRel(<, Nat)
  BY WFMin, NatLessThanWellFounded
<1>2. \A y \in S : x <= y
  <2> SUFFICES ASSUME NEW y \in S, ~(x <= y) PROVE FALSE
    OBVIOUS
  <2>1. x \in Nat /\ y \in Nat /\ y < x
    OBVIOUS
  <2> DEFINE p == <<y, x>>
  <2>2. p \in Nat \X Nat /\ p[1] = y /\ p[2] = x
    BY <2>1
  <2>3. p \in OpToRel(<, Nat)
    <3> HIDE DEF p
    <3> QED BY <2>2 DEF OpToRel
  <2> QED BY <1>1, <2>3
<1>3. Min(S) = CHOOSE y \in S : \A z \in S : y <= z
  BY DEF Min
<1> QED BY <1>1, <1>2, <1>3

(* Induction up to N, for sets.                                            *)
LEMMA Counting ==
  ASSUME NEW N \in Nat, NEW T, 0 \in T, \A k \in 0 .. N - 1 : k \in T => k + 1 \in T
  PROVE  \A k \in 0 .. N : k \in T
<1> DEFINE S == {k \in 0 .. N : k \notin T}
           l == Min(S)
<1>1. SUFFICES ASSUME S # {} PROVE FALSE
  OBVIOUS
<1>2. l \in S /\ \A y \in S : l <= y
  <2>1. S \subseteq Nat
    OBVIOUS
  <2> HIDE DEF S
  <2> QED BY <1>1, <2>1, LeastIs
<1>3. l \in 0 .. N /\ l \notin T
  BY <1>2
<1>4. \A y \in 0 .. N : y < l => y \in T
  <2>1. \A y \in 0 .. N : y \notin T => l <= y
    BY <1>2
  <2> HIDE DEF l, S
  <2> QED BY <1>3, <2>1
<1> HIDE DEF l, S
<1>5. l # 0 /\ l - 1 \in 0 .. N - 1 /\ l - 1 \in 0 .. N /\ l - 1 < l /\ (l - 1) + 1 = l
  BY <1>3
<1>6. l - 1 \in T
  BY <1>4, <1>5
<1>7. (l - 1) + 1 \in T
  BY <1>5, <1>6
<1> QED BY <1>3, <1>5, <1>7

(* The ring after k rounds of the loop of flushes.                         *)
DrainedBy(s, k) ==
  IF k >= s.filled THEN Drained(s) ELSE [s EXCEPT !.cur = (@ + k) % s.n, !.filled = @ - k]

(* A round of the loop takes it from one to the next.                      *)
LEMMA DrainedByNext ==
  ASSUME NEW k, NEW n \in Nat \ {0}, NEW s \in ScorerOf(k, n), NEW i \in Nat
  PROVE  DrainRound(DrainedBy(s, i)) = DrainedBy(s, i + 1)
<1> DEFINE m == s.filled
           c == s.cur
<1>1. /\ s.kind = k /\ s.n = n /\ s.ring \in [0 .. n - 1 -> Value]
      /\ s.scored \in [0 .. n - 1 -> Value \cup {None}] /\ m \in 0 .. n - 1 /\ c \in 0 .. n - 1
  BY ScorerIs
<1>2. CASE i >= m
  <2>1. DrainedBy(s, i) = Drained(s) /\ DrainedBy(s, i + 1) = Drained(s)
    BY <1>1, <1>2 DEF DrainedBy
  <2>2. Drained(s).filled = 0
    BY DrainedIs
  <2> QED BY <2>1, <2>2 DEF DrainRound, BufferEmpty
<1>3. CASE i < m
  <2> DEFINE x == (c + i) % n
             t == [s EXCEPT !.cur = x, !.filled = m - i]
             u == Flush(t).s
  <2>1. x \in 0 .. n - 1 /\ x = IF c + i < n THEN c + i ELSE c + i - n
    <3> DEFINE y == c + i
    <3>0. x = y % n
      OBVIOUS
    <3> HIDE DEF x
    <3>1. y \in 0 .. 2 * n - 1
      BY <1>1, <1>3
    <3> HIDE DEF y
    <3>2. y % n = IF y < n THEN y ELSE y - n
      BY <3>1, RingMod
    <3>3. y % n \in 0 .. n - 1
      BY <3>1, <3>2
    <3> QED BY <1>1, <3>0, <3>2, <3>3 DEF y
  <2>2. DrainedBy(s, i) = t
    BY <1>1, <1>3 DEF DrainedBy
  <2> HIDE DEF x
  <2>3. t \in ScorerOf(k, n) /\ t.filled = m - i /\ t.cur = x /\ t.ring = s.ring /\ t.scored = s.scored
    <3> DEFINE y == m - i
    <3>1. y \in 0 .. n - 1 /\ t = [s EXCEPT !.cur = x, !.filled = y]
      BY <1>1, <1>3
    <3> HIDE DEF y, t
    <3>2. t \in ScorerOf(k, n) /\ t.filled = y /\ t.cur = x /\ t.ring = s.ring /\ t.scored = s.scored
      BY <2>1, <3>1 DEF ScorerOf
    <3> QED BY <3>2 DEF y
  <2> HIDE DEF t
  <2>4. m - i # 0 /\ m - i \in 1 .. n - 1
    BY <1>1, <1>3
  <2>5. DrainRound(t) = u
    BY <2>3, <2>4 DEF DrainRound, BufferEmpty
  <2>6. FlushGives(Flush(t), k, n, t)
    BY <2>3, <2>4, FlushIs
  <2>7. u \in ScorerOf(k, n) /\ u.filled = m - i - 1 /\ u.scored = s.scored
        /\ IF i + 1 = m /\ k = "nn" THEN u.cur = 0 /\ \A p \in 0 .. n - 1 : u.ring[p] = Zero
           ELSE u.cur = (x + 1) % n /\ u.ring = s.ring
    <3>1. m - i = 1 <=> i + 1 = m
      BY <1>1
    <3> QED BY <2>3, <2>6, <3>1 DEF FlushGives
  <2> HIDE DEF u
  <2>8. CASE i + 1 < m
    <3>1. (x + 1) % n = (c + (i + 1)) % n
      <4> DEFINE y == x + 1
                 z == c + (i + 1)
      <4>1. y \in 0 .. 2 * n - 1 /\ z \in 0 .. 2 * n - 1
        BY <1>1, <2>1, <2>8
      <4>2. y = z \/ (y = z - n /\ z >= n)
        BY <1>1, <2>1
      <4>3. y = n => z = n
        BY <1>1, <2>1, <2>8
      <4> HIDE DEF y, z
      <4>4. y % n = (IF y < n THEN y ELSE y - n) /\ z % n = (IF z < n THEN z ELSE z - n)
        BY <4>1, RingMod
      <4>5. y % n = z % n
        BY <4>1, <4>2, <4>3, <4>4
      <4> QED BY <4>5 DEF y, z
    <3> DEFINE y == (c + (i + 1)) % n
               z == m - (i + 1)
    <3>2. DrainedBy(s, i + 1) = [s EXCEPT !.cur = y, !.filled = z]
      BY <1>1, <2>8 DEF DrainedBy
    <3>3. z = m - i - 1 /\ u.cur = y /\ u.filled = z /\ u.ring = s.ring /\ u.scored = s.scored
      BY <1>1, <2>7, <2>8, <3>1
    <3> HIDE DEF y, z
    <3>4. [s EXCEPT !.cur = y, !.filled = z] = u
      BY <2>7, <3>3 DEF ScorerOf
    <3> QED BY <2>2, <2>5, <3>2, <3>4
  <2>9. CASE i + 1 = m
    <3>1. DrainedBy(s, i + 1) = Drained(s) /\ m # 0 /\ u.filled = 0
      BY <1>1, <2>7, <2>9 DEF DrainedBy
    <3>2. CASE k = "nn"
      <4> DEFINE zeros == [p \in 0 .. n - 1 |-> Zero]
      <4>1. Drained(s) = [s EXCEPT !.ring = zeros, !.cur = 0, !.filled = 0]
        BY <1>1, <3>1, <3>2 DEF Drained, BufferEmpty, Everywhere, Position
      <4>2. u.ring = zeros
        <5>1. u.ring \in [0 .. n - 1 -> Value]
          BY <2>7, ScorerIs
        <5> QED BY <2>7, <2>9, <3>2, <5>1
      <4> HIDE DEF zeros
      <4>3. [s EXCEPT !.ring = zeros, !.cur = 0, !.filled = 0] = u
        BY <2>7, <2>9, <3>1, <3>2, <4>2 DEF ScorerOf
      <4> QED BY <2>2, <2>5, <3>1, <4>1, <4>3
    <3>3. CASE k # "nn"
      <4> DEFINE y == (c + m) % n
      <4>1. Drained(s) = [s EXCEPT !.cur = y, !.filled = 0]
        BY <1>1, <3>1, <3>3 DEF Drained, BufferEmpty
      <4>2. u.cur = y
        <5> DEFINE z == c + m
                   w == x + 1
        <5>1. w \in 0 .. 2 * n - 1 /\ z \in 0 .. 2 * n - 1
          BY <1>1, <2>1
        <5>2. w = z \/ (w = z - n /\ z >= n)
          BY <1>1, <2>1, <2>9
        <5>3. w = n => z = n
          BY <1>1, <2>1, <2>9
        <5>4. u.cur = w % n
          BY <2>7, <3>3
        <5> HIDE DEF w, z
        <5>5. w % n = (IF w < n THEN w ELSE w - n) /\ z % n = (IF z < n THEN z ELSE z - n)
          BY <5>1, RingMod
        <5>6. w % n = z % n
          BY <5>1, <5>2, <5>3, <5>5
        <5> QED BY <5>4, <5>6 DEF z
      <4>3. u.ring = s.ring
        BY <2>7, <3>3
      <4> HIDE DEF y
      <4>4. [s EXCEPT !.cur = y, !.filled = 0] = u
        BY <2>7, <3>1, <4>2, <4>3 DEF ScorerOf
      <4> QED BY <2>2, <2>5, <3>1, <4>1, <4>4
    <3> QED BY <3>2, <3>3
  <2> QED BY <1>1, <1>3, <2>8, <2>9
<1> QED BY <1>1, <1>2, <1>3

(* The loop of reset() ends with the ring drained.                         *)
LEMMA DrainLoopIs ==
  ASSUME NEW k, NEW n \in Nat \ {0}, NEW s \in ScorerOf(k, n)
  PROVE  DrainLoop(s) = Drained(s)
<1> DEFINE after == CHOOSE f : f = [i \in 0 .. n |-> IF i = 0 THEN s ELSE DrainRound(f[i - 1])]
           g == [i \in 0 .. n |-> DrainedBy(s, i)]
<1>1. s.n = n /\ s.filled \in 0 .. n - 1 /\ s.cur \in 0 .. n - 1
  BY ScorerIs
<1>2. DrainedBy(s, 0) = s
  <2>1. CASE s.filled = 0
    BY <2>1, DrainedIs DEF DrainedBy
  <2>2. CASE s.filled # 0
    <3>1. (s.cur + 0) % n = s.cur /\ s.filled - 0 = s.filled
      BY <1>1
    <3> DEFINE x == (s.cur + 0) % n
               y == s.filled - 0
    <3>2. DrainedBy(s, 0) = [s EXCEPT !.cur = x, !.filled = y]
      BY <1>1, <2>2 DEF DrainedBy
    <3>3. x = s.cur /\ y = s.filled
      BY <3>1
    <3> HIDE DEF x, y
    <3> QED BY <3>2, <3>3 DEF ScorerOf
  <2> QED BY <2>1, <2>2
<1>3. \A i \in 0 .. n : i # 0 => g[i] = DrainRound(g[i - 1])
  <2> SUFFICES ASSUME NEW i \in 0 .. n, i # 0 PROVE g[i] = DrainRound(g[i - 1])
    OBVIOUS
  <2>1. i - 1 \in Nat /\ i - 1 \in 0 .. n /\ (i - 1) + 1 = i
    OBVIOUS
  <2>2. DrainRound(DrainedBy(s, i - 1)) = DrainedBy(s, (i - 1) + 1)
    BY <2>1, DrainedByNext
  <2> QED BY <2>1, <2>2
<1>4. 0 \in 0 .. n /\ g[0] = s
  BY <1>2
<1>5. g = [i \in 0 .. n |-> g[i]]
  OBVIOUS
<1> HIDE DEF g
<1>6. g = [i \in 0 .. n |-> IF i = 0 THEN s ELSE DrainRound(g[i - 1])]
  BY <1>3, <1>4, <1>5
<1>7. after = [i \in 0 .. n |-> IF i = 0 THEN s ELSE DrainRound(after[i - 1])]
  BY <1>6
<1> HIDE DEF after
<1> DEFINE T == {i \in 0 .. n : after[i] = g[i]}
<1>8. 0 \in T
  BY <1>4, <1>7
<1>9. ASSUME NEW i \in 0 .. n - 1, i \in T PROVE i + 1 \in T
  <2>1. i \in 0 .. n /\ i + 1 \in 0 .. n /\ i + 1 # 0 /\ (i + 1) - 1 = i
    OBVIOUS
  <2>2. after[i + 1] = DrainRound(after[i]) /\ g[i + 1] = DrainRound(g[i])
    BY <1>3, <1>7, <2>1
  <2> QED BY <1>9, <2>1, <2>2
<1> HIDE DEF T
<1>10. n \in T
  <2>1. \A i \in 0 .. n : i \in T
    BY <1>8, <1>9, Counting
  <2> QED BY <2>1
<1>11. after[n] = g[n] /\ g[n] = DrainedBy(s, n)
  BY <1>10 DEF T, g
<1>12. DrainedBy(s, n) = Drained(s)
  BY <1>1 DEF DrainedBy
<1> QED BY <1>1, <1>11, <1>12 DEF DrainLoop, after
(* An empty ring that was given the first m features of b.                 *)
LoadedTo(n, s, b, m) ==
  [s |-> [s EXCEPT
            !.ring = [p \in 0 .. n - 1 |-> IF p < m THEN b[p + 1] ELSE s.ring[p]],
            !.scored = [p \in 0 .. n - 1 |-> IF p < m /\ s.kind = "nn" THEN None ELSE s.scored[p]],
            !.filled = m],
   offset |-> m]

(* A round of the loop gives it one more, until there is no room or no     *)
(* more.                                                                   *)
LEMMA LoadedToNext ==
  ASSUME NEW k, NEW n \in Nat \ {0}, NEW s \in ScorerOf(k, n), NEW b \in Seq(Feature),
         NEW m \in 0 .. n - 1, m <= Len(b)
  PROVE  LoadRound(LoadedTo(n, s, b, m), b)
           = IF m = n - 1 \/ m = Len(b) THEN LoadedTo(n, s, b, m) ELSE LoadedTo(n, s, b, m + 1)
<1> DEFINE l == LoadedTo(n, s, b, m)
           ring == [p \in 0 .. n - 1 |-> IF p < m THEN b[p + 1] ELSE s.ring[p]]
           scored == [p \in 0 .. n - 1 |-> IF p < m /\ k = "nn" THEN None ELSE s.scored[p]]
<1>1. /\ s.kind = k /\ s.n = n /\ s.ring \in [0 .. n - 1 -> Value]
      /\ s.scored \in [0 .. n - 1 -> Value \cup {None}] /\ Len(b) \in Nat
  BY ScorerIs
<1>2. l = [s |-> [s EXCEPT !.ring = ring, !.scored = scored, !.filled = m], offset |-> m]
  BY <1>1 DEF LoadedTo
<1> HIDE DEF l
<1>3. DOMAIN ring = 0 .. n - 1 /\ DOMAIN scored = 0 .. n - 1
  OBVIOUS
<1>4. l.offset = m /\ l.s = [s EXCEPT !.ring = ring, !.scored = scored, !.filled = m]
  <2> HIDE DEF ring, scored
  <2> QED BY <1>2
<1>5. /\ l.s.filled = m /\ l.s.n = n /\ l.s.kind = k /\ l.s.ring = ring /\ l.s.scored = scored
  <2> HIDE DEF ring, scored
  <2> QED BY <1>1, <1>4 DEF ScorerOf
<1>6. CASE m = n - 1 \/ m = Len(b)
  BY <1>1, <1>4, <1>5, <1>6 DEF LoadRound, BufferFilled, l
<1>7. CASE ~(m = n - 1 \/ m = Len(b))
  <2> DEFINE ring1 == [p \in 0 .. n - 1 |-> IF p < m + 1 THEN b[p + 1] ELSE s.ring[p]]
             scored1 == [p \in 0 .. n - 1 |-> IF p < m + 1 /\ k = "nn" THEN None ELSE s.scored[p]]
             score == IF k = "nn" THEN None ELSE scored[m]
             ring2 == [ring EXCEPT ![m] = b[m + 1]]
             scored2 == [scored EXCEPT ![m] = score]
             m1 == m + 1
  <2>1. LoadRound(l, b) = [s |-> AddFeature(l.s, b[m + 1]), offset |-> m1]
    <3>1. ~(m >= n - 1) /\ ~(m >= Len(b))
      BY <1>1, <1>7
    <3> QED BY <1>4, <1>5, <3>1 DEF LoadRound, BufferFilled
  <2>2. ring2 = ring1
    <3>1. ring2 = [p \in 0 .. n - 1 |-> IF p = m THEN b[m + 1] ELSE ring[p]]
      OBVIOUS
    <3>2. ASSUME NEW p \in 0 .. n - 1
          PROVE  (IF p = m THEN b[m + 1] ELSE ring[p]) = (IF p < m + 1 THEN b[p + 1] ELSE s.ring[p])
      <4>1. p < m + 1 <=> p = m \/ p < m
        OBVIOUS
      <4>2. p = m => ~(p < m)
        OBVIOUS
      <4>3. ring[p] = IF p < m THEN b[p + 1] ELSE s.ring[p]
        OBVIOUS
      <4> HIDE DEF ring
      <4> QED BY <4>1, <4>2, <4>3
    <3> QED BY <3>1, <3>2
  <2>3. scored2 = scored1
    <3>1. scored2 = [p \in 0 .. n - 1 |-> IF p = m THEN score ELSE scored[p]]
      OBVIOUS
    <3>2. ASSUME NEW p \in 0 .. n - 1
          PROVE  (IF p = m THEN score ELSE scored[p])
                   = (IF p < m + 1 /\ k = "nn" THEN None ELSE s.scored[p])
      <4>1. p < m + 1 <=> p = m \/ p < m
        OBVIOUS
      <4>2. p = m => ~(p < m)
        OBVIOUS
      <4>3. scored[p] = IF p < m /\ k = "nn" THEN None ELSE s.scored[p]
        OBVIOUS
      <4> HIDE DEF scored
      <4> QED BY <4>1, <4>2, <4>3
    <3> QED BY <3>1, <3>2
  <2>4. AddFeature(l.s, b[m + 1]) = [l.s EXCEPT !.ring = ring2, !.scored = scored2, !.filled = m1]
    <3> HIDE DEF ring, scored
    <3> QED BY <1>5 DEF AddFeature
  <2>5. LoadedTo(n, s, b, m1) = [s |-> [s EXCEPT !.ring = ring1, !.scored = scored1, !.filled = m1],
                                 offset |-> m1]
    BY <1>1 DEF LoadedTo
  <2> HIDE DEF ring, scored, ring1, scored1, ring2, scored2, m1
  <2>6. [l.s EXCEPT !.ring = ring2, !.scored = scored2, !.filled = m1]
          = [s EXCEPT !.ring = ring1, !.scored = scored1, !.filled = m1]
    BY <1>4, <2>2, <2>3 DEF ScorerOf
  <2>7. LoadRound(l, b) = LoadedTo(n, s, b, m1)
    BY <2>1, <2>4, <2>5, <2>6
  <2> QED BY <1>7, <2>7 DEF l, m1
<1> QED BY <1>6, <1>7

(* The loop of initializeBatchScorer() loads what Loaded does at once.     *)
LEMMA LoadLoopIs ==
  ASSUME NEW k, NEW n \in Nat \ {0}, NEW s \in ScorerOf(k, n), s.filled = 0, NEW b \in Seq(Feature)
  PROVE  LoadLoop(s, b) = Loaded(s, b)
<1> DEFINE start == [s |-> s, offset |-> 0]
           after == CHOOSE f : f = [i \in 0 .. n |-> IF i = 0 THEN start ELSE LoadRound(f[i - 1], b)]
           m == IF n - 1 <= Len(b) THEN n - 1 ELSE Len(b)
           upTo(i) == IF i <= m THEN i ELSE m
           g == [i \in 0 .. n |-> LoadedTo(n, s, b, upTo(i))]
<1>1. /\ s.kind = k /\ s.n = n /\ s.ring \in [0 .. n - 1 -> Value]
      /\ s.scored \in [0 .. n - 1 -> Value \cup {None}] /\ Len(b) \in Nat
  BY ScorerIs
<1>2. m \in 0 .. n - 1 /\ m <= Len(b) /\ (m = n - 1 \/ m = Len(b))
  BY <1>1
<1>3. Loaded(s, b) = LoadedTo(n, s, b, m)
  <2>1. Missing(s, b) = m
    <3>1. Missing(s, b) = Min({n - 1, Len(b)})
      BY <1>1 DEF Missing
    <3> QED BY <3>1, CountIs
  <2>2. Loading(s, b) = 0 .. m - 1
    BY <1>2, <2>1 DEF Loading
  <2> DEFINE ring == [p \in 0 .. n - 1 |-> IF p \in 0 .. m - 1 THEN b[p - 0 + 1] ELSE s.ring[p]]
             scored == [p \in 0 .. n - 1 |-> IF p \in 0 .. m - 1 /\ k = "nn" THEN None ELSE s.scored[p]]
             ring1 == [p \in 0 .. n - 1 |-> IF p < m THEN b[p + 1] ELSE s.ring[p]]
             scored1 == [p \in 0 .. n - 1 |-> IF p < m /\ k = "nn" THEN None ELSE s.scored[p]]
  <2> HIDE DEF m
  <2>3. ring = ring1 /\ scored = scored1
    <3>1. \A p \in 0 .. n - 1 : (p \in 0 .. m - 1 <=> p < m) /\ p - 0 + 1 = p + 1
      BY <1>2
    <3> QED BY <3>1
  <2>4. Loaded(s, b) = [s |-> [s EXCEPT !.ring = ring, !.scored = scored, !.filled = 0 + m], offset |-> m]
    BY <1>1, <2>1, <2>2 DEF Loaded, Position
  <2>5. LoadedTo(n, s, b, m) = [s |-> [s EXCEPT !.ring = ring1, !.scored = scored1, !.filled = m], offset |-> m]
    BY <1>1 DEF LoadedTo
  <2>6. 0 + m = m
    BY <1>2
  <2> HIDE DEF ring, scored, ring1, scored1
  <2> QED BY <2>3, <2>4, <2>5, <2>6
<1>4. LoadedTo(n, s, b, 0) = start
  <2> DEFINE ring == [p \in 0 .. n - 1 |-> IF p < 0 THEN b[p + 1] ELSE s.ring[p]]
             scored == [p \in 0 .. n - 1 |-> IF p < 0 /\ k = "nn" THEN None ELSE s.scored[p]]
  <2>1. ring = s.ring
    <3>1. \A p \in 0 .. n - 1 : ~(p < 0)
      OBVIOUS
    <3>2. s.ring = [p \in 0 .. n - 1 |-> s.ring[p]]
      BY <1>1
    <3> QED BY <3>1, <3>2
  <2>2. scored = s.scored
    <3>1. \A p \in 0 .. n - 1 : ~(p < 0)
      OBVIOUS
    <3>2. s.scored = [p \in 0 .. n - 1 |-> s.scored[p]]
      BY <1>1
    <3> QED BY <3>1, <3>2
  <2>3. LoadedTo(n, s, b, 0) = [s |-> [s EXCEPT !.ring = ring, !.scored = scored, !.filled = 0], offset |-> 0]
    BY <1>1 DEF LoadedTo
  <2> HIDE DEF ring, scored
  <2>4. [s EXCEPT !.ring = ring, !.scored = scored, !.filled = 0] = s
    BY <2>1, <2>2 DEF ScorerOf
  <2> QED BY <2>3, <2>4
<1>5. ASSUME NEW i \in 0 .. n, i # 0 PROVE g[i] = LoadRound(g[i - 1], b)
  <2>1. i - 1 \in 0 .. n /\ upTo(i - 1) \in 0 .. n - 1 /\ upTo(i - 1) <= Len(b)
        /\ upTo(i) = IF upTo(i - 1) = m THEN m ELSE upTo(i - 1) + 1
    <3> HIDE DEF m
    <3>1. i \in Nat /\ i - 1 \in 0 .. n /\ m \in Nat
      BY <1>2, <1>5
    <3>2. CASE i <= m
      BY <1>2, <3>1, <3>2
    <3>3. CASE ~(i <= m)
      BY <1>2, <3>1, <3>3
    <3> QED BY <3>2, <3>3
  <2>2. upTo(i - 1) = m <=> upTo(i - 1) = n - 1 \/ upTo(i - 1) = Len(b)
    BY <1>1, <1>2, <2>1
  <2>3. g[i] = LoadedTo(n, s, b, upTo(i)) /\ g[i - 1] = LoadedTo(n, s, b, upTo(i - 1))
    BY <2>1
  <2> HIDE DEF m, upTo, g
  <2>4. LoadRound(g[i - 1], b) = IF upTo(i - 1) = n - 1 \/ upTo(i - 1) = Len(b)
                                 THEN LoadedTo(n, s, b, upTo(i - 1)) ELSE LoadedTo(n, s, b, upTo(i - 1) + 1)
    BY <2>1, <2>3, LoadedToNext
  <2> QED BY <2>1, <2>2, <2>3, <2>4
<1>6. 0 \in 0 .. n /\ g[0] = start
  <2>1. upTo(0) = 0
    BY <1>2
  <2> QED BY <1>4, <2>1
<1>7. n \in 0 .. n /\ g[n] = Loaded(s, b)
  <2>1. upTo(n) = m
    BY <1>2
  <2> QED BY <1>3, <2>1
<1>8. g = [i \in 0 .. n |-> g[i]]
  OBVIOUS
<1> HIDE DEF g, m, upTo, start
<1>9. g = [i \in 0 .. n |-> IF i = 0 THEN start ELSE LoadRound(g[i - 1], b)]
  BY <1>5, <1>6, <1>8
<1>10. after = [i \in 0 .. n |-> IF i = 0 THEN start ELSE LoadRound(after[i - 1], b)]
  BY <1>9
<1> HIDE DEF after
<1> DEFINE T == {i \in 0 .. n : after[i] = g[i]}
<1>11. 0 \in T
  BY <1>6, <1>10
<1>12. ASSUME NEW i \in 0 .. n - 1, i \in T PROVE i + 1 \in T
  <2>1. i \in 0 .. n /\ i + 1 \in 0 .. n /\ i + 1 # 0 /\ (i + 1) - 1 = i
    OBVIOUS
  <2>2. after[i + 1] = LoadRound(after[i], b) /\ g[i + 1] = LoadRound(g[i], b)
    BY <1>5, <1>10, <2>1
  <2> QED BY <1>12, <2>1, <2>2
<1> HIDE DEF T
<1>13. n \in T
  <2>1. \A i \in 0 .. n : i \in T
    BY <1>11, <1>12, Counting
  <2> QED BY <2>1
<1>14. after[n] = g[n]
  BY <1>13 DEF T
<1> QED BY <1>1, <1>7, <1>14 DEF LoadLoop, after, start

(* The closed forms of the model are the loops of the code: flushing until *)
(* the ring is empty, and adding features until it is full, for every ring *)
(* size, delay buffer and position at which the code runs them.            *)
THEOREM LoopsAsClosed == Spec => []LoopsAtOnce
<1>1. CInv => LoopsAtOnce
  <2> SUFFICES ASSUME CInv PROVE LoopsAtOnce
    OBVIOUS
  <2>1. config.n \in Nat \ {0} /\ scorer \in ScorerOf(config.kind, config.n) /\ buffer \in Seq(Feature)
    BY BufferSizeIs DEF CInv, Types
  <2>2. Drained(scorer) = DrainLoop(scorer)
    BY <2>1, DrainLoopIs
  <2>3. starting => scorer.filled = 0
    BY DEF CInv, Counted
  <2>4. starting => Loaded(scorer, buffer) = LoadLoop(scorer, buffer)
    BY <2>1, <2>3, LoadLoopIs
  <2> QED BY <2>2, <2>4 DEF LoopsAtOnce
<1> QED BY <1>1, CInvHolds, PTL
=============================================================================
