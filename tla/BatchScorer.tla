---------------------------- MODULE BatchScorer ----------------------------
(***************************************************************************)
(* The two feature scorers with a ring buffer: Nn::BatchFeatureScorer      *)
(* ("nn") and Mm::BatchFeatureScorerBase ("mm").  A scorer that is handed  *)
(* out is a position of the ring; its score is computed when it is first   *)
(* asked for, together with those of the other buffered features.          *)
(*                                                                         *)
(* The state s: kind and n, the bufferSize_; ring, what each position      *)
(* holds; scored, the content each position's cached score was computed    *)
(* from; filled, the number of buffered features; cur, the position whose  *)
(* turn it is.  Features are 1, 2, ...                                     *)
(***************************************************************************)
EXTENDS Integers

Zero == 0           \* a position that was set to zero
None == -1          \* no score computed

Position(s) == 0 .. s.n - 1
Everywhere(s, v) == [p \in Position(s) |-> v]

NewScorer(kind, n) ==
  [kind |-> kind, n |-> n, ring |-> [p \in 0 .. n - 1 |-> Zero],
   scored |-> [p \in 0 .. n - 1 |-> None], filled |-> 0, cur |-> 0]

BufferFilled(s) == s.filled >= s.n - 1
BufferEmpty(s)  == s.filled = 0

ResetScorer(s) == [s EXCEPT !.scored = Everywhere(s, None), !.filled = 0, !.cur = 0]

AddFeatureStale(s, f) == [s EXCEPT !.ring[s.filled] = f, !.filled = @ + 1]   \* mutant: score kept

(* Mm's addFeature leaves the cached scores of the position as they are.   *)
AddFeature(s, f) ==
  [s EXCEPT !.ring[s.filled] = f,
            !.scored[s.filled] = IF s.kind = "nn" THEN None ELSE @,
            !.filled = @ + 1]

AdvancedPast(s) == s.cur + 1       \* mutant: no wrap-around
Advanced(s) == (s.cur + 1) % s.n

(* Where getScorer puts the new feature: behind the last buffered one      *)
BehindNone(s) == (s.cur + 1) % s.n     \* mutant: in front of the second
Behind(s) == IF s.cur # 0 THEN (s.cur - 1) % s.n ELSE s.n - 1

(* getScorer(f): the scorer is the current position's, and covers the      *)
(* features that are buffered from there on.                               *)
GetScorer(s, f) ==
  [pos |-> s.cur, length |-> s.filled + 1,
   s |-> [s EXCEPT !.ring[Behind(s)] = f, !.scored[Behind(s)] = None, !.cur = Advanced(s)]]

FlushKeep(s) == [pos |-> s.cur, length |-> s.filled, s |-> [s EXCEPT !.cur = Advanced(s)]]   \* mutant: nBufferedFeatures_ kept

(* flush(): Nn sets the ring to zero once nothing is buffered.             *)
Flush(s) ==
  LET clears == s.filled = 1 /\ s.kind = "nn" IN
  [pos |-> s.cur, length |-> s.filled,
   s |-> [s EXCEPT !.ring = IF clears THEN Everywhere(s, Zero) ELSE @,
                   !.cur = IF clears THEN 0 ELSE Advanced(s),
                   !.filled = @ - 1]]

(* What a scorer computes when its score is not cached: Nn the whole ring,  *)
(* Mm the features that were buffered from its position on.                *)
Covered(r) ==
  IF r.s.kind = "nn" THEN Position(r.s) ELSE {(r.pos + i) % r.s.n : i \in 0 .. r.length - 1}

Asked(r) ==
  IF r.s.scored[r.pos] # None THEN r.s
  ELSE [r.s EXCEPT !.scored = [p \in Position(r.s) |-> IF p \in Covered(r) THEN r.s.ring[p] ELSE @[p]]]

(* while (!bufferEmpty()) flush(), all flushes of the loop at once         *)
Drained(s) ==
  IF BufferEmpty(s) THEN s
  ELSE IF s.kind = "nn" THEN [s EXCEPT !.ring = Everywhere(s, Zero), !.cur = 0, !.filled = 0]
  ELSE [s EXCEPT !.cur = (@ + s.filled) % s.n, !.filled = 0]

(* The same, round by round: a ring holds fewer features than positions.   *)
DrainRound(s) == IF BufferEmpty(s) THEN s ELSE Flush(s).s
DrainLoop(s) ==
  LET after[k \in 0 .. s.n] == IF k = 0 THEN s ELSE DrainRound(after[k - 1]) IN after[s.n]
=============================================================================
