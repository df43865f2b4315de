-------------------------- MODULE RecognizerDelay --------------------------
(***************************************************************************)
(* Speech::RecognizerDelayHandler (Speech/DelayedRecognizer.cc) in front   *)
(* of a feature scorer that buffers, driven segment by segment by          *)
(* DelayedRecognizer ("speech") or by Flf::Recognizer ("flf").             *)
(*                                                                         *)
(* The handler delays features for the look-ahead of the search and for    *)
(* the ring of the scorer, and has to keep both in step: the feature it    *)
(* hands to the search and the scorer it hands with it must be the same    *)
(* frame's.  Features are numbered through all segments; a scorer without  *)
(* a buffer ("plain") scores the feature it is asked for.                  *)
(***************************************************************************)
EXTENDS Integers, Sequences, FiniteSetsExt, BatchScorer

CONSTANTS Config,        \* records [kind, n, look, driver]
          MaxFeatures,   \* bound: features in all
          MaxSegments    \* bound: segments

(* A ring has a position; everything else is free.                         *)
ASSUME ConfigAssumption ==
  \A c \in Config : /\ c.kind \in {"plain", "mm", "nn"} /\ c.driver \in {"speech", "flf"}
                    /\ c.n \in Nat \ {0} /\ c.look \in Nat
ASSUME BoundAssumption == MaxFeatures \in Nat /\ MaxSegments \in Nat

VARIABLES config,    \* the scorer's kind and buffer size, lookAheadLength(), the driver
          scorer,    \* the feature scorer
          buffer,    \* featureBuffer_
          offset,    \* featureScorerOffset_
          starting,  \* initializeScorer_
          phase,     \* "idle", "in" a segment, "leaving" it
          added,     \* number of features put in
          fed,       \* the feature fed last, and what its score was computed from
          failed,    \* a require of the scorer did not hold
          segments

vars == <<config, scorer, buffer, offset, starting, phase, added, fed, failed, segments>>

IsBuffered == config.kind # "plain"
BufferSizeLook == config.look                  \* mutant: without the scorer's buffer
BufferSizeRing == IF IsBuffered THEN config.n ELSE 0   \* mutant: without the look-ahead
BufferSize == Max({config.look, IF IsBuffered THEN config.n ELSE 0})

Init ==
  /\ config \in Config
  /\ scorer = NewScorer(config.kind, config.n)
  /\ buffer = <<>> /\ offset = 0 /\ starting = TRUE
  /\ phase = "idle" /\ added = 0 /\ fed = [feature |-> 0, score |-> None]
  /\ failed = FALSE /\ segments = 0

-----------------------------------------------------------------------------
(* initializeBatchScorer(): addFeature for the features of the buffer, in  *)
(* order, until the ring is full or there is no more; all rounds of the    *)
(* loop at once, as in Drained.                                            *)
Missing(s, b) == Min({s.n - 1 - s.filled, Len(b)})
Loading(s, b) == s.filled .. s.filled + Missing(s, b) - 1

LoadedStale(s, b) ==   \* mutant: scores kept
  [s |-> [s EXCEPT
            !.ring = [p \in Position(s) |-> IF p \in Loading(s, b) THEN b[p - s.filled + 1] ELSE @[p]],
            !.filled = @ + Missing(s, b)],
   offset |-> Missing(s, b)]

Loaded(s, b) ==
  [s |-> [s EXCEPT
            !.ring = [p \in Position(s) |-> IF p \in Loading(s, b) THEN b[p - s.filled + 1] ELSE @[p]],
            !.scored = [p \in Position(s) |-> IF p \in Loading(s, b) /\ s.kind = "nn" THEN None ELSE @[p]],
            !.filled = @ + Missing(s, b)],
   offset |-> Missing(s, b)]

(* The same, round by round                                                *)
LoadRound(l, b) ==
  IF BufferFilled(l.s) \/ l.offset >= Len(b) THEN l
  ELSE [s |-> AddFeature(l.s, b[l.offset + 1]), offset |-> l.offset + 1]
LoadLoop(s, b) ==
  LET after[k \in 0 .. s.n] ==
        IF k = 0 THEN [s |-> s, offset |-> 0] ELSE LoadRound(after[k - 1], b)
  IN  after[s.n]

Started == IF IsBuffered /\ starting THEN Loaded(scorer, buffer) ELSE [s |-> scorer, offset |-> offset]

(* recognizer_->feed(): the search asks for the score, or for none         *)
Feed(f, r) ==
  \E asked \in BOOLEAN :
    LET s == IF asked /\ IsBuffered THEN Asked(r) ELSE r.s IN
    /\ scorer' = s
    /\ fed' = [feature |-> f,
               score |-> IF ~asked THEN None ELSE IF IsBuffered THEN s.scored[r.pos] ELSE r.pos]

(* getScorer(f) of whichever scorer it is                                  *)
ScorerFor(s, f) == IF IsBuffered THEN GetScorer(s, f) ELSE [pos |-> f, length |-> 1, s |-> s]

(* RecognizerDelayHandler::reset()                                         *)
HandlerReset(s) == buffer' = <<>> /\ starting' = TRUE /\ scorer' = Drained(s)

EnterSegment ==
  /\ phase = "idle" /\ segments < MaxSegments
  /\ phase' = "in" /\ segments' = segments + 1
  /\ IF config.driver = "speech" THEN HandlerReset(ResetScorer(scorer))
                                 ELSE UNCHANGED <<scorer, buffer, starting>>
  /\ fed' = [feature |-> added, score |-> None]
  /\ UNCHANGED <<config, offset, added, failed>>

AddDelayed ==
  /\ phase = "in" /\ added < MaxFeatures /\ Len(buffer) < BufferSize
  /\ added' = added + 1 /\ buffer' = Append(buffer, added')
  /\ UNCHANGED <<config, scorer, offset, starting, phase, fed, failed, segments>>

AddScored ==
  /\ phase = "in" /\ added < MaxFeatures /\ Len(buffer) >= BufferSize
  /\ added' = added + 1
  /\ LET all == Append(buffer, added') IN
     /\ buffer' = Tail(all)
     /\ offset' = Started.offset
     /\ failed' = (failed \/ (IsBuffered /\ ~BufferFilled(Started.s)))
     /\ Feed(Head(all), ScorerFor(Started.s, all[Started.offset + 1]))
  /\ starting' = (starting /\ ~IsBuffered)
  /\ UNCHANGED <<config, phase, segments>>

EndOfSegment ==
  /\ phase = "in" /\ phase' = "leaving"
  /\ UNCHANGED <<config, scorer, buffer, offset, starting, added, fed, failed, segments>>

FlushOne ==
  /\ phase = "leaving" /\ buffer # <<>>
  /\ LET start == Started
         takes == Len(buffer) > start.offset IN
     /\ offset' = start.offset
     /\ failed' = (failed \/ (IsBuffered /\ (IF takes THEN ~BufferFilled(start.s) ELSE BufferEmpty(start.s))))
     /\ Feed(Head(buffer), IF takes THEN ScorerFor(start.s, buffer[start.offset + 1]) ELSE Flush(start.s))
  /\ buffer' = Tail(buffer)
  /\ starting' = (starting /\ ~IsBuffered)
  /\ UNCHANGED <<config, phase, added, segments>>

LeaveSegment ==
  /\ phase = "leaving" /\ buffer = <<>>
  /\ phase' = "idle"
  /\ IF config.driver = "flf" THEN HandlerReset(scorer) ELSE UNCHANGED <<scorer, buffer, starting>>
  /\ UNCHANGED <<config, offset, added, fed, failed, segments>>

(* Flf's startRecognition or reset() while a segment is pending            *)
Abandon ==
  /\ config.driver = "flf" /\ phase = "in"
  /\ phase' = "idle" /\ HandlerReset(scorer)
  /\ UNCHANGED <<config, offset, added, fed, failed, segments>>

Next ==
  \/ EnterSegment \/ AddDelayed \/ AddScored \/ EndOfSegment \/ FlushOne \/ LeaveSegment \/ Abandon

Spec == Init /\ [][Next]_vars

-----------------------------------------------------------------------------
(* Properties                                                              *)

Feature == 1 .. MaxFeatures

TypeOK ==
  /\ config \in Config
  /\ scorer.ring \in [Position(scorer) -> Feature \cup {Zero}]
  /\ scorer.scored \in [Position(scorer) -> Feature \cup {Zero, None}]
  /\ scorer.filled \in 0 .. scorer.n /\ scorer.cur \in Position(scorer)
  /\ buffer \in Seq(Feature) /\ Len(buffer) <= BufferSize
  /\ offset \in Nat /\ starting \in BOOLEAN /\ failed \in BOOLEAN
  /\ phase \in {"idle", "in", "leaving"}
  /\ added \in 0 .. MaxFeatures /\ segments \in 0 .. MaxSegments
  /\ fed.feature \in Feature \cup {0} /\ fed.score \in Feature \cup {Zero, None}

(* Drained and Loaded do at once what the loops of reset() and             *)
(* initializeBatchScorer() do, for every ring and delay buffer that occurs *)
(* where the code runs them.                                               *)
LoopsAtOnce ==
  /\ Drained(scorer) = DrainLoop(scorer)
  /\ IsBuffered /\ starting => Loaded(scorer, buffer) = LoadLoop(scorer, buffer)

(* The ring of the scorer and the delay buffer advance in step: what is    *)
(* buffered in the ring is the beginning of featureBuffer_, from the       *)
(* current position on.                                                    *)
InStep ==
  IsBuffered /\ ~starting /\ phase # "idle" =>
    /\ scorer.filled = Min({scorer.n - 1, Len(buffer)})
    /\ \A i \in 1 .. scorer.filled : scorer.ring[(scorer.cur + i - 1) % scorer.n] = buffer[i]

(* "Requires bufferFilled() == true" of getScorer, "Requires bufferEmpty() *)
(* == false" of flush (Mm/BatchFeatureScorer.hh:86, :112): the handler     *)
(* keeps to them for segments of every length and every look-ahead.        *)
RequirementsKept == ~failed

(* Every feature of a segment is handed to the search once and in order,   *)
(* the last one before the segment is left; while the segment goes on with *)
(* at least lookAheadLength() features behind it as its look-ahead.        *)
FedInOrder ==
  [][/\ phase # "idle" /\ fed' # fed =>
          /\ fed'.feature = fed.feature + 1
          /\ phase = "in" => Len(buffer') >= config.look
     /\ phase = "leaving" /\ phase' = "idle" => fed.feature = added]_vars

(* ensure(bufferEmpty()) in leaveSpeechSegment (DelayedRecognizer.cc:50):  *)
(* when the last feature was fed, the scorer has nothing left.             *)
EmptyAtTheEnd == phase = "leaving" /\ buffer = <<>> /\ IsBuffered /\ ~starting => BufferEmpty(scorer)

(* What the search is given as the score of a feature was computed from    *)
(* that feature, however lazily and whatever the ring held before.  The    *)
(* exception, that the neural network may score zeros as the last feature  *)
(* of a segment, is the subject of FlushedOwnScore.                        *)
OwnScore ==
  \/ fed.score \in {None, fed.feature}
  \/ config.kind = "nn" /\ phase # "in" /\ buffer = <<>> /\ fed.score = Zero

(* "Return a scorer for the current feature without adding a new feature   *)
(* to the buffer" (Nn/BatchFeatureScorer.hh:145): also for the last one.   *)
FlushedOwnScore == fed.score \in {None, fed.feature}
=============================================================================
