---------------------------- MODULE TraceManager ----------------------------
(***************************************************************************)
(* The trace ids of the tree search: Search::TraceManager with its two     *)
(* SparseVectors (AdvancedTreeSearch/TraceManager.hh), and the steps of a  *)
(* frame in which SearchSpace creates, modifies, copies, drops and         *)
(* collects them (AdvancedTreeSearchManager::feed).                        *)
(*                                                                         *)
(* A trace id is a word of 32 bits.  Its low part, of W values, is a       *)
(* position in the table of items, its high part, of values up to Full, is *)
(* 0, or a small modification plus 1, or Full: then the low part is a      *)
(* position in the table of modifications.  Here an id is a record of the  *)
(* two parts; positions count from 1.                                      *)
(*                                                                         *)
(* Which hypotheses survive, where they are in the tree and what they      *)
(* score is left open: any step may keep, copy or drop any of them.  What  *)
(* each of them had attached to it is kept beside its id (item and m), for *)
(* the properties only.                                                    *)
(***************************************************************************)
EXTENDS Integers, Sequences, SequencesExt, FiniteSets

CONSTANTS Item,              \* trace items
          Place,             \* bound: the states of the tree that survive pruning
          W, Full,           \* 2^24 and 255
          Modification,      \* time difference, score difference and state
          CleanupInterval,   \* parameter cleanup-interval
          FrameNew,          \* bound: items created in one frame
          MaxFrames,         \* bound: the frames of a segment
          None

ASSUME WidthsOK == W \in Nat \ {0} /\ Full \in Nat \ {0}
ASSUME BoundsOK == CleanupInterval \in Nat \ {0} /\ FrameNew \in Nat /\ MaxFrames \in Nat
ASSUME ValuesOK ==
  /\ Modification \subseteq [first : Nat, second : Nat, third : Nat]
  /\ None \notin Item /\ None \notin Modification

VARIABLES items, mods,       \* items_, modifications_
          states,            \* stateHypotheses, a partial function on Place
          roots,             \* rootStateHypotheses of all instances
          early,             \* earlyWordEndHypotheses with ids of their own
          todo,              \* the states whose traces are still to be corrected
          phase, time, news

vars == <<items, mods, states, roots, early, todo, phase, time, news>>

Id == [mod : Nat, idx : 1 .. W]
ModEntry == [trace : Id, m : Modification]
Hypothesis == [trace : Id, item : Item, m : Modification \cup {None}]

-----------------------------------------------------------------------------
(* SparseVector *)

EmptyVector == [items |-> <<>>, used |-> <<>>, free |-> <<>>]

Slots(v) == 1 .. Len(v.items)

(* storage size is what counts here; size() *)
Used(v) == {p \in Slots(v) : v.used[p]}

(* the position insert() takes: the top of the free list, or a new one *)
Slot(v) == IF v.free = <<>> THEN Len(v.items) + 1 ELSE Last(v.free)

(* Mutant of Inserted: a new position is not recorded as used. *)
InsertedUnmarked(v, x) ==
  IF v.free = <<>> THEN [v EXCEPT !.items = Append(@, x)]
  ELSE [items |-> [v.items EXCEPT ![Slot(v)] = x],
        used  |-> [v.used EXCEPT ![Slot(v)] = TRUE],
        free  |-> Front(v.free)]

Inserted(v, x) ==
  IF v.free = <<>>
  THEN [items |-> Append(v.items, x), used |-> Append(v.used, TRUE), free |-> <<>>]
  ELSE [items |-> [v.items EXCEPT ![Slot(v)] = x],
        used  |-> [v.used EXCEPT ![Slot(v)] = TRUE],
        free  |-> Front(v.free)]

(* Mutant of Filtered: erase() does not ask whether the position is used. *)
FilteredTwice(v, keep) ==
  LET gone == Slots(v) \ keep IN
  [items |-> [p \in Slots(v) |-> IF p \in gone THEN None ELSE v.items[p]],
   used  |-> [p \in Slots(v) |-> v.used[p] /\ p \notin gone],
   free  |-> v.free \o SetToSeq(gone)]

(* filter(): erase() of every used position that is not to be kept; the    *)
(* order in which they come on the free list is left open                  *)
Filtered(v, keep) ==
  LET gone == Used(v) \ keep IN
  [items |-> [p \in Slots(v) |-> IF p \in gone THEN None ELSE v.items[p]],
   used  |-> [p \in Slots(v) |-> v.used[p] /\ p \notin gone],
   free  |-> v.free \o SetToSeq(gone)]

-----------------------------------------------------------------------------
(* Ids *)

(* the id of a position: beyond W it runs into the high part *)
AsId(p) == [mod |-> (p - 1) \div W, idx |-> ((p - 1) % W) + 1]
AsPosition(id) == id.mod * W + id.idx

IsModified(id) == id.mod # 0

GetUnmodified(id) ==
  IF id.mod = Full THEN mods.items[id.idx].trace ELSE [id EXCEPT !.mod = 0]

(* a small modification has lost its second and third value *)
GetModification(id) ==
  IF id.mod = Full THEN mods.items[id.idx].m
  ELSE [first |-> id.mod - 1, second |-> 0, third |-> 0]

TraceItem(id) == items.items[AsPosition(GetUnmodified(id))]

(* Mutant of Fits: a second value does not matter. *)
FitsAlways(m) == m.first + 1 < Full

(* FAST_TRACE_MODIFICATION *)
Fits(m) == m.first + 1 < Full /\ m.second = 0

(* modify(): the id, and the table of modifications it leaves *)
ModifiedId(id, m) ==
  IF Fits(m) THEN [id EXCEPT !.mod = @ + m.first + 1]
  ELSE [mod |-> Full, idx |-> AsId(Slot(mods)).idx]

ModifiedTable(id, m) ==
  IF Fits(m) THEN mods ELSE Inserted(mods, [trace |-> id, m |-> m])

-----------------------------------------------------------------------------
(* Cleaner *)

Held == {states[p] : p \in DOMAIN states}
Live == Held \cup roots \cup early

VisitedMods(hyps) == {h.trace.idx : h \in {x \in hyps : x.trace.mod = Full}}

(* Mutant of VisitedItems: the item under a modification is not marked. *)
VisitedItemsPlain(hyps) == {h.trace.idx : h \in {x \in hyps : x.trace.mod # Full}}

VisitedItems(hyps) ==
  {h.trace.idx : h \in {x \in hyps : x.trace.mod # Full}}
    \cup {AsPosition(mods.items[i].trace) : i \in VisitedMods(hyps)}

NeedCleanup == Cardinality(Used(items)) > (W - 1) \div 2

(* Mutant of CleanupDue: a cleanup happens only where it is "strictly      *)
(* necessary", which looks at the items and not at the modifications.      *)
CleanupWhenNeeded == NeedCleanup

CleanupDue == time % CleanupInterval = 0 \/ NeedCleanup

-----------------------------------------------------------------------------
(* One frame: AdvancedTreeSearchManager::feed *)

Init ==
  /\ items = EmptyVector /\ mods = EmptyVector
  /\ states = <<>> /\ roots = {} /\ early = {} /\ todo = {}
  /\ phase = "start" /\ time = 0 /\ news = 0

(* startNewTrees: a word end enters a tree with an item of its own *)
StartTree(x) ==
  /\ phase = "start" /\ news < FrameNew
  /\ items' = Inserted(items, x)
  /\ roots' = roots \cup {[trace |-> AsId(Slot(items)), item |-> x, m |-> None]}
  /\ news' = news + 1
  /\ UNCHANGED <<mods, states, early, todo, phase, time>>

(* expandHmm and the pruning: hypotheses move to other states, several or  *)
(* none, and the entries of the trees join them; then the states behind    *)
(* the fan-out are to be corrected                                         *)
ExpandHmm ==
  /\ phase = "start" /\ time < MaxFrames
  /\ \E D \in SUBSET Place : states' \in [D -> Held \cup roots]
  /\ todo' \in SUBSET DOMAIN states'
  /\ roots' = {}
  /\ time' = time + 1
  /\ phase' = "correct"
  /\ UNCHANGED <<items, mods, early, news>>

(* correctPushedTransitions, for one state *)
Correct(p, m) ==
  /\ phase = "correct" /\ p \in todo
  /\ LET id == GetUnmodified(states[p].trace) IN
     /\ states' = [states EXCEPT ![p] = [@ EXCEPT !.trace = ModifiedId(id, m), !.m = m]]
     /\ mods' = ModifiedTable(id, m)
  /\ todo' = todo \ {p}
  /\ UNCHANGED <<items, roots, early, phase, time, news>>

(* Mutant of Collect: the modifications are not filtered. *)
CollectItemsOnly ==
  /\ items' = Filtered(items, VisitedItems(Held \cup roots))
  /\ UNCHANGED mods

(* SearchSpace::cleanup *)
Collect ==
  /\ items' = Filtered(items, VisitedItems(Held \cup roots))
  /\ mods' = Filtered(mods, VisitedMods(Held \cup roots))

Cleanup ==
  /\ phase = "correct" /\ todo = {} /\ CleanupDue
  /\ Collect
  /\ phase' = "ends"
  /\ UNCHANGED <<states, roots, early, todo, time, news>>

NoCleanup ==
  /\ phase = "correct" /\ todo = {} /\ ~CleanupDue
  /\ phase' = "ends"
  /\ UNCHANGED <<items, mods, states, roots, early, todo, time, news>>

(* processOneWordEnd with on-the-fly rescoring: an alternative history is  *)
(* an item of its own, with the modification its state has                 *)
Rescore(p, x) ==
  /\ phase = "ends" /\ news < FrameNew /\ p \in DOMAIN states
  /\ LET id == AsId(Slot(items))
         m  == GetModification(states[p].trace)
     IN  /\ items' = Inserted(items, x)
         /\ IF IsModified(states[p].trace)
            THEN /\ early' = early \cup {[trace |-> ModifiedId([id EXCEPT !.mod = 0], m),
                                          item  |-> x, m |-> states[p].m]}
                 /\ mods' = ModifiedTable([id EXCEPT !.mod = 0], m)
            ELSE /\ early' = early \cup {[trace |-> id, item |-> x, m |-> None]}
                 /\ UNCHANGED mods
  /\ news' = news + 1
  /\ UNCHANGED <<states, roots, todo, phase, time>>

(* pruneEarlyWordEnds: the ids are resolved and given up *)
EndFrame ==
  /\ phase = "ends"
  /\ early' = {} /\ news' = 0 /\ phase' = "start"
  /\ UNCHANGED <<items, mods, states, roots, todo, time>>

(* clear(), before the next segment *)
ClearSpace ==
  /\ phase = "start" /\ items # EmptyVector
  /\ items' = EmptyVector /\ mods' = EmptyVector
  /\ states' = <<>> /\ roots' = {} /\ early' = {}
  /\ time' = 0 /\ news' = 0
  /\ UNCHANGED <<todo, phase>>

Next ==
  \/ \E x \in Item : StartTree(x)
  \/ ExpandHmm
  \/ \E p \in Place, m \in Modification : Correct(p, m)
  \/ Cleanup \/ NoCleanup
  \/ \E p \in Place, x \in Item : Rescore(p, x)
  \/ EndFrame \/ ClearSpace

Spec == Init /\ [][Next]_vars

-----------------------------------------------------------------------------
(* Properties *)

VectorOK(v, Value) ==
  /\ v.items \in Seq(Value \cup {None})
  /\ v.used \in Seq(BOOLEAN) /\ Len(v.used) = Len(v.items)
  /\ v.free \in Seq(Slots(v))

TypeOK ==
  /\ VectorOK(items, Item)
  /\ VectorOK(mods, ModEntry)
  /\ DOMAIN states \subseteq Place
  /\ Live \subseteq Hypothesis
  /\ todo \subseteq DOMAIN states
  /\ phase \in {"start", "correct", "ends"}
  /\ time \in 0 .. MaxFrames /\ news \in 0 .. FrameNew

(* The free list names every position that is not used, once: no position  *)
(* is given out twice, none is lost.                                       *)
FreeListExact ==
  \A v \in {items, mods} : IsInjective(v.free) /\ ToSet(v.free) = Slots(v) \ Used(v)

(* The tables never outgrow the low part of an id.                         *)
Addressable == Len(items.items) <= W /\ Len(mods.items) <= W

(* "Returns a trace-id that represents only the given item"                *)
(* (TraceManager.hh): however often it was copied and modified, and        *)
(* whatever was collected since, the id of every hypothesis leads to the   *)
(* item it was created for, and that item is in use.                       *)
ResolvesOwn ==
  \A h \in Live :
    /\ IsModified(h.trace) /\ h.trace.mod = Full => h.trace.idx \in Used(mods)
    /\ AsPosition(GetUnmodified(h.trace)) \in Used(items)
    /\ TraceItem(h.trace) = h.item

(* The time and the score difference a trace was corrected by are those    *)
(* that are retrieved from its id, through copies, later corrections of    *)
(* others, alternative histories and cleanups.                             *)
OwnCorrection ==
  \A h \in Live :
    /\ IsModified(h.trace) <=> h.m # None
    /\ h.m # None => /\ GetModification(h.trace).first = h.m.first
                     /\ GetModification(h.trace).second = h.m.second

(* "deletes all traces that did not survive in stateHypotheses and         *)
(* rootStateHypotheses of activeTrees" (SearchSpace.hh:332): after a       *)
(* cleanup the positions in use are exactly those hypotheses lead to.      *)
Reached(hyps) == {AsPosition(GetUnmodified(h.trace)) : h \in hyps}
CleanupExact ==
  [][Cleanup => /\ Used(items)' = Reached(Held \cup roots)
                /\ Used(mods)' = VisitedMods(Held \cup roots)]_vars

(* "The value can later be retrieved through getModification(traceid)"     *)
(* (TraceManager.hh:235): all three values are.                            *)
AllRetrieved ==
  \A h \in Live : h.m # None => GetModification(h.trace) = h.m
=============================================================================
