-------------------------- MODULE TraceManagerRoom --------------------------
(***************************************************************************)
(* How wide the low part of a trace id has to be.  Nothing in modify() or  *)
(* insert() of TraceManager.hh keeps the tables from outgrowing it: what   *)
(* does is that a cleanup happens every CleanupInterval frames (parameter  *)
(* cleanup-interval), that a frame corrects each surviving state at most   *)
(* once, and that it creates a bounded number of items.  Room states how   *)
(* these have to be related, and with it the theorems of                   *)
(* TraceManagerProofs hold of every run.                                   *)
(***************************************************************************)
EXTENDS TraceManagerProofs

(* A table holds what survived the last cleanup, at most one entry for     *)
(* each state, and what the frames since have added: a new item each time  *)
(* an item is created, a modification each time a state is corrected or an *)
(* alternative history takes over the one of its state.                    *)
Frame == Cardinality(Place) + FrameNew

Room ==
  /\ IsFiniteSet(Place)
  /\ Cardinality(Place) + CleanupInterval * Frame <= W
  /\ Cardinality(Place) + (CleanupInterval + 1) * FrameNew <= W

-----------------------------------------------------------------------------
(* The frames whose new entries no cleanup has looked at yet: in the frame *)
(* of the cleanup itself, CleanupInterval of them.                         *)
Uncollected ==
  IF phase = "correct" /\ time % CleanupInterval = 0
  THEN CleanupInterval ELSE time % CleanupInterval

(* How many items are in use: those of the frame that begins count with    *)
(* it, and the frame before it has ended.                                  *)
ItemBound ==
  Cardinality(Place) + news
    + FrameNew * (IF phase = "start" THEN Uncollected + 1 ELSE Uncollected)

(* How many modifications are in use: a state that is still to be          *)
(* corrected has not added one in this frame.                              *)
ModBound ==
  Uncollected * Frame
    + CASE phase = "start"   -> Frame
        [] phase = "correct" -> Cardinality(Place) - Cardinality(todo)
        [] phase = "ends"    -> Cardinality(Place) + news

Bounded ==
  /\ Cardinality(Used(items)) <= ItemBound
  /\ Cardinality(Used(mods)) <= ModBound
  /\ phase # "start" => roots = {}
  /\ Addressable

-----------------------------------------------------------------------------
(* Sizes.                                                                  *)

(* A vector has at most as many used positions as positions.               *)
LEMMA UsedFinite ==
  ASSUME NEW Value, NEW v, Vector(v, Value)
  PROVE  /\ Len(v.items) \in Nat
         /\ IsFiniteSet(Used(v)) /\ Cardinality(Used(v)) \in Nat
<1>1. Len(v.items) \in Nat /\ Used(v) \subseteq 1 .. Len(v.items)
  BY DEF Vector, VectorOK, Used, Slots
<1>2. IsFiniteSet(1 .. Len(v.items))
  BY <1>1, FS_Interval
<1>3. IsFiniteSet(Used(v))
  BY <1>1, <1>2, FS_Subset
<1> QED BY <1>1, <1>3, FS_CardinalityType

(* insert() adds one position in use, and makes the table longer only      *)
(* where all its positions are in use.                                     *)
LEMMA InsertedSize ==
  ASSUME NEW Value, NEW v, Vector(v, Value), NEW x, NEW w, w = Inserted(v, x)
  PROVE  /\ Cardinality(Used(w)) = Cardinality(Used(v)) + 1
         /\ \/ Len(w.items) = Len(v.items)
            \/ Len(w.items) = Cardinality(Used(v)) + 1
<1> DEFINE V == Value \cup {x}
<1>1. Vector(v, V)
  <2>1. v.items \in Seq(V \cup {None})
    <3>1. v.items \in Seq(Value \cup {None})
      BY DEF Vector, VectorOK
    <3> QED BY <3>1
  <2> QED BY <2>1 DEF Vector, VectorOK
<1>2. x \in V
  OBVIOUS
<1> HIDE DEF V
<1>3. /\ Vector(w, V) /\ Slot(v) \notin Used(v)
      /\ Used(w) = Used(v) \cup {Slot(v)}
  BY <1>1, <1>2, InsertedVector
<1>4. IsFiniteSet(Used(v)) /\ Cardinality(Used(v)) \in Nat /\ Len(v.items) \in Nat
  BY UsedFinite
<1>5. Cardinality(Used(w)) = Cardinality(Used(v)) + 1
  BY <1>3, <1>4, FS_AddElement
<1>6. CASE v.free = <<>>
  <2>1. w.items = Append(v.items, x)
    BY <1>6 DEF Inserted
  <2>2. Len(w.items) = Len(v.items) + 1
    BY <2>1 DEF Vector, VectorOK
  <2>3. ToSet(v.free) = {}
    BY <1>6 DEF ToSet
  <2>4. Used(v) = 1 .. Len(v.items)
    BY <2>3 DEF Vector, Used, Slots
  <2>5. Cardinality(Used(v)) = Len(v.items)
    BY <1>4, <2>4, FS_Interval
  <2> QED BY <1>5, <2>2, <2>5
<1>7. CASE v.free # <<>>
  <2>1. w.items = [v.items EXCEPT ![Slot(v)] = x]
    BY <1>7 DEF Inserted
  <2>2. Len(w.items) = Len(v.items)
    <3>1. v.items \in Seq(V \cup {None}) /\ w.items \in Seq(V \cup {None})
      BY <1>1, <1>3 DEF Vector, VectorOK
    <3>2. DOMAIN w.items = DOMAIN v.items
      BY <2>1
    <3> HIDE DEF V
    <3> QED BY <3>1, <3>2
  <2> QED BY <1>5, <2>2
<1> QED BY <1>6, <1>7

(* The values of a function on a finite set are at most as many.           *)
LEMMA ValuesFinite ==
  ASSUME NEW S, IsFiniteSet(S), NEW f, f = [x \in S |-> f[x]],
         NEW T, T = {f[x] : x \in S}
  PROVE  IsFiniteSet(T) /\ Cardinality(T) <= Cardinality(S)
<1>1. f \in Surjection(S, T)
  BY DEF Surjection
<1> QED BY <1>1, FS_Surjection

(* There are no more survivors than states, and no more positions they     *)
(* lead to than survivors.                                                 *)
LEMMA HeldSmall ==
  ASSUME Room, DOMAIN states \subseteq Place
  PROVE  /\ IsFiniteSet(Held) /\ Cardinality(Held) <= Cardinality(Place)
         /\ Cardinality(Place) \in Nat
<1>1. IsFiniteSet(Place) /\ Cardinality(Place) \in Nat
  BY FS_CardinalityType DEF Room
<1>2. IsFiniteSet(DOMAIN states) /\ Cardinality(DOMAIN states) <= Cardinality(Place)
      /\ Cardinality(DOMAIN states) \in Nat
  BY <1>1, FS_Subset, FS_CardinalityType
<1>3. IsFiniteSet(Held) /\ Cardinality(Held) <= Cardinality(DOMAIN states)
  <2> DEFINE f == [p \in DOMAIN states |-> states[p]]
  <2>1. f = [p \in DOMAIN states |-> f[p]] /\ Held = {f[p] : p \in DOMAIN states}
    BY DEF Held
  <2> HIDE DEF f
  <2> QED BY <1>2, <2>1, ValuesFinite
<1>4. Cardinality(Held) \in Nat
  BY <1>3, FS_CardinalityType
<1> QED BY <1>1, <1>2, <1>3, <1>4

(* A set of hypotheses leads to at most as many items, and as many         *)
(* modifications.                                                          *)
LEMMA ReachedSmall ==
  ASSUME NEW H, IsFiniteSet(H)
  PROVE  /\ Cardinality(Reached(H)) <= Cardinality(H)
         /\ Cardinality(VisitedMods(H)) <= Cardinality(H)
         /\ Cardinality(Reached(H)) \in Nat /\ Cardinality(VisitedMods(H)) \in Nat
<1>1. IsFiniteSet(Reached(H)) /\ Cardinality(Reached(H)) <= Cardinality(H)
  <2> DEFINE f == [h \in H |-> AsPosition(GetUnmodified(h.trace))]
  <2>1. f = [h \in H |-> f[h]] /\ Reached(H) = {f[h] : h \in H}
    BY DEF Reached
  <2> HIDE DEF f
  <2> QED BY <2>1, ValuesFinite
<1>2. IsFiniteSet(VisitedMods(H)) /\ Cardinality(VisitedMods(H)) <= Cardinality(H)
  <2> DEFINE G == {h \in H : h.trace.mod = Full}
             f == [h \in G |-> h.trace.idx]
  <2>1. f = [h \in G |-> f[h]] /\ VisitedMods(H) = {f[h] : h \in G}
    BY DEF VisitedMods
  <2>2. G \subseteq H
    OBVIOUS
  <2> HIDE DEF f, G
  <2>3. IsFiniteSet(G) /\ Cardinality(G) <= Cardinality(H) /\ Cardinality(G) \in Nat
        /\ Cardinality(H) \in Nat
    BY <2>2, FS_Subset, FS_CardinalityType
  <2>4. IsFiniteSet(VisitedMods(H)) /\ Cardinality(VisitedMods(H)) <= Cardinality(G)
    BY <2>1, <2>3, ValuesFinite
  <2>5. Cardinality(VisitedMods(H)) \in Nat
    BY <2>4, FS_CardinalityType
  <2> QED BY <2>3, <2>4, <2>5
<1> QED BY <1>1, <1>2, FS_CardinalityType

(* A quotient and a remainder determine each other.                        *)
LEMMA Division ==
  ASSUME NEW n \in Nat \ {0}, NEW a \in Int, NEW b \in Int,
         NEW r \in 0 .. n - 1, NEW s \in 0 .. n - 1, n * a + r = n * b + s
  PROVE  r = s
<1> DEFINE d == a - b
<1>1. d \in Int /\ n * d = s - r
  <2>1. n * d = n * a - n * b
    OBVIOUS
  <2> HIDE DEF d
  <2> QED BY <2>1 DEF d
<1> HIDE DEF d
<1>2. CASE d >= 1
  <2>1. n * d >= n
    BY <1>1, <1>2
  <2> QED BY <1>1, <2>1
<1>3. CASE d <= -1
  <2>1. n * d <= -n
    BY <1>1, <1>3
  <2> QED BY <1>1, <2>1
<1>4. CASE d = 0
  BY <1>1, <1>4
<1> QED BY <1>1, <1>2, <1>3, <1>4

(* The count of the frames since a cleanup.                                *)
LEMMA NextFrame ==
  ASSUME NEW t \in Nat, NEW n \in Nat \ {0}
  PROVE  /\ t % n \in 0 .. n - 1 /\ (t + 1) % n \in 0 .. n - 1
         /\ (t + 1) % n = IF t % n = n - 1 THEN 0 ELSE (t % n) + 1
<1> DEFINE q == t \div n
           r == t % n
           p == (t + 1) \div n
           s == (t + 1) % n
<1>1. q \in Int /\ r \in 0 .. n - 1 /\ t = n * q + r
  OBVIOUS
<1>2. p \in Int /\ s \in 0 .. n - 1 /\ t + 1 = n * p + s
  OBVIOUS
<1> HIDE DEF q, r, p, s
<1>3. CASE r = n - 1
  <2>1. n * (q + 1) + 0 = n * p + s
    BY <1>1, <1>2, <1>3
  <2>2. 0 = s
    BY <1>1, <1>2, <2>1, Division
  <2> QED BY <1>1, <1>2, <1>3, <2>2 DEF r, s
<1>4. CASE r # n - 1
  <2>1. n * q + (r + 1) = n * p + s /\ r + 1 \in 0 .. n - 1
    BY <1>1, <1>2, <1>4
  <2>2. r + 1 = s
    BY <1>1, <1>2, <2>1, Division
  <2> QED BY <1>1, <1>2, <1>4, <2>2 DEF r, s
<1> QED BY <1>3, <1>4

-----------------------------------------------------------------------------
(* The steps.                                                              *)

(* Products, one factor of which is larger.                                *)
LEMMA Times ==
  ASSUME NEW q \in Nat, NEW a \in Nat, NEW b \in Nat, a <= b
  PROVE  a * q <= b * q /\ a * q \in Nat /\ (a + 1) * q = a * q + q /\ q * a = a * q
  OBVIOUS

(* The numbers of a state within the bounds.                               *)
LEMMA Numbers ==
  ASSUME IInv, Room, Bounded
  PROVE  /\ Cardinality(Place) \in Nat /\ FrameNew \in Nat /\ CleanupInterval \in Nat \ {0} /\ W \in Nat
         /\ time \in Nat /\ news \in 0 .. FrameNew
         /\ IsFiniteSet(todo) /\ Cardinality(todo) \in 0 .. Cardinality(Place)
         /\ Cardinality(Used(items)) \in Nat /\ Cardinality(Used(mods)) \in Nat
         /\ time % CleanupInterval \in 0 .. CleanupInterval - 1
         /\ Uncollected = IF phase = "correct" /\ time % CleanupInterval = 0
                          THEN CleanupInterval ELSE time % CleanupInterval
         /\ Cardinality(Place) + CleanupInterval * (Cardinality(Place) + FrameNew) <= W
         /\ Cardinality(Place) + (CleanupInterval + 1) * FrameNew <= W
         /\ Cardinality(Used(items))
              <= Cardinality(Place) + news
                   + FrameNew * (IF phase = "start" THEN Uncollected + 1 ELSE Uncollected)
         /\ \/ /\ phase = "start"
               /\ Cardinality(Used(mods)) <= Uncollected * (Cardinality(Place) + FrameNew)
                                               + Cardinality(Place) + FrameNew
            \/ /\ phase = "correct"
               /\ Cardinality(Used(mods)) <= Uncollected * (Cardinality(Place) + FrameNew)
                                               + Cardinality(Place) - Cardinality(todo)
            \/ /\ phase = "ends"
               /\ Cardinality(Used(mods)) <= Uncollected * (Cardinality(Place) + FrameNew)
                                               + Cardinality(Place) + news
         /\ phase # "start" => roots = {}
         /\ Len(items.items) <= W /\ Len(mods.items) <= W
<1> DEFINE P == Cardinality(Place)
<1>1. P \in Nat /\ FrameNew \in Nat /\ CleanupInterval \in Nat \ {0} /\ W \in Nat
  BY FS_CardinalityType, BoundsOK, WidthsOK DEF Room
<1>2. /\ time \in Nat /\ news \in 0 .. FrameNew /\ todo \subseteq Place
      /\ phase \in {"start", "correct", "ends"}
  BY BoundsOK DEF IInv, Shape
<1>3. IsFiniteSet(todo) /\ Cardinality(todo) \in 0 .. P
  <2>1. IsFiniteSet(todo) /\ Cardinality(todo) <= P
    BY <1>2, FS_Subset DEF Room
  <2> QED BY <1>1, <2>1, FS_CardinalityType
<1>4. Cardinality(Used(items)) \in Nat /\ Cardinality(Used(mods)) \in Nat
  BY UsedFinite DEF IInv
<1>5. time % CleanupInterval \in 0 .. CleanupInterval - 1
  BY <1>1, <1>2, NextFrame
<1>6. Uncollected \in Nat
  BY <1>1, <1>5 DEF Uncollected
<1> DEFINE u == Uncollected
           x == u * (P + FrameNew)
<1>7. x \in Nat
  <2> HIDE DEF P, u
  <2>1. u \in Nat
    BY <1>6 DEF u
  <2> QED BY <1>1, <2>1, Times
<1>8. \/ phase = "start" /\ ModBound = x + P + FrameNew
      \/ phase = "correct" /\ ModBound = x + P - Cardinality(todo)
      \/ phase = "ends" /\ ModBound = x + P + news
  <2>1. ModBound = x + CASE phase = "start"   -> P + FrameNew
                         [] phase = "correct" -> P - Cardinality(todo)
                         [] phase = "ends"    -> P + news
    BY DEF ModBound, Frame
  <2> HIDE DEF x, P
  <2> QED BY <1>1, <1>2, <1>3, <1>7, <2>1
<1> QED BY <1>1, <1>2, <1>3, <1>4, <1>5, <1>8 DEF Bounded, ItemBound, Addressable, Uncollected, Room, Frame

(* What to show of the state a step leads to.                              *)
LEMMA BoundedNext ==
  ASSUME NEW P, P = Cardinality(Place), P \in Nat, FrameNew \in Nat, news' \in Nat,
         Cardinality(todo') \in Nat,
         NEW u \in Nat, Uncollected' = u,
         Cardinality(Used(items)') <= P + news' + FrameNew * (IF phase' = "start" THEN u + 1 ELSE u),
         \/ phase' = "start" /\ Cardinality(Used(mods)') <= u * (P + FrameNew) + P + FrameNew
         \/ phase' = "correct" /\ Cardinality(Used(mods)') <= u * (P + FrameNew) + P - Cardinality(todo')
         \/ phase' = "ends" /\ Cardinality(Used(mods)') <= u * (P + FrameNew) + P + news',
         phase' # "start" => roots' = {},
         Len(items'.items) <= W, Len(mods'.items) <= W
  PROVE  Bounded'
<1> DEFINE x == u * (P + FrameNew)
<1>1. x \in Nat
  BY Times
<1>2. ModBound' = x + CASE phase' = "start"   -> P + FrameNew
                        [] phase' = "correct" -> P - Cardinality(todo')
                        [] phase' = "ends"    -> P + news'
  BY DEF ModBound, Frame
<1> HIDE DEF x
<1>3. \/ phase' = "start" /\ ModBound' = x + P + FrameNew
      \/ phase' = "correct" /\ ModBound' = x + P - Cardinality(todo')
      \/ phase' = "ends" /\ ModBound' = x + P + news'
  BY <1>1, <1>2
<1>4. Cardinality(Used(mods)') <= ModBound'
  BY <1>3 DEF x
<1>5. Cardinality(Used(items)') <= ItemBound'
  BY DEF ItemBound
<1> QED BY <1>4, <1>5 DEF Bounded, Addressable

(* An item more in the frame: the table of items still fits.               *)
LEMMA ItemFits ==
  ASSUME IInv, Room, Bounded, phase # "correct", news < FrameNew
  PROVE  Cardinality(Used(items)) + 1 <= W
<1> DEFINE i == Cardinality(Used(items))
           P == Cardinality(Place)
           F == FrameNew
           C == CleanupInterval
           c == time % CleanupInterval
           a == IF phase = "start" THEN c + 1 ELSE c
<1>1. /\ P \in Nat /\ F \in Nat /\ C \in Nat /\ W \in Nat /\ news \in Nat /\ i \in Nat
      /\ c \in 0 .. C - 1 /\ P + (C + 1) * F <= W /\ i <= P + news + F * a
  BY Numbers
<1>2. a \in Nat /\ a <= C
  BY <1>1
<1> HIDE DEF i, P, F, C, c, a
<1>3. F * a <= C * F /\ F * a \in Nat /\ (C + 1) * F = C * F + F
  BY <1>1, <1>2, Times
<1>4. news + 1 <= F
  BY <1>1 DEF F
<1>5. i + 1 <= W
  BY <1>1, <1>3, <1>4
<1> QED BY <1>5 DEF i

(* A modification more in the frame: the table of modifications still fits. *)
LEMMA ModFits ==
  ASSUME IInv, Room, Bounded,
         \/ phase = "correct" /\ todo # {}
         \/ phase = "ends" /\ news < FrameNew
  PROVE  Cardinality(Used(mods)) + 1 <= W
<1> DEFINE m == Cardinality(Used(mods))
           P == Cardinality(Place)
           F == FrameNew
           C == CleanupInterval
           c == time % CleanupInterval
           k == Cardinality(todo)
           u == Uncollected
<1>0. /\ C \in Nat \ {0} /\ c \in 0 .. C - 1
      /\ u = IF phase = "correct" /\ c = 0 THEN C ELSE c
  BY Numbers
<1>a. u \in Nat /\ u <= C /\ (phase = "ends" => u + 1 <= C)
  <2> HIDE DEF C, c, u
  <2> QED BY <1>0
<1>1. /\ P \in Nat /\ F \in Nat /\ C \in Nat /\ W \in Nat /\ news \in Nat /\ m \in Nat /\ k \in Nat
      /\ u \in Nat /\ u <= C /\ (phase = "ends" => u + 1 <= C)
      /\ P + C * (P + F) <= W
      /\ \/ phase = "correct" /\ m <= u * (P + F) + P - k
         \/ phase = "ends" /\ m <= u * (P + F) + P + news
  <2>1. /\ P \in Nat /\ F \in Nat /\ W \in Nat /\ news \in Nat /\ m \in Nat /\ k \in Nat
        /\ P + C * (P + F) <= W
    BY Numbers
  <2>2. \/ phase = "correct" /\ m <= u * (P + F) + P - k
        \/ phase = "ends" /\ m <= u * (P + F) + P + news
    <3> HIDE DEF u
    <3> QED BY Numbers DEF u
  <2> QED BY <1>0, <1>a, <2>1, <2>2
<1>2. phase = "correct" => k >= 1
  <2>1. phase = "correct" => k # 0
    BY Numbers, FS_EmptySet DEF k
  <2> QED BY <1>1, <2>1
<1>3. phase = "ends" => news + 1 <= F
  BY <1>1 DEF F
<1> HIDE DEF m, P, F, C, c, k, u
<1>4. u * (P + F) <= C * (P + F) /\ (u + 1) * (P + F) = u * (P + F) + P + F
      /\ u * (P + F) \in Nat /\ C * (P + F) \in Nat
      /\ (phase = "ends" => (u + 1) * (P + F) <= C * (P + F))
  BY <1>1, Times
<1> DEFINE x == u * (P + F)
           y == C * (P + F)
           z == (u + 1) * (P + F)
<1>5. /\ x <= y /\ z = x + P + F /\ x \in Nat /\ y \in Nat /\ (phase = "ends" => z <= y)
      /\ P + y <= W
      /\ \/ phase = "correct" /\ m <= x + P - k
         \/ phase = "ends" /\ m <= x + P + news
  BY <1>1, <1>4
<1> HIDE DEF x, y, z
<1>6. m + 1 <= W
  BY <1>1, <1>2, <1>3, <1>5
<1> QED BY <1>6 DEF m

(* An item of a tree that is entered counts for the frame.                 *)
LEMMA StartTreeBounded ==
  ASSUME IInv, Room, Bounded, NEW x \in Item, StartTree(x)
  PROVE  Bounded'
<1> DEFINE i == Cardinality(Used(items))
           P == Cardinality(Place)
           u == Uncollected
<1>1. /\ items' = Inserted(items, x) /\ mods' = mods /\ phase = "start" /\ phase' = "start"
      /\ time' = time /\ todo' = todo /\ news' = news + 1 /\ news < FrameNew
  BY DEF StartTree
<1>2. /\ Cardinality(Used(items)') = i + 1
      /\ Len(items'.items) = Len(items.items) \/ Len(items'.items) = i + 1
  BY <1>1, InsertedSize DEF IInv
<1>3. i + 1 <= W
  BY <1>1, ItemFits
<1>4. Cardinality(Used(mods)') = Cardinality(Used(mods)) /\ Uncollected' = u
  BY <1>1 DEF Used, Slots, Uncollected
<1>5. /\ P \in Nat /\ FrameNew \in Nat /\ news \in Nat /\ Cardinality(todo) \in Nat
      /\ u \in Nat /\ i \in Nat /\ W \in Nat
      /\ i <= P + news + FrameNew * (u + 1)
      /\ Cardinality(Used(mods)) <= u * (P + FrameNew) + P + FrameNew
      /\ Len(items.items) <= W /\ Len(mods.items) <= W
  BY <1>1, Numbers
<1> HIDE DEF i, P, u
<1>6. i + 1 <= P + (news + 1) + FrameNew * (u + 1)
  <2>1. FrameNew * (u + 1) \in Nat
    BY <1>5, Times
  <2> QED BY <1>5, <2>1
<1>7. P = Cardinality(Place) /\ news' \in Nat /\ Cardinality(todo') \in Nat
  BY <1>1, <1>5 DEF P
<1>8. Len(items'.items) <= W /\ Len(mods'.items) <= W
  BY <1>1, <1>2, <1>3, <1>5
<1> QED BY <1>1, <1>2, <1>4, <1>5, <1>6, <1>7, <1>8, BoundedNext

(* In the frame of a cleanup the survivors of the last one and the entries *)
(* of CleanupInterval frames are still there.                              *)
LEMMA ExpandHmmBounded ==
  ASSUME IInv, Room, Bounded, ExpandHmm, IInv'
  PROVE  Bounded'
<1> DEFINE i == Cardinality(Used(items))
           m == Cardinality(Used(mods))
           P == Cardinality(Place)
           F == FrameNew
           c == time % CleanupInterval
           k == Cardinality(todo')
           v == c + 1
<1>1. /\ items' = items /\ mods' = mods /\ phase = "start" /\ phase' = "correct"
      /\ time' = time + 1 /\ news' = news /\ roots' = {}
  BY DEF ExpandHmm
<1>2. Cardinality(Used(items)') = i /\ Cardinality(Used(mods)') = m
  BY <1>1 DEF Used, Slots
<1>3. /\ P \in Nat /\ F \in Nat /\ CleanupInterval \in Nat \ {0} /\ news \in Nat
      /\ c \in 0 .. CleanupInterval - 1
      /\ i \in Nat /\ m \in Nat /\ time \in Nat
      /\ i <= P + news + F * (c + 1)
      /\ m <= c * (P + F) + P + F
      /\ Len(items.items) <= W /\ Len(mods.items) <= W
  BY <1>1, Numbers
<1>4. Uncollected' = v
  <2>1. (time + 1) % CleanupInterval
          = IF time % CleanupInterval = CleanupInterval - 1 THEN 0 ELSE (time % CleanupInterval) + 1
    BY <1>3, NextFrame
  <2>2. Uncollected' = IF (time + 1) % CleanupInterval = 0
                       THEN CleanupInterval ELSE (time + 1) % CleanupInterval
    BY <1>1 DEF Uncollected
  <2> QED BY <1>3, <2>1, <2>2
<1>5. k \in 0 .. P
  <2>1. todo' \subseteq Place
    BY DEF IInv, Shape
  <2>2. IsFiniteSet(todo') /\ k <= P
    BY <2>1, FS_Subset DEF Room
  <2>3. k \in Nat
    BY <2>2, FS_CardinalityType
  <2> QED BY <1>3, <2>2, <2>3
<1>a. P = Cardinality(Place)
  OBVIOUS
<1>b. k = Cardinality(todo')
  OBVIOUS
<1> HIDE DEF i, m, P, c, k
<1>6. m <= v * (P + F) + P - k
  <2>1. v * (P + F) = c * (P + F) + P + F /\ c * (P + F) \in Nat
    BY <1>3, Times
  <2> QED BY <1>3, <1>5, <2>1
<1>7. v \in Nat
  BY <1>3
<1> QED BY <1>a, <1>b, <1>1, <1>2, <1>3, <1>4, <1>5, <1>6, <1>7, BoundedNext

(* modify() adds at most one modification.                                 *)
LEMMA ModifiedSize ==
  ASSUME IInv, NEW id, NEW m, mods' \in {mods, ModifiedTable(id, m)}
  PROVE  /\ Cardinality(Used(mods)') \in Nat
         /\ Cardinality(Used(mods)') <= Cardinality(Used(mods)) + 1
         /\ Len(mods'.items) = Len(mods.items) \/ Len(mods'.items) = Cardinality(Used(mods)) + 1
<1>1. Cardinality(Used(mods)) \in Nat
  BY UsedFinite DEF IInv
<1>2. CASE mods' = mods
  <2>1. Used(mods)' = Used(mods)
    BY <1>2 DEF Used, Slots
  <2> QED BY <1>1, <1>2, <2>1
<1>3. CASE mods' # mods
  <2>1. mods' = Inserted(mods, [trace |-> id, m |-> m])
    BY <1>3 DEF ModifiedTable
  <2>2. /\ Cardinality(Used(mods')) = Cardinality(Used(mods)) + 1
        /\ Len(mods'.items) = Len(mods.items) \/ Len(mods'.items) = Cardinality(Used(mods)) + 1
    BY <2>1, InsertedSize DEF IInv
  <2> QED BY <1>1, <2>2
<1> QED BY <1>2, <1>3

(* A modification for a state that is then no longer to be corrected.      *)
LEMMA CorrectBounded ==
  ASSUME IInv, Room, Bounded, NEW p \in Place, NEW m \in Modification, Correct(p, m)
  PROVE  Bounded'
<1> DEFINE i == Cardinality(Used(items))
           n == Cardinality(Used(mods))
           n2 == Cardinality(Used(mods)')
           P == Cardinality(Place)
           k == Cardinality(todo)
           k2 == Cardinality(todo')
           u == Uncollected
<1>1. /\ items' = items /\ mods' = ModifiedTable(GetUnmodified(states[p].trace), m)
      /\ phase = "correct" /\ phase' = "correct" /\ p \in todo /\ todo' = todo \ {p}
      /\ time' = time /\ news' = news /\ roots' = roots
  BY DEF Correct
<1>2. Cardinality(Used(items)') = i /\ Uncollected' = u
  BY <1>1 DEF Used, Slots, Uncollected
<1>3. n2 \in Nat /\ n2 <= n + 1 /\ (Len(mods'.items) = Len(mods.items) \/ Len(mods'.items) = n + 1)
  BY <1>1, ModifiedSize
<1>4. n + 1 <= W
  BY <1>1, ModFits
<1>5. /\ P \in Nat /\ FrameNew \in Nat /\ news \in Nat /\ k \in Nat
      /\ i \in Nat /\ n \in Nat /\ W \in Nat /\ roots = {}
      /\ i <= P + news + FrameNew * u
      /\ n <= u * (P + FrameNew) + P - k
      /\ Len(items.items) <= W /\ Len(mods.items) <= W
  BY <1>1, Numbers
<1>6. u \in Nat
  <2>1. CleanupInterval \in Nat /\ time % CleanupInterval \in Nat
    BY Numbers
  <2> QED BY <2>1 DEF Uncollected
<1>7. k2 = k - 1 /\ k2 \in Nat
  <2>1. IsFiniteSet(todo)
    BY Numbers
  <2>2. k2 = k - 1 /\ IsFiniteSet(todo')
    BY <1>1, <2>1, FS_RemoveElement
  <2> QED BY <2>2, FS_CardinalityType
<1>a. P = Cardinality(Place) /\ k2 = Cardinality(todo') /\ n2 = Cardinality(Used(mods)')
  OBVIOUS
<1> HIDE DEF i, n, n2, P, k, k2, u
<1>8. n2 <= u * (P + FrameNew) + P - k2
  <2>1. u * (P + FrameNew) \in Nat
    BY <1>5, <1>6, Times
  <2> QED BY <1>3, <1>5, <1>7, <2>1
<1>9. Len(items'.items) <= W /\ Len(mods'.items) <= W
  BY <1>1, <1>3, <1>4, <1>5
<1> QED BY <1>a, <1>1, <1>2, <1>5, <1>6, <1>7, <1>8, <1>9, BoundedNext

(* After a cleanup both tables hold what the survivors lead to.            *)
LEMMA CleanupBounded ==
  ASSUME IInv, Room, Bounded, Cleanup
  PROVE  Bounded'
<1> DEFINE i2 == Cardinality(Used(items)')
           n2 == Cardinality(Used(mods)')
           P == Cardinality(Place)
           c == time % CleanupInterval
<1>1. /\ phase = "correct" /\ phase' = "ends" /\ todo = {} /\ todo' = {} /\ roots' = roots
      /\ time' = time /\ news' = news
      /\ items' = Filtered(items, VisitedItems(Held \cup roots))
      /\ mods' = Filtered(mods, VisitedMods(Held \cup roots))
  BY DEF Cleanup, Collect
<1>2. roots = {} /\ Held \cup roots = Held
  BY <1>1, Numbers
<1>3. Used(items)' = Reached(Held) /\ Used(mods)' = VisitedMods(Held)
  BY <1>2, CleanupIInv
<1>4. i2 <= P /\ n2 <= P /\ i2 \in Nat /\ n2 \in Nat /\ P \in Nat
  <2>1. IsFiniteSet(Held) /\ Cardinality(Held) <= P /\ P \in Nat
    BY HeldSmall DEF IInv, Shape
  <2>2. Cardinality(Held) \in Nat
    BY <2>1, FS_CardinalityType
  <2>3. /\ Cardinality(Reached(Held)) <= Cardinality(Held)
        /\ Cardinality(VisitedMods(Held)) <= Cardinality(Held)
        /\ Cardinality(Reached(Held)) \in Nat /\ Cardinality(VisitedMods(Held)) \in Nat
    BY <2>1, ReachedSmall
  <2> HIDE DEF P
  <2> QED BY <1>3, <2>1, <2>2, <2>3
<1>5. /\ FrameNew \in Nat /\ news \in Nat /\ W \in Nat /\ c \in Nat
      /\ Len(items.items) <= W /\ Len(mods.items) <= W
  BY Numbers
<1>6. Len(items'.items) = Len(items.items) /\ Len(mods'.items) = Len(mods.items)
  <2>1. ASSUME NEW v, NEW Value, Vector(v, Value), NEW keep
        PROVE  Len(Filtered(v, keep).items) = Len(v.items)
    <3>1. Len(v.items) \in Nat
      BY <2>1, UsedFinite
    <3> QED BY <3>1 DEF Filtered, Slots
  <2> QED BY <1>1, <2>1 DEF IInv
<1>7. Uncollected' = c
  BY <1>1 DEF Uncollected
<1>8. Cardinality(todo') = 0
  BY <1>1, FS_EmptySet
<1>a. P = Cardinality(Place) /\ i2 = Cardinality(Used(items)') /\ n2 = Cardinality(Used(mods)')
  OBVIOUS
<1> HIDE DEF i2, n2, P, c
<1>9. i2 <= P + news + FrameNew * c /\ n2 <= c * (P + FrameNew) + P + news
  <2>1. FrameNew * c \in Nat /\ c * (P + FrameNew) \in Nat
    BY <1>4, <1>5, Times
  <2> QED BY <1>4, <1>5, <2>1
<1>10. phase' = "ends" /\ roots' = {} /\ news' = news
  BY <1>1, <1>2
<1>11. Len(items'.items) <= W /\ Len(mods'.items) <= W
  BY <1>5, <1>6
<1> QED BY <1>a, <1>4, <1>5, <1>7, <1>8, <1>9, <1>10, <1>11, BoundedNext

(* Without a cleanup everything stays: it is not the frame of a cleanup.   *)
LEMMA NoCleanupBounded ==
  ASSUME IInv, Room, Bounded, NoCleanup
  PROVE  Bounded'
<1> DEFINE i == Cardinality(Used(items))
           n == Cardinality(Used(mods))
           P == Cardinality(Place)
           c == time % CleanupInterval
<1>1. /\ phase = "correct" /\ phase' = "ends" /\ todo = {} /\ todo' = {} /\ roots' = roots
      /\ time' = time /\ news' = news /\ items' = items /\ mods' = mods
      /\ time % CleanupInterval # 0
  BY DEF NoCleanup, CleanupDue
<1>2. Cardinality(Used(items)') = i /\ Cardinality(Used(mods)') = n
  BY <1>1 DEF Used, Slots
<1>3. Uncollected' = c /\ Uncollected = c
  BY <1>1 DEF Uncollected
<1>4. Cardinality(todo) = 0 /\ Cardinality(todo') = 0
  BY <1>1, FS_EmptySet
<1>5. /\ P \in Nat /\ FrameNew \in Nat /\ news \in Nat /\ W \in Nat /\ c \in Nat /\ i \in Nat /\ n \in Nat
      /\ roots = {} /\ Len(items.items) <= W /\ Len(mods.items) <= W
      /\ i <= P + news + FrameNew * Uncollected
      /\ n <= Uncollected * (P + FrameNew) + P - Cardinality(todo)
  BY <1>1, Numbers
<1>a. P = Cardinality(Place)
  OBVIOUS
<1> HIDE DEF i, n, P, c
<1>6. n <= c * (P + FrameNew) + P + news
  <2>1. c * (P + FrameNew) \in Nat
    BY <1>5, Times
  <2> QED BY <1>3, <1>4, <1>5, <2>1
<1>7. i <= P + news + FrameNew * c
  BY <1>3, <1>5
<1> QED BY <1>a, <1>1, <1>2, <1>3, <1>4, <1>5, <1>6, <1>7, BoundedNext

(* An alternative history is an item of the frame and at most a            *)
(* modification.                                                           *)
LEMMA RescoreBounded ==
  ASSUME IInv, Room, Bounded, NEW p \in Place, NEW x \in Item, Rescore(p, x)
  PROVE  Bounded'
<1> DEFINE i == Cardinality(Used(items))
           n == Cardinality(Used(mods))
           n2 == Cardinality(Used(mods)')
           P == Cardinality(Place)
           u == Uncollected
           id == [AsId(Slot(items)) EXCEPT !.mod = 0]
           m == GetModification(states[p].trace)
<1>1. /\ items' = Inserted(items, x) /\ mods' \in {mods, ModifiedTable(id, m)}
      /\ phase = "ends" /\ phase' = "ends" /\ todo' = todo /\ roots' = roots
      /\ time' = time /\ news' = news + 1 /\ news < FrameNew
  BY DEF Rescore
<1> HIDE DEF id, m
<1>2. Cardinality(Used(items)') = i + 1
      /\ (Len(items'.items) = Len(items.items) \/ Len(items'.items) = i + 1)
  BY <1>1, InsertedSize DEF IInv
<1>3. n2 \in Nat /\ n2 <= n + 1 /\ (Len(mods'.items) = Len(mods.items) \/ Len(mods'.items) = n + 1)
  BY <1>1, ModifiedSize
<1>4. i + 1 <= W /\ n + 1 <= W
  BY <1>1, ItemFits, ModFits
<1>5. /\ P \in Nat /\ FrameNew \in Nat /\ news \in Nat /\ Cardinality(todo) \in Nat
      /\ i \in Nat /\ n \in Nat /\ W \in Nat /\ roots = {} /\ u \in Nat
      /\ i <= P + news + FrameNew * u
      /\ n <= u * (P + FrameNew) + P + news
      /\ Len(items.items) <= W /\ Len(mods.items) <= W
  BY <1>1, Numbers
<1>6. Uncollected' = u
  BY <1>1 DEF Uncollected
<1>a. P = Cardinality(Place) /\ n2 = Cardinality(Used(mods)')
  OBVIOUS
<1> HIDE DEF i, n, n2, P, u
<1>7. n2 <= u * (P + FrameNew) + P + (news + 1) /\ i + 1 <= P + (news + 1) + FrameNew * u
  <2>1. u * (P + FrameNew) \in Nat /\ FrameNew * u \in Nat
    BY <1>5, Times
  <2> QED BY <1>3, <1>5, <2>1
<1>8. Len(items'.items) <= W /\ Len(mods'.items) <= W
  BY <1>2, <1>3, <1>4, <1>5
<1> QED BY <1>a, <1>1, <1>2, <1>5, <1>6, <1>7, <1>8, BoundedNext

(* The items of the frame that ends are counted with it.                   *)
LEMMA EndFrameBounded ==
  ASSUME IInv, Room, Bounded, EndFrame
  PROVE  Bounded'
<1> DEFINE i == Cardinality(Used(items))
           n == Cardinality(Used(mods))
           P == Cardinality(Place)
           u == Uncollected
<1>1. /\ phase = "ends" /\ phase' = "start" /\ todo' = todo /\ news' = 0
      /\ time' = time /\ items' = items /\ mods' = mods
  BY DEF EndFrame
<1>2. Cardinality(Used(items)') = i /\ Cardinality(Used(mods)') = n
  BY <1>1 DEF Used, Slots
<1>3. Uncollected' = u
  BY <1>1 DEF Uncollected
<1>5. /\ P \in Nat /\ FrameNew \in Nat /\ news \in 0 .. FrameNew /\ W \in Nat /\ u \in Nat
      /\ i \in Nat /\ n \in Nat /\ Cardinality(todo) \in Nat
      /\ Len(items.items) <= W /\ Len(mods.items) <= W
      /\ i <= P + news + FrameNew * u
      /\ n <= u * (P + FrameNew) + P + news
  BY <1>1, Numbers
<1>a. P = Cardinality(Place)
  OBVIOUS
<1> HIDE DEF i, n, P, u
<1>6. n <= u * (P + FrameNew) + P + FrameNew /\ i <= P + 0 + FrameNew * (u + 1)
  <2>1. /\ u * (P + FrameNew) \in Nat /\ FrameNew * u = u * FrameNew /\ u * FrameNew \in Nat
        /\ FrameNew * (u + 1) = u * FrameNew + FrameNew
    BY <1>5, Times
  <2> QED BY <1>5, <2>1
<1> QED BY <1>a, <1>1, <1>2, <1>3, <1>5, <1>6, BoundedNext

(* Empty tables are within the bounds.                                     *)
LEMMA EmptyBounded ==
  ASSUME Room, items' = EmptyVector, mods' = EmptyVector, roots' = {}, todo' = {},
         phase' = "start", time' = 0, news' = 0
  PROVE  Bounded'
<1> DEFINE P == Cardinality(Place)
<1>1. P \in Nat /\ FrameNew \in Nat /\ CleanupInterval \in Nat \ {0} /\ W \in Nat
  BY FS_CardinalityType, BoundsOK, WidthsOK DEF Room
<1>2. Used(items)' = {} /\ Used(mods)' = {} /\ Len(items'.items) = 0 /\ Len(mods'.items) = 0
  BY DEF Used, Slots, EmptyVector
<1>3. Cardinality(Used(items)') = 0 /\ Cardinality(Used(mods)') = 0 /\ Cardinality(todo') = 0
  BY <1>2, FS_EmptySet
<1>4. Uncollected' = 0
  <2>1. 0 % CleanupInterval = 0
    BY <1>1
  <2> QED BY <2>1 DEF Uncollected
<1>a. P = Cardinality(Place)
  OBVIOUS
<1> HIDE DEF P
<1>5. 0 <= P + 0 + FrameNew * (0 + 1) /\ 0 <= 0 * (P + FrameNew) + P + FrameNew
  BY <1>1
<1> QED BY <1>a, <1>1, <1>2, <1>3, <1>4, <1>5, BoundedNext

(* Every step stays within the bounds.                                     *)
LEMMA NextBounded ==
  ASSUME IInv, Room, Bounded, [Next]_vars
  PROVE  Bounded'
<1>1. CASE \E x \in Item : StartTree(x)
  BY <1>1, StartTreeBounded
<1>2. CASE ExpandHmm
  BY <1>2, ExpandHmmIInv, ExpandHmmBounded
<1>3. CASE \E p \in Place, m \in Modification : Correct(p, m)
  BY <1>3, CorrectBounded
<1>4. CASE Cleanup \/ NoCleanup
  BY <1>4, CleanupBounded, NoCleanupBounded
<1>5. CASE \E p \in Place, x \in Item : Rescore(p, x)
  BY <1>5, RescoreBounded
<1>6. CASE EndFrame
  BY <1>6, EndFrameBounded
<1>7. CASE ClearSpace
  BY <1>7, EmptyBounded DEF ClearSpace, IInv, Shape
<1>8. CASE UNCHANGED vars
  BY <1>8 DEF vars, Bounded, ItemBound, ModBound, Uncollected, Addressable, Used, Slots
<1> QED BY <1>1, <1>2, <1>3, <1>4, <1>5, <1>6, <1>7, <1>8 DEF Next

(* The first state is within the bounds.                                   *)
LEMMA InitBounded ==
  ASSUME Room, Init
  PROVE  Bounded
<1> DEFINE P == Cardinality(Place)
<1>1. P \in Nat /\ FrameNew \in Nat /\ CleanupInterval \in Nat \ {0} /\ W \in Nat
  BY FS_CardinalityType, BoundsOK, WidthsOK DEF Room
<1>2. /\ Used(items) = {} /\ Used(mods) = {} /\ Len(items.items) = 0 /\ Len(mods.items) = 0
      /\ phase = "start" /\ news = 0 /\ time = 0
  BY DEF Init, Used, Slots, EmptyVector
<1>3. Cardinality(Used(items)) = 0 /\ Cardinality(Used(mods)) = 0
  BY <1>2, FS_EmptySet
<1>4. Uncollected = 0
  <2>1. 0 % CleanupInterval = 0
    BY <1>1
  <2> QED BY <1>2, <2>1 DEF Uncollected
<1>5. ItemBound = P + 0 + FrameNew * (0 + 1)
  BY <1>2, <1>4 DEF ItemBound
<1>6. ModBound = 0 * (P + FrameNew) + (P + FrameNew)
  BY <1>2, <1>4 DEF ModBound, Frame
<1> HIDE DEF P
<1>7. 0 <= P + 0 + FrameNew * (0 + 1) /\ 0 <= 0 * (P + FrameNew) + (P + FrameNew)
  BY <1>1
<1> QED BY <1>1, <1>2, <1>3, <1>5, <1>6, <1>7 DEF Bounded, Addressable

-----------------------------------------------------------------------------
(* The theorems.                                                           *)

(* The bounds and the invariant of TraceManagerProofs, which needs them,   *)
(* together.                                                               *)
LEMMA BoundedInductive ==
  ASSUME Room
  PROVE  Spec => [](IInv /\ Bounded)
<1>1. Init => IInv /\ Bounded
  BY InitIInv, InitBounded
<1>2. IInv /\ Bounded /\ [Next]_vars => (IInv /\ Bounded)'
  <2> SUFFICES ASSUME IInv, Bounded, [Next]_vars PROVE IInv' /\ Bounded'
    OBVIOUS
  <2>1. Bounded'
    BY NextBounded
  <2>2. Addressable'
    BY <2>1 DEF Bounded
  <2> QED BY <2>1, <2>2, NextIInv
<1> QED BY <1>1, <1>2, PTL DEF Spec

(* Where the interval between two cleanups leaves room for the entries of  *)
(* its frames, the tables never outgrow the low part of an id: modify()    *)
(* and insert() always give out ids of their own (TraceManager.hh:178).    *)
THEOREM AlwaysAddressable ==
  ASSUME Room
  PROVE  Spec => []Addressable
<1>1. Bounded => Addressable
  BY DEF Bounded
<1> QED BY <1>1, BoundedInductive, PTL

(* With that, what TraceManagerProofs shows of runs whose tables fit holds *)
(* of every run: types, free lists, the items ids lead to, the corrections *)
(* they hold, and what a cleanup keeps.                                    *)
THEOREM RoomSuffices ==
  ASSUME Room
  PROVE  Spec => /\ []TypeOK /\ []FreeListExact /\ []ResolvesOwn /\ []OwnCorrection
                 /\ CleanupExact
<1>1. Spec => []Addressable
  BY AlwaysAddressable
<1> QED BY <1>1, TypeCorrect, FreeListsExact, IdsResolve, CorrectionsKept, CleanupsExact, PTL
=============================================================================
