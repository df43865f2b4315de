------------------------- MODULE FlowNetworkProofs -------------------------
(***************************************************************************)
(* Theorems about FlowNetwork, for every finite or infinite graph of nodes *)
(* and links, every set of parameterised and of threaded nodes and all     *)
(* bounds.                                                                 *)
(***************************************************************************)
EXTENDS FlowNetwork, SequenceTheorems, WellFoundedInduction, TLAPS

-----------------------------------------------------------------------------
(* The inductive invariant.                                                *)

(* Links without attributes are closed downstream. *)
Upstream(a) ==
  \A l \in Link, n \in Node : From[l] = n /\ a[l] # None => \A k \in InSet(n) : a[k] # None

(* The links of a node have attributes together. *)
Siblings(a) ==
  \A l, k \in Link : From[l] = From[k] /\ From[l] \in Node /\ a[l] # None => a[k] # None

(* A pull goes through configured links only; a node works for a link that *)
(* it is connected to.                                                     *)
GoalConfigured ==
  /\ goal = NoLink => stack = <<>>
  /\ goal # NoLink => attrs[goal] # None

Working(f) ==
  /\ f.reads <= Len(Inputs[f.node])
  /\ \E l \in OutSet(f.node) : attrs[l] # None

Inv ==
  /\ TypeOK
  /\ SlotOrQueue
  /\ Upstream(attrs) /\ Siblings(attrs)
  /\ GoalConfigured
  /\ \A i \in DOMAIN stack : Working(stack[i])

-----------------------------------------------------------------------------
(* Facts about the graph and its fixed points.                             *)

LEMMA InLink == ASSUME NEW n \in Node, NEW l \in InSet(n) PROVE l \in Link
BY GraphAssumption DEF InSet

LEMMA NetNoNode == Net \notin Node
BY GraphAssumption

LEMMA ConeRoots == ASSUME NEW a, NEW ns, ns \subseteq Node PROVE ns \subseteq Cone(a, ns) /\ Cone(a, ns) \subseteq Node
BY DEF Cone

LEMMA ConeClosed ==
  ASSUME NEW a, NEW ns, NEW k \in Cone(a, ns), NEW l \in InSet(k), a[l] = None, From[l] \in Node
  PROVE  From[l] \in Cone(a, ns)
<1>1. SUFFICES ASSUME NEW s \in SUBSET Node, ns \subseteq s,
                      \A m \in s : \A i \in InSet(m) : a[i] = None /\ From[i] \in Node => From[i] \in s
               PROVE  From[l] \in s
  BY DEF Cone
<1>2. k \in s
  BY <1>1 DEF Cone
<1> QED BY <1>1, <1>2

LEMMA SuccessorsRoots == ASSUME NEW ns, ns \subseteq Node PROVE ns \subseteq Successors(ns)
BY DEF Successors

LEMMA SuccessorsClosed ==
  ASSUME NEW ns, NEW k \in Node, NEW l \in InSet(k), From[l] \in Successors(ns)
  PROVE  k \in Successors(ns)
<1>1. SUFFICES ASSUME NEW s \in SUBSET Node, ns \subseteq s,
                      \A m \in Node : (\E i \in InSet(m) : From[i] \in s) => m \in s
               PROVE  k \in s
  BY DEF Successors
<1>2. From[l] \in s
  BY <1>1 DEF Successors
<1> QED BY <1>1, <1>2

-----------------------------------------------------------------------------
(* Erasing and setting attributes.                                         *)

(* eraseOutputAttributes keeps attributes closed: what is downstream of an *)
(* erased link is erased.                                                  *)
LEMMA ErasedKeeps ==
  ASSUME NEW a \in [Link -> SUBSET Token], NEW ns, ns \subseteq Node, Upstream(a), Siblings(a)
  PROVE  /\ Erased(a, ns) \in [Link -> SUBSET Token]
         /\ Upstream(Erased(a, ns)) /\ Siblings(Erased(a, ns))
<1> DEFINE e == Erased(a, ns)
<1>1. /\ e \in [Link -> SUBSET Token]
      /\ \A l \in Link : e[l] = IF From[l] \in Successors(ns) THEN None ELSE a[l]
  BY DEF Erased, None
<1>2. ASSUME NEW l \in Link, NEW n \in Node, From[l] = n, e[l] # None, NEW k \in InSet(n)
      PROVE  e[k] # None
  <2>1. k \in Link
    BY InLink
  <2>2. n \notin Successors(ns) /\ a[l] # None
    BY <1>1, <1>2
  <2>3. From[k] \notin Successors(ns)
    BY <2>2, SuccessorsClosed
  <2>4. a[k] # None
    BY <1>2, <2>2 DEF Upstream
  <2> QED BY <1>1, <2>1, <2>3, <2>4
<1>3. ASSUME NEW l \in Link, NEW k \in Link, From[l] = From[k], From[l] \in Node, e[l] # None
      PROVE  e[k] # None
  <2>1. From[l] \notin Successors(ns) /\ a[l] # None
    BY <1>1, <1>3
  <2>2. a[k] # None
    BY <1>3, <2>1 DEF Siblings
  <2> QED BY <1>1, <1>3, <2>1, <2>2
<1> HIDE DEF e
<1>4. Upstream(e) /\ Siblings(e)
  BY <1>2, <1>3 DEF Upstream, Siblings
<1> QED BY <1>1, <1>4 DEF e

LEMMA DerivedSome ==
  ASSUME NEW a \in [Link -> SUBSET Token], NEW n \in Node, version \in [Node -> 0 .. MaxCalls], MaxCalls \in Nat
  PROVE  Derived(a, n) # None /\ Derived(a, n) \subseteq Token
<1>1. n \in Cone(a, {n}) /\ Cone(a, {n}) \subseteq Node
  BY ConeRoots
<1>2. <<n, version[n]>> \in Derived(a, n)
  BY <1>1 DEF Derived
<1>3. ASSUME NEW m \in Cone(a, {n}) PROVE <<m, version[m]>> \in Token
  <2>1. m \in Node
    BY <1>1
  <2>2. version[m] \in Nat
    BY <2>1
  <2> QED BY <2>1, <2>2 DEF Token
<1>4. ASSUME NEW m \in Cone(a, {n}), NEW l \in InSet(m) PROVE InputAttrs(a, l) \subseteq Token
  <2>1. l \in Link
    BY <1>1, InLink
  <2> QED BY <2>1 DEF InputAttrs, Token
<1> QED BY <1>2, <1>3, <1>4 DEF Derived, None

(* configure() of the nodes ns keeps attributes closed, removes none and   *)
(* gives the links of ns some.                                             *)
LEMMA ConfiguredKeeps ==
  ASSUME NEW a \in [Link -> SUBSET Token], NEW ns, ns \subseteq Node, Upstream(a), Siblings(a),
         version \in [Node -> 0 .. MaxCalls], MaxCalls \in Nat
  PROVE  LET c == Configured(a, Cone(a, ns)) IN
         /\ c \in [Link -> SUBSET Token]
         /\ Upstream(c) /\ Siblings(c)
         /\ \A l \in Link : a[l] # None \/ From[l] \in ns => c[l] # None
<1> DEFINE cone == Cone(a, ns)
           c == Configured(a, cone)
<1>0. ns \subseteq cone /\ cone \subseteq Node
  BY ConeRoots
<1>1. /\ DOMAIN c = Link
      /\ \A l \in Link : From[l] \in cone => c[l] = Derived(a, From[l])
      /\ \A l \in Link : From[l] \notin cone => c[l] = IF AsksNetwork(a, cone) THEN InputAttrs(a, l) ELSE a[l]
      /\ c = [l \in Link |-> c[l]]
  BY DEF Configured
<1>2. ASSUME NEW l \in Link PROVE InputAttrs(a, l) \subseteq Token /\ (a[l] # None => InputAttrs(a, l) # None)
  BY DEF InputAttrs, Token, None
<1>3. ASSUME NEW l \in Link PROVE c[l] \subseteq Token
  BY <1>0, <1>1, <1>2, DerivedSome
<1>4. ASSUME NEW l \in Link, a[l] # None \/ From[l] \in cone PROVE c[l] # None
  BY <1>0, <1>1, <1>2, <1>4, DerivedSome
<1>5. ASSUME NEW l \in Link, From[l] \in Node, From[l] \notin cone PROVE c[l] = a[l]
  BY <1>1, <1>5, NetNoNode DEF InputAttrs
<1> HIDE DEF c, cone
<1>6. ASSUME NEW l \in Link, NEW n \in Node, From[l] = n, c[l] # None, NEW k \in InSet(n)
      PROVE  c[k] # None
  <2>0. k \in Link /\ From[k] \in Node \cup {Net}
    BY InLink, GraphAssumption
  <2>1. CASE n \in cone
    <3>1. CASE a[k] # None
      BY <2>0, <3>1, <1>4
    <3>2. CASE a[k] = None /\ From[k] \in Node
      <4>1. From[k] \in cone
        BY <2>1, <3>2, ConeClosed DEF cone
      <4> QED BY <2>0, <4>1, <1>4
    <3>3. CASE a[k] = None /\ From[k] = Net
      <4>1. AsksNetwork(a, cone)
        BY <2>1, <3>3 DEF AsksNetwork
      <4>2. From[k] \notin cone
        BY <1>0, <3>3, NetNoNode
      <4>3. c[k] = {<<Net, 0>>}
        BY <1>1, <2>0, <3>3, <4>1, <4>2 DEF InputAttrs
      <4> QED BY <4>3 DEF None
    <3> QED BY <2>0, <3>1, <3>2, <3>3
  <2>2. CASE n \notin cone
    <3>1. a[l] # None
      BY <1>5, <1>6, <2>2
    <3>2. a[k] # None
      BY <1>6, <3>1 DEF Upstream
    <3> QED BY <1>4, <2>0, <3>2
  <2> QED BY <2>1, <2>2
<1>7. ASSUME NEW l \in Link, NEW k \in Link, From[l] = From[k], From[l] \in Node, c[l] # None
      PROVE  c[k] # None
  <2>1. CASE From[l] \in cone
    BY <1>4, <1>7, <2>1
  <2>2. CASE From[l] \notin cone
    <3>1. a[l] # None
      BY <1>5, <1>7, <2>2
    <3>2. a[k] # None
      BY <1>7, <3>1 DEF Siblings
    <3> QED BY <1>4, <3>2
  <2> QED BY <2>1, <2>2
<1>8. c \in [Link -> SUBSET Token]
  BY <1>1, <1>3
<1>9. Upstream(c) /\ Siblings(c)
  BY <1>6, <1>7 DEF Upstream, Siblings
<1>10. \A l \in Link : a[l] # None \/ From[l] \in ns => c[l] # None
  BY <1>0, <1>4
<1> QED BY <1>8, <1>9, <1>10 DEF c, cone

-----------------------------------------------------------------------------
(* Sequences.                                                              *)

LEMMA Pushed ==
  ASSUME NEW S, NEW s \in Seq(S), NEW f \in S
  PROVE  /\ <<f>> \o s \in Seq(S)
         /\ \A i \in DOMAIN (<<f>> \o s) : (<<f>> \o s)[i] = f \/ \E j \in DOMAIN s : (<<f>> \o s)[i] = s[j]
OBVIOUS

LEMMA Popped ==
  ASSUME NEW S, NEW s \in Seq(S), s # <<>>
  PROVE  /\ Head(s) = s[1] /\ 1 \in DOMAIN s /\ s[1] \in S
         /\ Tail(s) \in Seq(S)
         /\ \A i \in DOMAIN Tail(s) : i + 1 \in DOMAIN s /\ Tail(s)[i] = s[i + 1]
OBVIOUS

-----------------------------------------------------------------------------
(* Links.                                                                  *)

LinkTypes ==
  /\ fast \in [Link -> BOOLEAN]
  /\ slot \in [Link -> Packets \cup {Empty}]
  /\ queue \in [Link -> Seq(Packets)]

LEMMA EmptyNoPacket == Empty \notin Packets
BY DEF Empty, Packets, Made

(* putData keeps a link's packets in its slot or in its queue. *)
LEMMA PutOnKeeps ==
  ASSUME LinkTypes, SlotOrQueue, NEW ls, NEW d \in Packets, PutOn(ls, d)
  PROVE  LinkTypes' /\ SlotOrQueue'
<1>1. ASSUME NEW l \in Link
      PROVE  /\ slot'[l] \in Packets \cup {Empty} /\ queue'[l] \in Seq(Packets)
             /\ slot'[l] # Empty => queue'[l] = <<>> /\ fast[l]
  <2>0. /\ slot[l] \in Packets \cup {Empty} /\ queue[l] \in Seq(Packets)
        /\ slot[l] # Empty => queue[l] = <<>> /\ fast[l]
    BY DEF LinkTypes, SlotOrQueue
  <2>1. CASE l \notin ls
    BY <2>0, <2>1 DEF PutOn
  <2>2. CASE l \in ls /\ ToSlot(l)
    BY <2>0, <2>2 DEF PutOn, ToSlot
  <2>3. CASE l \in ls /\ Spills(l)
    <3>1. slot'[l] = Empty /\ queue'[l] = <<slot[l], d>>
      BY <2>3 DEF PutOn, ToSlot, Spills
    <3>2. slot[l] \in Packets
      BY <2>0, <2>3 DEF Spills
    <3> QED BY <3>1, <3>2
  <2>4. CASE l \in ls /\ ~ToSlot(l) /\ ~Spills(l)
    <3>1. slot'[l] = slot[l] /\ queue'[l] = Append(queue[l], d)
      BY <2>4 DEF PutOn
    <3>2. slot[l] = Empty
      BY <2>0, <2>4 DEF Spills
    <3> QED BY <2>0, <3>1, <3>2
  <2> QED BY <2>1, <2>2, <2>3, <2>4
<1>2. fast' = fast /\ slot' = [l \in Link |-> slot'[l]] /\ queue' = [l \in Link |-> queue'[l]]
  BY DEF PutOn
<1> QED BY <1>1, <1>2 DEF LinkTypes, SlotOrQueue

(* getData of a link that holds a packet delivers one and keeps the rest   *)
(* in the slot or in the queue.                                            *)
LEMMA TakeKeeps ==
  ASSUME LinkTypes, SlotOrQueue, NEW l \in Link, Available(l), TakeFrom(l)
  PROVE  First(l) \in Packets /\ LinkTypes' /\ SlotOrQueue'
<1>0. /\ slot[l] \in Packets \cup {Empty} /\ queue[l] \in Seq(Packets)
      /\ slot[l] # Empty => queue[l] = <<>> /\ fast[l]
      /\ slot[l] # Empty \/ queue[l] # <<>>
  BY DEF LinkTypes, SlotOrQueue, Available
<1>1. CASE FromSlot(l)
  <2>1. /\ First(l) = slot[l] /\ slot' = [slot EXCEPT ![l] = Empty]
        /\ queue' = queue /\ fast' = fast
    BY <1>1 DEF First, TakeFrom
  <2>2. slot[l] # Empty
    BY <1>1 DEF FromSlot
  <2> QED BY <1>0, <2>1, <2>2 DEF LinkTypes, SlotOrQueue
<1>2. CASE ~FromSlot(l)
  <2>1. /\ First(l) = Head(queue[l]) /\ slot' = slot
        /\ queue' = [queue EXCEPT ![l] = Tail(@)] /\ fast' = fast
    BY <1>2 DEF First, TakeFrom
  <2>2. slot[l] = Empty /\ queue[l] # <<>>
    BY <1>0, <1>2 DEF FromSlot
  <2>3. Head(queue[l]) \in Packets /\ Tail(queue[l]) \in Seq(Packets)
    BY <1>0, <2>2
  <2> QED BY <1>0, <2>1, <2>2, <2>3 DEF LinkTypes, SlotOrQueue
<1> QED BY <1>1, <1>2

-----------------------------------------------------------------------------
(* Calls of the client.                                                    *)

(* The part of the invariant that configure() establishes. *)
LEMMA ConfigureKeeps ==
  ASSUME Inv, NEW a \in [Link -> SUBSET Token], Upstream(a), Siblings(a),
         NEW ns, ns \subseteq Node, NEW cleared \in SUBSET Link, Configure(a, ns, cleared)
  PROVE  /\ LinkTypes' /\ SlotOrQueue'
         /\ attrs' \in [Link -> SUBSET Token] /\ position' \in [Source -> Nat]
         /\ Upstream(attrs') /\ Siblings(attrs')
         /\ \A l \in Link : a[l] # None \/ From[l] \in ns => attrs'[l] # None
<1>1. /\ LinkTypes /\ SlotOrQueue /\ position \in [Source -> Nat]
      /\ version \in [Node -> 0 .. MaxCalls] /\ MaxCalls \in Nat
  BY BoundAssumption DEF Inv, TypeOK, LinkTypes
<1>2. attrs' = Configured(a, Cone(a, ns))
  BY DEF Configure
<1>3. /\ attrs' \in [Link -> SUBSET Token]
      /\ Upstream(attrs') /\ Siblings(attrs')
      /\ \A l \in Link : a[l] # None \/ From[l] \in ns => attrs'[l] # None
  BY <1>1, <1>2, ConfiguredKeeps
<1>4. position' \in [Source -> Nat]
  BY <1>1 DEF Configure, Rewound
<1>5. LinkTypes' /\ SlotOrQueue'
  <2> DEFINE cone == Cone(a, ns)
             empty == Fresh(cone) \cup cleared
  <2>1. /\ fast'  = [l \in Link |-> IF From[l] \in cone THEN From[l] \notin Threaded ELSE fast[l]]
        /\ slot'  = [l \in Link |-> IF l \in empty THEN Empty ELSE slot[l]]
        /\ queue' = [l \in Link |-> IF l \in empty THEN <<>> ELSE queue[l]]
    BY DEF Configure
  <2>2. \A l \in Link : From[l] \in cone => l \in empty
    BY DEF Fresh
  <2> HIDE DEF empty, cone
  <2>3. ASSUME NEW l \in Link
        PROVE  /\ fast'[l] \in BOOLEAN /\ slot'[l] \in Packets \cup {Empty} /\ queue'[l] \in Seq(Packets)
               /\ slot'[l] # Empty => queue'[l] = <<>> /\ fast'[l]
    <3>1. CASE l \in empty
      <4>1. slot'[l] = Empty /\ queue'[l] = <<>>
        BY <2>1, <3>1
      <4>2. fast'[l] \in BOOLEAN
        BY <1>1, <2>1 DEF LinkTypes
      <4> QED BY <4>1, <4>2
    <3>2. CASE l \notin empty
      <4>1. fast'[l] = fast[l] /\ slot'[l] = slot[l] /\ queue'[l] = queue[l]
        BY <2>1, <2>2, <3>2
      <4> QED BY <1>1, <4>1 DEF LinkTypes, SlotOrQueue
    <3> QED BY <3>1, <3>2
  <2>4. /\ fast' = [l \in Link |-> fast'[l]] /\ slot' = [l \in Link |-> slot'[l]]
        /\ queue' = [l \in Link |-> queue'[l]]
    BY <2>1
  <2> QED BY <2>3, <2>4 DEF LinkTypes, SlotOrQueue
<1> QED BY <1>3, <1>4, <1>5

LEMMA CallBasics ==
  ASSUME Inv, Call
  PROVE  /\ goal = NoLink /\ stack = <<>> /\ calls' \in 0 .. MaxCalls
         /\ calls \in Nat /\ calls' \in Nat
BY BoundAssumption DEF Inv, Call, GoalConfigured, TypeOK

(* Outside a pull the rest of the invariant is about an empty stack.       *)
LEMMA IdleKeeps ==
  ASSUME stack' = <<>>, goal' = NoLink, LinkTypes', SlotOrQueue',
         attrs' \in [Link -> SUBSET Token], Upstream(attrs'), Siblings(attrs'),
         version' \in [Node -> 0 .. MaxCalls], position' \in [Source -> Nat],
         lastNonData' \in Sentinel, calls' \in 0 .. MaxCalls
  PROVE  Inv'
BY DEF Inv, TypeOK, LinkTypes, GoalConfigured

LEMMA InputKeeps ==
  ASSUME LinkTypes, SlotOrQueue, lastNonData \in Sentinel, NEW i, NEW d \in Packets, Input(i, d)
  PROVE  LinkTypes' /\ SlotOrQueue' /\ lastNonData' \in Sentinel
BY PutOnKeeps DEF Input

LEMMA SentinelPackets == Sentinel \subseteq Packets
BY DEF Sentinel, Packets, Eos, Ood, Made

LEMMA PutDataStep == ASSUME Inv, NEW i \in InputPort, PutData(i) \/ PutEos(i) \/ PutOod(i) PROVE Inv'
<1>1. Call
  BY DEF PutData, PutEos, PutOod
<1>2. \E d \in Packets : Input(i, d)
  <2>1. CASE PutData(i)
    <3>1. calls' \in 0 .. MaxCalls
      BY <1>1, CallBasics
    <3>2. Data({<<Net, calls', 0>>}) \in Packets
      BY <3>1 DEF Data, Made, Packets, Stamp
    <3> QED BY <2>1, <3>2, SentinelPackets DEF PutData, Sentinel
  <2>2. CASE PutEos(i) \/ PutOod(i)
    BY <2>2, SentinelPackets DEF PutEos, PutOod, Inv, TypeOK
  <2> QED BY <2>1, <2>2
<1>3. PICK d \in Packets : Input(i, d)
  BY <1>2
<1>4. LinkTypes' /\ SlotOrQueue' /\ lastNonData' \in Sentinel
  BY <1>3, InputKeeps DEF Inv, TypeOK, LinkTypes
<1>5. UNCHANGED <<attrs, version, position, goal, stack>>
  BY <1>3 DEF Input, pullVars
<1> QED BY <1>1, <1>4, <1>5, CallBasics, IdleKeeps DEF Inv, TypeOK

LEMMA PutAttributesStep == ASSUME Inv, NEW i \in InputPort, PutAttributes(i) PROVE Inv'
<1>0. i \in Link /\ From[i] = Net
  BY DEF InputPort, OutSet
<1>1. goal = NoLink /\ stack = <<>> /\ calls' \in 0 .. MaxCalls /\ calls' \in Nat
  BY CallBasics DEF PutAttributes
<1>2. /\ attrs' = [attrs EXCEPT ![i] = {<<Net, calls'>>}]
      /\ fast' = [fast EXCEPT ![i] = Net \notin Threaded]
      /\ slot' = [slot EXCEPT ![i] = Empty]
      /\ queue' = [queue EXCEPT ![i] = <<>>]
      /\ UNCHANGED <<version, position, lastNonData, goal, stack>>
  BY DEF PutAttributes, pullVars
<1>3. attrs' \in [Link -> SUBSET Token]
  <2>1. {<<Net, calls'>>} \in SUBSET Token
    BY <1>1 DEF Token
  <2>2. attrs \in [Link -> SUBSET Token]
    BY DEF Inv, TypeOK
  <2> QED BY <1>2, <2>1, <2>2
<1>4. LinkTypes' /\ SlotOrQueue'
  BY <1>0, <1>2 DEF Inv, TypeOK, LinkTypes, SlotOrQueue
<1>5. \A l \in Link : attrs[l] # None => attrs'[l] # None
  BY <1>2 DEF Inv, TypeOK, None
<1>6. \A l \in Link : From[l] \in Node => attrs'[l] = attrs[l]
  BY <1>0, <1>2, NetNoNode DEF Inv, TypeOK
<1>7. Upstream(attrs')
  BY <1>5, <1>6, InLink DEF Inv, Upstream
<1>8. Siblings(attrs')
  BY <1>5, <1>6 DEF Inv, Siblings
<1> QED BY <1>1, <1>2, <1>3, <1>4, <1>7, <1>8, IdleKeeps DEF Inv, TypeOK

LEMMA SetParameterStep == ASSUME Inv, NEW n \in Node, SetParameter(n) PROVE Inv'
<1>1. goal = NoLink /\ stack = <<>> /\ calls' \in 0 .. MaxCalls
  BY CallBasics DEF SetParameter
<1>2. /\ attrs' = Erased(attrs, {n}) /\ version' = [version EXCEPT ![n] = calls']
      /\ position' = [m \in Source |-> IF m = n THEN 0 ELSE position[m]]
      /\ UNCHANGED <<fast, slot, queue, lastNonData, goal, stack>>
  BY DEF SetParameter, Rewound, linkVars, pullVars
<1>3. attrs' \in [Link -> SUBSET Token] /\ Upstream(attrs') /\ Siblings(attrs')
  BY <1>2, ErasedKeeps DEF Inv, TypeOK
<1>4. version' \in [Node -> 0 .. MaxCalls] /\ position' \in [Source -> Nat]
  BY <1>1, <1>2 DEF Inv, TypeOK
<1>5. LinkTypes' /\ SlotOrQueue' /\ lastNonData' \in Sentinel
  BY <1>2 DEF Inv, TypeOK, LinkTypes, SlotOrQueue
<1> QED BY <1>1, <1>2, <1>3, <1>4, <1>5, IdleKeeps

(* The nodes that a read of the output ports os configures. *)
LEMMA UnconfiguredNodes ==
  ASSUME NEW a, NEW os, os \subseteq OutputPort PROVE Unconfigured(a, os) \subseteq Node
BY GraphAssumption DEF Unconfigured

LEMMA GetAttributeStep == ASSUME Inv, NEW o \in OutputPort, GetAttribute(o) PROVE Inv'
<1>1. goal = NoLink /\ stack = <<>> /\ calls' \in 0 .. MaxCalls
  BY CallBasics DEF GetAttribute
<1>2. Configure(attrs, Unconfigured(attrs, {o}), {}) /\ UNCHANGED <<version, lastNonData, goal, stack>>
  BY DEF GetAttribute, pullVars
<1>3. /\ attrs \in [Link -> SUBSET Token] /\ Upstream(attrs) /\ Siblings(attrs)
      /\ version \in [Node -> 0 .. MaxCalls] /\ lastNonData \in Sentinel
  BY DEF Inv, TypeOK
<1>5. {} \in SUBSET Link /\ Unconfigured(attrs, {o}) \subseteq Node
  BY UnconfiguredNodes
<1>4. /\ LinkTypes' /\ SlotOrQueue'
      /\ attrs' \in [Link -> SUBSET Token] /\ position' \in [Source -> Nat]
      /\ Upstream(attrs') /\ Siblings(attrs')
  BY <1>2, <1>3, <1>5, ConfigureKeeps
<1> QED BY <1>1, <1>2, <1>3, <1>4, IdleKeeps

LEMMA GetDataStep == ASSUME Inv, NEW o \in OutputPort, GetData(o) PROVE Inv'
<1>1. calls' \in 0 .. MaxCalls
  BY CallBasics DEF GetData
<1>2. /\ Configure(attrs, Unconfigured(attrs, {o}), {}) /\ UNCHANGED <<version, lastNonData>>
      /\ goal' = o /\ stack' = <<>>
  BY DEF GetData
<1>3. /\ attrs \in [Link -> SUBSET Token] /\ Upstream(attrs) /\ Siblings(attrs)
      /\ version \in [Node -> 0 .. MaxCalls] /\ lastNonData \in Sentinel
  BY DEF Inv, TypeOK
<1>9. {} \in SUBSET Link /\ Unconfigured(attrs, {o}) \subseteq Node
  BY UnconfiguredNodes
<1>4. /\ LinkTypes' /\ SlotOrQueue'
      /\ attrs' \in [Link -> SUBSET Token] /\ position' \in [Source -> Nat]
      /\ Upstream(attrs') /\ Siblings(attrs')
      /\ \A l \in Link : attrs[l] # None \/ From[l] \in Unconfigured(attrs, {o}) => attrs'[l] # None
  BY <1>2, <1>3, <1>9, ConfigureKeeps
<1>5. o \in Link /\ o # NoLink
  BY GraphAssumption
<1>6. attrs'[o] # None
  <2>1. CASE attrs[o] # None
    BY <1>4, <1>5, <2>1
  <2>2. CASE attrs[o] = None
    <3>1. From[o] \in Unconfigured(attrs, {o})
      BY <2>2 DEF Unconfigured
    <3> QED BY <1>4, <1>5, <3>1
  <2> QED BY <2>1, <2>2
<1>7. GoalConfigured'
  BY <1>2, <1>5, <1>6 DEF GoalConfigured
<1>8. TypeOK'
  BY <1>1, <1>2, <1>3, <1>4 DEF TypeOK, LinkTypes
<1> QED BY <1>2, <1>4, <1>7, <1>8 DEF Inv

LEMMA ResetStep == ASSUME Inv, Reset PROVE Inv'
<1> DEFINE e == Erased(attrs, Entry)
<1>1. goal = NoLink /\ stack = <<>> /\ calls' \in 0 .. MaxCalls
  BY CallBasics DEF Reset
<1>2. Configure(e, Unconfigured(e, OutputPort), InputPort) /\ UNCHANGED <<version, lastNonData, goal, stack>>
  BY DEF Reset, pullVars
<1>3. /\ attrs \in [Link -> SUBSET Token] /\ Upstream(attrs) /\ Siblings(attrs)
      /\ version \in [Node -> 0 .. MaxCalls] /\ lastNonData \in Sentinel
  BY DEF Inv, TypeOK
<1>4. e \in [Link -> SUBSET Token] /\ Upstream(e) /\ Siblings(e)
  BY <1>3, ErasedKeeps DEF Entry
<1>5. InputPort \in SUBSET Link
  BY DEF InputPort, OutSet
<1>7. Unconfigured(e, OutputPort) \subseteq Node
  BY UnconfiguredNodes
<1> HIDE DEF e
<1>6. /\ LinkTypes' /\ SlotOrQueue'
      /\ attrs' \in [Link -> SUBSET Token] /\ position' \in [Source -> Nat]
      /\ Upstream(attrs') /\ Siblings(attrs')
  BY <1>2, <1>4, <1>5, <1>7, ConfigureKeeps
<1> QED BY <1>1, <1>2, <1>3, <1>6, IdleKeeps

-----------------------------------------------------------------------------
(* Steps of a pull.                                                        *)

(* The link a pull reads is a configured one: the output port's, or one of *)
(* the inputs of a node that works for a configured link.                  *)
LEMMA DemandedFact ==
  ASSUME Inv, Wanting
  PROVE  /\ Demanded \in Link /\ attrs[Demanded] # None
         /\ stack = <<>> => Demanded = goal
<1>1. CASE stack = <<>>
  BY <1>1, GraphAssumption DEF Wanting, Demanded, Inv, TypeOK, GoalConfigured
<1>2. CASE stack # <<>>
  <2> DEFINE f == stack[1]
  <2>1. Head(stack) = f /\ 1 \in DOMAIN stack /\ f \in Frames
    BY <1>2, Popped DEF Inv, TypeOK
  <2>2. f.node \in Node /\ f.reads \in Nat /\ f.reads # Len(Inputs[f.node])
    BY <1>2, <2>1 DEF Frames, Wanting, Complete
  <2>3. f.reads <= Len(Inputs[f.node]) /\ \E l \in OutSet(f.node) : attrs[l] # None
    BY <2>1 DEF Inv, Working
  <2> HIDE DEF f
  <2>4. Inputs[f.node] \in Seq(Link)
    BY <2>2, GraphAssumption
  <2>5. f.reads + 1 \in DOMAIN Inputs[f.node]
    BY <2>2, <2>3, <2>4
  <2>6. Demanded = Inputs[f.node][f.reads + 1]
    BY <1>2, <2>1 DEF Demanded
  <2>7. Demanded \in InSet(f.node)
    BY <2>5, <2>6 DEF InSet
  <2>8. attrs[Demanded] # None
    BY <2>2, <2>3, <2>7 DEF Inv, Upstream, OutSet
  <2> QED BY <1>2, <2>2, <2>7, <2>8, InLink
<1> QED BY <1>1, <1>2

(* The invariant after a step of a pull under way, from what the step does. *)
LEMMA PullKeeps ==
  ASSUME Inv, LinkTypes', SlotOrQueue', position' \in [Source -> Nat], lastNonData' \in Sentinel,
         UNCHANGED <<attrs, version, calls, goal>>, goal # NoLink,
         stack' \in Seq(Frames), \A i \in DOMAIN stack' : Working(stack'[i])
  PROVE  Inv'
<1>1. TypeOK'
  BY DEF Inv, TypeOK, LinkTypes
<1>2. Upstream(attrs') /\ Siblings(attrs') /\ GoalConfigured'
  BY DEF Inv, GoalConfigured
<1>3. \A i \in DOMAIN stack' : Working(stack[i])'
  BY DEF Working
<1> QED BY <1>1, <1>2, <1>3 DEF Inv
LEMMA TakeStep == ASSUME Inv, Take PROVE Inv'
<1> DEFINE d == First(Demanded)
<1>1. LinkTypes /\ SlotOrQueue /\ Wanting /\ goal # NoLink
  BY DEF Inv, TypeOK, LinkTypes, Take, Wanting
<1>2. Demanded \in Link
  BY <1>1, DemandedFact
<1>3. d \in Packets /\ LinkTypes' /\ SlotOrQueue'
  BY <1>1, <1>2, TakeKeeps DEF Take
<1>4. UNCHANGED <<attrs, version, position, lastNonData, calls>>
  BY DEF Take
<1> HIDE DEF d
<1>5. CASE stack = <<>>
  <2>1. goal' = NoLink /\ stack' = <<>>
    BY <1>5 DEF Take
  <2> QED BY <1>3, <1>4, <2>1, IdleKeeps DEF Inv, TypeOK
<1>6. CASE stack # <<>>
  <2> DEFINE f == stack[1]
             g == With(f, d)
  <2>1. /\ Head(stack) = f /\ 1 \in DOMAIN stack /\ f \in Frames /\ Tail(stack) \in Seq(Frames)
        /\ \A i \in DOMAIN Tail(stack) : i + 1 \in DOMAIN stack /\ Tail(stack)[i] = stack[i + 1]
    BY <1>6, Popped DEF Inv, TypeOK
  <2>2. goal' = goal /\ stack' = <<g>> \o Tail(stack)
    BY <1>6, <2>1 DEF Take, d
  <2>3. f.reads # Len(Inputs[f.node]) /\ Working(f)
    BY <1>1, <1>6, <2>1 DEF Wanting, Complete, Inv
  <2>4. g \in Frames /\ g.node = f.node /\ g.reads = f.reads + 1
    <3> DEFINE null == IF f.null = Empty /\ d \in Sentinel THEN d ELSE f.null
    <3>1. d.from \in SUBSET Stamp
      BY <1>3 DEF Packets
    <3>2. f.node \in Node /\ f.from \cup d.from \in SUBSET Stamp /\ f.reads + 1 \in Nat /\ null \in Sentinel \cup {Empty}
      BY <2>1, <3>1 DEF Frames
    <3>3. g = [node |-> f.node, reads |-> f.reads + 1, from |-> f.from \cup d.from, null |-> null]
      BY DEF With
    <3>4. g \in Frames
      BY <3>2, <3>3 DEF Frames
    <3> QED BY <3>3, <3>4
  <2>5. Len(Inputs[f.node]) \in Nat /\ f.reads \in Nat
    BY <2>1, GraphAssumption DEF Frames
  <2>6. Working(g)
    BY <2>3, <2>4, <2>5 DEF Working
  <2>7. stack' \in Seq(Frames)
        /\ \A i \in DOMAIN stack' : stack'[i] = g \/ \E j \in DOMAIN Tail(stack) : stack'[i] = Tail(stack)[j]
    BY <2>1, <2>2, <2>4, Pushed
  <2>8. \A i \in DOMAIN stack' : Working(stack'[i])
    BY <2>1, <2>6, <2>7 DEF Inv
  <2>9. position' \in [Source -> Nat] /\ lastNonData' \in Sentinel
    BY <1>4 DEF Inv, TypeOK
  <2> QED BY <1>1, <1>3, <1>4, <2>2, <2>7, <2>8, <2>9, PullKeeps
<1> QED BY <1>5, <1>6

LEMMA WorkStep == ASSUME Inv, Work PROVE Inv'
<1> DEFINE g == Frame(From[Demanded])
<1>1. Wanting /\ From[Demanded] \in Node /\ goal # NoLink
  BY DEF Work, Wanting
<1>2. Demanded \in Link /\ attrs[Demanded] # None
  BY <1>1, DemandedFact
<1>3. /\ stack' = <<g>> \o stack
      /\ UNCHANGED <<fast, slot, queue, attrs, version, position, lastNonData, goal, calls>>
  BY DEF Work, linkVars
<1>4. g \in Frames /\ g.node = From[Demanded] /\ g.reads = 0
  BY <1>1 DEF Frame, Frames
<1>5. Working(g)
  <2>1. Len(Inputs[g.node]) \in Nat
    BY <1>1, <1>4, GraphAssumption
  <2> QED BY <1>2, <1>4, <2>1 DEF Working, OutSet
<1> HIDE DEF g
<1>6. stack \in Seq(Frames) /\ \A i \in DOMAIN stack : Working(stack[i])
  BY DEF Inv, TypeOK
<1>7. /\ stack' \in Seq(Frames)
      /\ \A i \in DOMAIN stack' : stack'[i] = g \/ \E j \in DOMAIN stack : stack'[i] = stack[j]
  BY <1>3, <1>4, <1>6, Pushed
<1>8. \A i \in DOMAIN stack' : Working(stack'[i])
  BY <1>5, <1>6, <1>7
<1>9. LinkTypes' /\ SlotOrQueue' /\ position' \in [Source -> Nat] /\ lastNonData' \in Sentinel
  BY <1>3 DEF Inv, TypeOK, LinkTypes, SlotOrQueue
<1> QED BY <1>1, <1>3, <1>7, <1>8, <1>9, PullKeeps

LEMMA RepeatNonDataStep == ASSUME Inv, RepeatNonData PROVE Inv'
<1>1. goal # NoLink /\ Input(Demanded, lastNonData) /\ calls' = calls
  BY DEF RepeatNonData, Wanting
<1>2. LinkTypes /\ SlotOrQueue /\ lastNonData \in Sentinel /\ lastNonData \in Packets
  BY SentinelPackets DEF Inv, TypeOK, LinkTypes
<1>3. LinkTypes' /\ SlotOrQueue' /\ lastNonData' \in Sentinel
  BY <1>1, <1>2, InputKeeps
<1>4. UNCHANGED <<attrs, version, position, goal, stack>>
  BY <1>1 DEF Input, pullVars
<1>5. position' \in [Source -> Nat] /\ stack' \in Seq(Frames) /\ \A i \in DOMAIN stack' : Working(stack'[i])
  BY <1>4 DEF Inv, TypeOK
<1> QED BY <1>1, <1>3, <1>4, <1>5, PullKeeps

LEMMA PutStep == ASSUME Inv, Put PROVE Inv'
<1> DEFINE f == stack[1]
           n == f.node
           d == IF n \in Source THEN Read(n) ELSE Merged(f)
<1>1. /\ Head(stack) = f /\ f \in Frames /\ Tail(stack) \in Seq(Frames)
      /\ \A i \in DOMAIN Tail(stack) : i + 1 \in DOMAIN stack /\ Tail(stack)[i] = stack[i + 1]
  BY Popped DEF Put, Inv, TypeOK
<1>2. /\ PutOn(OutSet(n), d) /\ stack' = Tail(stack)
      /\ position' = IF n \in Source THEN Advanced(n) ELSE position
      /\ UNCHANGED <<attrs, version, lastNonData, goal, calls>>
  BY <1>1 DEF Put
<1>3. LinkTypes /\ SlotOrQueue /\ position \in [Source -> Nat] /\ lastNonData \in Sentinel
      /\ version \in [Node -> 0 .. MaxCalls] /\ goal # NoLink
  BY DEF Inv, TypeOK, LinkTypes, GoalConfigured, Put
<1>4. n \in Node /\ f.from \in SUBSET Stamp /\ f.null \in Sentinel \cup {Empty}
  BY <1>1 DEF Frames
<1>5. ASSUME n \in Source PROVE Read(n) \in Packets
  <2>1. <<n, version[n], position[n]>> \in Stamp
    BY <1>3, <1>4, <1>5 DEF Stamp
  <2>2. Data({<<n, version[n], position[n]>>}) \in Packets
    BY <2>1 DEF Data, Made, Packets
  <2>3. Eos \in Packets
    BY DEF Eos, Made, Packets
  <2> QED BY <2>2, <2>3 DEF Read
<1>6. Merged(f) \in Packets
  <2>1. Data(f.from) \in Packets
    BY <1>4 DEF Data, Made, Packets
  <2> QED BY <1>4, <2>1, SentinelPackets DEF Merged
<1>7. d \in Packets
  BY <1>5, <1>6
<1>8. position' \in [Source -> Nat]
  <2>1. CASE n \in Source
    <3>1. position' = [position EXCEPT ![n] = IF @ < SourceLength THEN @ + 1 ELSE @]
      BY <1>2, <2>1 DEF Advanced
    <3> QED BY <1>3, <2>1, <3>1
  <2> QED BY <1>2, <1>3, <2>1
<1> HIDE DEF d, n, f
<1>9. LinkTypes' /\ SlotOrQueue'
  BY <1>2, <1>3, <1>7, PutOnKeeps
<1>10. stack' \in Seq(Frames) /\ \A i \in DOMAIN stack' : Working(stack'[i])
  BY <1>1, <1>2 DEF Inv
<1> QED BY <1>2, <1>3, <1>8, <1>9, <1>10, PullKeeps

-----------------------------------------------------------------------------
(* Invariance.                                                             *)

LEMMA Initially == Init => Inv
<1> SUFFICES ASSUME Init PROVE Inv
  OBVIOUS
<1>1. TypeOK
  <2>1. slot \in [Link -> Packets \cup {Empty}] /\ queue \in [Link -> Seq(Packets)]
    BY DEF Init
  <2>2. attrs \in [Link -> SUBSET Token] /\ fast \in [Link -> BOOLEAN]
    BY DEF Init, None
  <2>3. version \in [Node -> 0 .. MaxCalls] /\ position \in [Source -> Nat] /\ calls \in 0 .. MaxCalls
    BY BoundAssumption DEF Init
  <2>4. lastNonData \in Sentinel /\ goal \in OutputPort \cup {NoLink} /\ stack \in Seq(Frames)
    BY DEF Init, Sentinel
  <2> QED BY <2>1, <2>2, <2>3, <2>4 DEF TypeOK
<1>2. SlotOrQueue
  BY DEF Init, SlotOrQueue
<1>3. Upstream(attrs) /\ Siblings(attrs)
  BY DEF Init, Upstream, Siblings
<1>4. GoalConfigured /\ \A i \in DOMAIN stack : Working(stack[i])
  BY DEF Init, GoalConfigured
<1> QED BY <1>1, <1>2, <1>3, <1>4 DEF Inv

LEMMA Stutter == ASSUME Inv, UNCHANGED vars PROVE Inv'
<1>1. UNCHANGED <<fast, slot, queue, attrs, version, position, lastNonData, goal, stack, calls>>
  BY DEF vars, linkVars, pullVars
<1>2. TypeOK' /\ SlotOrQueue'
  BY <1>1 DEF Inv, TypeOK, SlotOrQueue
<1>3. GoalConfigured' /\ Upstream(attrs') /\ Siblings(attrs')
  BY <1>1 DEF Inv, GoalConfigured
<1>4. \A i \in DOMAIN stack' : Working(stack[i])'
  BY <1>1 DEF Inv, Working
<1> QED BY <1>2, <1>3, <1>4 DEF Inv

LEMMA Inductive == ASSUME Inv, [Next]_vars PROVE Inv'
<1>1. ASSUME NEW i \in InputPort, PutData(i) \/ PutEos(i) \/ PutOod(i) \/ PutAttributes(i) PROVE Inv'
  BY <1>1, PutDataStep, PutAttributesStep
<1>2. ASSUME NEW n \in Tunable, SetParameter(n) PROVE Inv'
  BY <1>2, SetParameterStep, GraphAssumption
<1>3. ASSUME NEW o \in OutputPort, GetAttribute(o) \/ GetData(o) PROVE Inv'
  BY <1>3, GetAttributeStep, GetDataStep
<1>4. ASSUME PullStep PROVE Inv'
  BY <1>4, TakeStep, WorkStep, RepeatNonDataStep, PutStep DEF PullStep
<1>5. ASSUME Finished \/ UNCHANGED vars PROVE Inv'
  BY <1>5, Stutter DEF Finished
<1> QED BY <1>1, <1>2, <1>3, <1>4, <1>5, ResetStep DEF Next, ClientStep

LEMMA Invariance == Spec => []Inv
<1>1. Init => Inv
  BY Initially
<1>2. Inv /\ [Next]_vars => Inv'
  BY Inductive
<1> QED BY <1>1, <1>2, PTL DEF Spec

(* Every link, queue, call of work() and counter stays what its type says. *)
THEOREM TypeCorrect == Spec => []TypeOK
<1>1. Inv => TypeOK
  BY DEF Inv
<1> QED BY <1>1, Invariance, PTL

(* Whatever is put, taken, reset or reconfigured, a link never has a packet *)
(* in its slot while packets put before it wait in its queue (Link.hh:72-119). *)
THEOREM LinksKeepOrder == Spec => []SlotOrQueue
<1>1. Inv => SlotOrQueue
  BY DEF Inv
<1> QED BY <1>1, Invariance, PTL

(* It is enough that the network looks at the link of an output port to     *)
(* decide whether anything has to be configured (Network.hh:377).           *)
THEOREM UpstreamConfigured == Spec => []ConfiguredUpstream
<1>1. Inv => ConfiguredUpstream
  BY DEF Inv, Upstream, ConfiguredUpstream
<1> QED BY <1>1, Invariance, PTL

(* A pull never runs work() of a node that is not configured.               *)
THEOREM WorkConfigured == Spec => []WorksConfigured
<1>1. Inv => WorksConfigured
  <2> SUFFICES ASSUME Inv, NEW i \in DOMAIN stack, NEW l \in OutSet(stack[i].node)
               PROVE  attrs[l] # None
    BY DEF WorksConfigured
  <2>1. stack[i].node \in Node
    <3>1. stack \in Seq(Frames)
      BY DEF Inv, TypeOK
    <3>2. stack[i] \in Frames
      BY <3>1
    <3> QED BY <3>2 DEF Frames
  <2>2. PICK k \in OutSet(stack[i].node) : attrs[k] # None
    BY DEF Inv, Working
  <2>3. l \in Link /\ k \in Link /\ From[l] = From[k] /\ From[l] \in Node
    BY <2>1, <2>2 DEF OutSet
  <2>4. Siblings(attrs)
    BY DEF Inv
  <2> QED BY <2>2, <2>3, <2>4 DEF Siblings
<1> QED BY <1>1, Invariance, PTL

-----------------------------------------------------------------------------
(* Attributes are up to date.                                              *)

(* AttributesCurrent, for attributes a and parameter values v.             *)
Current(a, v) ==
  \A l \in Link : From[l] \in Node /\ a[l] # None =>
    a[l] = {<<From[l], v[From[l]]>>} \cup UNION {a[k] : k \in InSet(From[l])}

(* Erasing what is downstream of ns leaves attributes that do not depend   *)
(* on the parameters of ns.                                                *)
LEMMA ErasedCurrent ==
  ASSUME NEW a \in [Link -> SUBSET Token], NEW ns, ns \subseteq Node, NEW v, NEW w,
         \A m \in Node \ ns : w[m] = v[m], Current(a, v)
  PROVE  Current(Erased(a, ns), w)
<1> DEFINE e == Erased(a, ns)
<1>1. \A l \in Link : e[l] = IF From[l] \in Successors(ns) THEN None ELSE a[l]
  BY DEF Erased
<1> HIDE DEF e
<1>2. ASSUME NEW l \in Link, From[l] \in Node, e[l] # None
      PROVE  e[l] = {<<From[l], w[From[l]]>>} \cup UNION {e[k] : k \in InSet(From[l])}
  <2>1. From[l] \notin Successors(ns) /\ e[l] = a[l] /\ a[l] # None
    BY <1>1, <1>2
  <2>2. From[l] \notin ns
    BY <2>1, SuccessorsRoots
  <2>3. \A k \in InSet(From[l]) : e[k] = a[k]
    BY <1>1, <1>2, <2>1, InLink, SuccessorsClosed
  <2>4. a[l] = {<<From[l], v[From[l]]>>} \cup UNION {a[k] : k \in InSet(From[l])}
    BY <1>2, <2>1 DEF Current
  <2>5. w[From[l]] = v[From[l]]
    BY <1>2, <2>2
  <2> QED BY <2>1, <2>3, <2>4, <2>5
<1> QED BY <1>2 DEF Current, e

(* The inputs whose nodes node n configures.                               *)
AskedInputs(a, n) == {k \in InSet(n) : a[k] = None /\ From[k] \in Node}

(* What the configuration of n reaches is n itself and what that of the    *)
(* nodes it configures reaches.                                            *)
LEMMA ConeUnfolds ==
  ASSUME NEW a, NEW n \in Node
  PROVE  Cone(a, {n}) = {n} \cup UNION {Cone(a, {From[k]}) : k \in AskedInputs(a, n)}
<1> DEFINE C == Cone(a, {n})
           D == {n} \cup UNION {Cone(a, {From[k]}) : k \in AskedInputs(a, n)}
           Closed(s) == \A m \in s : \A l \in InSet(m) : a[l] = None /\ From[l] \in Node => From[l] \in s
<1>1. D \subseteq Node
  <2>1. \A k \in AskedInputs(a, n) : Cone(a, {From[k]}) \subseteq Node
    BY DEF Cone
  <2> QED BY <2>1
<1>2. Closed(D)
  <2> SUFFICES ASSUME NEW m \in D, NEW l \in InSet(m), a[l] = None, From[l] \in Node
               PROVE  From[l] \in D
    OBVIOUS
  <2>1. CASE m = n
    <3>1. l \in AskedInputs(a, n)
      BY <2>1 DEF AskedInputs
    <3>2. From[l] \in Cone(a, {From[l]})
      BY ConeRoots
    <3> QED BY <3>1, <3>2
  <2>2. ASSUME NEW k \in AskedInputs(a, n), m \in Cone(a, {From[k]}) PROVE From[l] \in D
    <3>1. From[l] \in Cone(a, {From[k]})
      BY <2>2, ConeClosed
    <3> QED BY <3>1
  <2> QED BY <2>1, <2>2
<1>3. C \subseteq D
  <2>1. \A m \in C : \A s \in SUBSET Node : {n} \subseteq s /\ Closed(s) => m \in s
    BY DEF Cone
  <2>2. D \in SUBSET Node /\ {n} \subseteq D
    BY <1>1
  <2> HIDE DEF C, D
  <2> QED BY <1>2, <2>1, <2>2
<1>4. D \subseteq C
  <2>1. n \in C
    BY ConeRoots
  <2>2. ASSUME NEW k \in AskedInputs(a, n), NEW m \in Cone(a, {From[k]}) PROVE m \in C
    <3>1. k \in InSet(n) /\ a[k] = None /\ From[k] \in Node
      BY DEF AskedInputs
    <3>2. From[k] \in C
      BY <2>1, <3>1, ConeClosed
    <3>3. C \subseteq Node
      BY ConeRoots
    <3>4. Closed(C)
      BY ConeClosed
    <3>5. \A s \in SUBSET Node : {From[k]} \subseteq s /\ Closed(s) => m \in s
      BY DEF Cone
    <3> HIDE DEF C
    <3> QED BY <3>2, <3>3, <3>4, <3>5
  <2> QED BY <2>1, <2>2
<1> QED BY <1>3, <1>4

(* The attributes a node derives are its own, those of its inputs that     *)
(* have some, and those that are derived for its other inputs.             *)
LEMMA DerivedUnfolds ==
  ASSUME NEW a, NEW n \in Node
  PROVE  Derived(a, n) = {<<n, version[n]>>} \cup (UNION {InputAttrs(a, k) : k \in InSet(n)})
                           \cup (UNION {Derived(a, From[k]) : k \in AskedInputs(a, n)})
<1> DEFINE own(m) == {<<m, version[m]>>}
           given(m) == UNION {InputAttrs(a, l) : l \in InSet(m)}
           cone(m) == Cone(a, {m})
           all(m) == UNION {own(i) \cup given(i) : i \in cone(m)}
<1>1. \A m : Derived(a, m) = all(m)
  BY DEF Derived
<1>2. cone(n) = {n} \cup UNION {cone(From[k]) : k \in AskedInputs(a, n)}
  BY ConeUnfolds
<1> HIDE DEF cone, given, own
<1>3. all(n) = own(n) \cup given(n) \cup UNION {all(From[k]) : k \in AskedInputs(a, n)}
  BY <1>2
<1> HIDE DEF all
<1>4. Derived(a, n) = own(n) \cup given(n) \cup UNION {Derived(a, From[k]) : k \in AskedInputs(a, n)}
  BY <1>1, <1>3
<1>5. own(n) = {<<n, version[n]>>} /\ given(n) = UNION {InputAttrs(a, k) : k \in InSet(n)}
  BY DEF own, given
<1> QED BY <1>4, <1>5

(* Nodes that have attributes are not configured again.                    *)
LEMMA ConeUnconfigured ==
  ASSUME NEW a, Siblings(a), NEW os, os \subseteq OutputPort,
         NEW l \in Link, a[l] # None
  PROVE  From[l] \notin Cone(a, Unconfigured(a, os))
<1> DEFINE s == {m \in Node : \A k \in Link : From[k] = m => a[k] = None}
<1>1. Unconfigured(a, os) \subseteq s
  <2> SUFFICES ASSUME NEW o \in os, a[o] = None PROVE From[o] \in s
    BY DEF Unconfigured
  <2>1. o \in Link /\ From[o] \in Node
    BY GraphAssumption
  <2> QED BY <2>1 DEF Siblings
<1>2. \A m \in s : \A k \in InSet(m) : a[k] = None /\ From[k] \in Node => From[k] \in s
  BY InLink DEF Siblings
<1>3. Cone(a, Unconfigured(a, os)) \subseteq s
  <2>1. s \in SUBSET Node
    OBVIOUS
  <2> HIDE DEF s
  <2> QED BY <1>1, <1>2, <2>1 DEF Cone
<1> QED BY <1>3

(* Configuring the nodes that the output ports os need brings attributes   *)
(* up to date that were so where there were any.                           *)
LEMMA ConfiguredCurrent ==
  ASSUME NEW a \in [Link -> SUBSET Token], Upstream(a), Siblings(a), Current(a, version),
         NEW os, os \subseteq OutputPort
  PROVE  Current(Configured(a, Cone(a, Unconfigured(a, os))), version)
<1> DEFINE cone == Cone(a, Unconfigured(a, os))
           c == Configured(a, cone)
<1>0. cone \subseteq Node /\ \A l \in Link : a[l] # None => From[l] \notin cone
  BY ConeRoots, ConeUnconfigured, UnconfiguredNodes
<1>1. /\ \A l \in Link : From[l] \in cone => c[l] = Derived(a, From[l])
      /\ \A l \in Link : From[l] \notin cone => c[l] = IF AsksNetwork(a, cone) THEN InputAttrs(a, l) ELSE a[l]
  BY DEF Configured
<1>2. ASSUME NEW m \in cone, NEW l \in InSet(m), a[l] = None, From[l] \in Node PROVE From[l] \in cone
  BY <1>2, ConeClosed
<1> HIDE DEF c, cone
<1>3. ASSUME NEW l \in Link, a[l] # None PROVE c[l] = a[l] /\ InputAttrs(a, l) = a[l]
  <2>1. InputAttrs(a, l) = a[l]
    BY <1>3 DEF InputAttrs
  <2> QED BY <1>0, <1>1, <1>3, <2>1
<1>4. ASSUME NEW l \in Link, From[l] \in Node, c[l] # None, From[l] \notin cone
      PROVE  c[l] = {<<From[l], version[From[l]]>>} \cup UNION {c[k] : k \in InSet(From[l])}
  <2>1. c[l] = a[l] /\ a[l] # None
    BY <1>1, <1>4, NetNoNode DEF InputAttrs
  <2>2. \A k \in InSet(From[l]) : c[k] = a[k]
    BY <1>3, <1>4, <2>1, InLink DEF Upstream
  <2> QED BY <1>4, <2>1, <2>2 DEF Current
<1>5. ASSUME NEW l \in Link, From[l] \in cone
      PROVE  c[l] = {<<From[l], version[From[l]]>>} \cup UNION {c[k] : k \in InSet(From[l])}
  <2> DEFINE n == From[l]
             own == {<<n, version[n]>>}
             asked == AskedInputs(a, n)
  <2>1. n \in Node /\ c[l] = Derived(a, n)
    BY <1>0, <1>1, <1>5
  <2>2. Derived(a, n) = own \cup (UNION {InputAttrs(a, k) : k \in InSet(n)})
                            \cup (UNION {Derived(a, From[k]) : k \in asked})
    BY <2>1, DerivedUnfolds
  <2>3. ASSUME NEW k \in asked PROVE k \in InSet(n) /\ c[k] = Derived(a, From[k]) /\ InputAttrs(a, k) = {}
    <3>1. k \in InSet(n) /\ k \in Link /\ a[k] = None /\ From[k] \in Node
      BY <2>1, InLink DEF AskedInputs
    <3>2. From[k] \in cone
      BY <1>2, <1>5, <3>1
    <3> QED BY <1>1, <3>1, <3>2, NetNoNode DEF InputAttrs, None
  <2>4. ASSUME NEW k \in InSet(n), k \notin asked PROVE c[k] = InputAttrs(a, k)
    <3>0. k \in Link /\ From[k] \in Node \cup {Net}
      BY <2>1, InLink, GraphAssumption
    <3>1. CASE a[k] # None
      BY <1>3, <3>0, <3>1
    <3>2. CASE a[k] = None
      <4>1. From[k] = Net
        BY <2>4, <3>0, <3>2 DEF AskedInputs
      <4>2. AsksNetwork(a, cone)
        BY <1>5, <3>2, <4>1 DEF AsksNetwork
      <4>3. From[k] \notin cone
        BY <1>0, <4>1, NetNoNode
      <4> QED BY <1>1, <3>0, <4>2, <4>3
    <3> QED BY <3>1, <3>2
  <2> HIDE DEF n, own, asked
  <2>5. UNION {c[k] : k \in InSet(n)}
          = (UNION {InputAttrs(a, k) : k \in InSet(n)}) \cup (UNION {Derived(a, From[k]) : k \in asked})
    <3> DEFINE given(k) == InputAttrs(a, k)
               made(k) == Derived(a, From[k])
    <3>1. \A k \in asked : k \in InSet(n) /\ c[k] = made(k) /\ given(k) = {}
      BY <2>3
    <3>2. \A k \in InSet(n) : k \notin asked => c[k] = given(k)
      BY <2>4
    <3> HIDE DEF given, made
    <3>3. UNION {c[k] : k \in InSet(n)}
            = (UNION {given(k) : k \in InSet(n)}) \cup (UNION {made(k) : k \in asked})
      <4>1. ASSUME NEW k \in InSet(n), NEW t \in c[k]
            PROVE  t \in (UNION {given(j) : j \in InSet(n)}) \cup (UNION {made(j) : j \in asked})
        BY <3>1, <3>2, <4>1
      <4>2. ASSUME NEW k \in InSet(n), NEW t \in given(k)
            PROVE  t \in UNION {c[j] : j \in InSet(n)}
        BY <3>1, <3>2, <4>2
      <4>3. ASSUME NEW k \in asked, NEW t \in made(k)
            PROVE  t \in UNION {c[j] : j \in InSet(n)}
        BY <3>1, <4>3
      <4> QED BY <4>1, <4>2, <4>3
    <3> QED BY <3>3 DEF given, made
  <2> QED BY <2>1, <2>2, <2>5 DEF n, own
<1>6. Current(c, version)
  BY <1>4, <1>5 DEF Current
<1> QED BY <1>6 DEF c, cone

(* Attributes are kept up to date by every step of a client that puts      *)
(* attributes before the network is configured, as CorpusVisitor does.     *)
LEMMA CurrentStep ==
  ASSUME ~LateAttributes, Inv, Current(attrs, version), [Next]_vars
  PROVE  Current(attrs, version)'
<1>0. attrs \in [Link -> SUBSET Token] /\ Upstream(attrs) /\ Siblings(attrs)
      /\ version \in [Node -> 0 .. MaxCalls]
  BY DEF Inv, TypeOK
<1>1. ASSUME UNCHANGED <<attrs, version>> PROVE Current(attrs, version)'
  BY <1>1 DEF Current
<1>2. ASSUME NEW a \in [Link -> SUBSET Token], Upstream(a), Siblings(a), Current(a, version),
             NEW os, os \subseteq OutputPort, NEW cleared, Configure(a, Unconfigured(a, os), cleared),
             version' = version
      PROVE  Current(attrs, version)'
  <2>1. attrs' = Configured(a, Cone(a, Unconfigured(a, os)))
    BY <1>2 DEF Configure
  <2>2. Current(attrs', version)
    BY <1>2, <2>1, ConfiguredCurrent
  <2>3. Current(attrs', version')
    BY <1>2, <2>2
  <2> QED BY <2>3 DEF Current
<1>3. ASSUME NEW i \in InputPort, PutAttributes(i) PROVE Current(attrs, version)'
  <2>1. i \in Link /\ From[i] = Net
    BY DEF InputPort, OutSet
  <2>2. attrs' = [attrs EXCEPT ![i] = {<<Net, calls'>>}] /\ \A l \in Link \ InputPort : attrs[l] = None
    BY <1>3 DEF PutAttributes
  <2>3. ASSUME NEW l \in Link, From[l] \in Node PROVE attrs'[l] = None
    <3>1. l \notin InputPort /\ l # i
      BY <2>1, <2>3, NetNoNode DEF InputPort, OutSet
    <3> QED BY <1>0, <2>2, <3>1
  <2> QED BY <2>3 DEF Current
<1>4. ASSUME NEW n \in Tunable, SetParameter(n) PROVE Current(attrs, version)'
  <2>1. attrs' = Erased(attrs, {n}) /\ version' = [version EXCEPT ![n] = calls'] /\ n \in Node
    BY <1>4, GraphAssumption DEF SetParameter
  <2>2. \A m \in Node \ {n} : version'[m] = version[m]
    BY <1>0, <2>1
  <2>3. Current(Erased(attrs, {n}), version')
    <3> DEFINE a == attrs
               v == version
               w == version'
               ns == {n}
    <3>1. a \in [Link -> SUBSET Token] /\ ns \subseteq Node /\ Current(a, v)
      BY <1>0, <2>1
    <3>2. \A m \in Node \ ns : w[m] = v[m]
      BY <2>2
    <3> HIDE DEF a, v, w, ns
    <3>3. Current(Erased(a, ns), w)
      BY <3>1, <3>2, ErasedCurrent
    <3> QED BY <3>3 DEF a, w, ns
  <2> QED BY <2>1, <2>3 DEF Current
<1>5. ASSUME NEW o \in OutputPort, GetAttribute(o) \/ GetData(o) PROVE Current(attrs, version)'
  <2>1. Configure(attrs, Unconfigured(attrs, {o}), {}) /\ version' = version
    BY <1>5 DEF GetAttribute, GetData
  <2>2. {o} \subseteq OutputPort
    OBVIOUS
  <2> QED BY <1>0, <1>2, <2>1, <2>2
<1>6. CASE Reset
  <2> DEFINE e == Erased(attrs, Entry)
  <2>1. Configure(e, Unconfigured(e, OutputPort), InputPort) /\ version' = version
    BY <1>6 DEF Reset
  <2>2. Entry \subseteq Node
    BY DEF Entry
  <2>3. e \in [Link -> SUBSET Token] /\ Upstream(e) /\ Siblings(e)
    BY <1>0, <2>2, ErasedKeeps
  <2>4. Current(e, version)
    BY <1>0, <2>2, ErasedCurrent
  <2> HIDE DEF e
  <2> QED BY <1>2, <2>1, <2>3, <2>4
<1>7. ASSUME PullStep \/ Finished \/ UNCHANGED vars PROVE UNCHANGED <<attrs, version>>
  BY <1>7 DEF PullStep, Take, Work, RepeatNonData, Input, Put, Finished, vars
<1>8. ASSUME NEW i \in InputPort, PutData(i) \/ PutEos(i) \/ PutOod(i) PROVE UNCHANGED <<attrs, version>>
  BY <1>8 DEF PutData, PutEos, PutOod, Input
<1> QED BY <1>1, <1>3, <1>4, <1>5, <1>6, <1>7, <1>8 DEF Next, ClientStep

(* However parameters are set and the network is reset, the attributes of  *)
(* a link are those its node would put there now (AbstractNode.cc:100), if *)
(* attributes are put at the input ports before the network is configured. *)
THEOREM AttributesUpToDate ==
  ASSUME ~LateAttributes
  PROVE  Spec => []AttributesCurrent
<1>1. Init => Current(attrs, version)
  BY DEF Init, Current
<1>2. Inv /\ Current(attrs, version) /\ [Next]_vars => Current(attrs, version)'
  BY CurrentStep
<1>3. Spec => []Current(attrs, version)
  BY <1>1, <1>2, Invariance, PTL DEF Spec
<1>4. Current(attrs, version) => AttributesCurrent
  BY DEF Current, AttributesCurrent
<1> QED BY <1>3, <1>4, PTL

-----------------------------------------------------------------------------
(* One stream.                                                             *)

(* The theorem is about networks of this kind: a link ends at one input    *)
(* port of one node or at one output port, there are no cycles, and the    *)
(* data come from one input port or from one source.  With two origins     *)
(* there is no single log. A parameter in the middle of the graph clears   *)
(* the links below it and leaves those beside it (Node.cc:251-255), and    *)
(* attributes that are put on a configured network clear the link of the   *)
(* port and leave all others: a packet is lost on one way through the      *)
(* graph that another way still holds.                                     *)

OneEnd ==
  /\ \A n, m \in Node : \A i \in DOMAIN Inputs[n], j \in DOMAIN Inputs[m] :
       Inputs[n][i] = Inputs[m][j] => n = m /\ i = j
  /\ \A n \in Node : InSet(n) \cap OutputPort = {}

Ranks(h) ==
  h \in [Node -> Nat] /\ \A n \in Node : \A l \in InSet(n) : From[l] \in Node => h[From[l]] < h[n]
Acyclic == \E h : Ranks(h)
Rank == CHOOSE h : Ranks(h)

FromPort   == (\E i : InputPort = {i}) /\ Source = {} /\ Tunable = {} /\ ~LateAttributes
FromSource == InputPort = {} /\ (\E s : Source = {s}) /\ Tunable \subseteq Source
OneOrigin == FromPort \/ FromSource

Streaming == OneEnd /\ Acyclic /\ OneOrigin

(* p is the part of L after position a and up to position b.               *)
Part(p, L, a, b) ==
  /\ a <= b /\ Len(p) = b - a
  /\ \A j \in 1 .. b - a : p[j] = L[a + j]

Longer(M, L) == Len(L) <= Len(M) /\ \A j \in 1 .. Len(L) : M[j] = L[j]

Whole == {Data(s) : s \in SUBSET Stamp} \cup Sentinel

Logged == log[Origin]
Pending(l) == IF slot[l] # Empty THEN <<slot[l]>> ELSE queue[l]
Live(l) == From[l] = Net \/ attrs[l] # None
Carries(l, a, b) == Part(Pending(l), Logged, a, b)
Reads(n, i) == IF \E k \in DOMAIN stack : stack[k].node = n /\ stack[k].reads >= i THEN 1 ELSE 0

(* A frame of a node that has put m packets has read the next one, from    *)
(* all the links it has read so far.                                       *)
HasRead(f, m, L) ==
  IF f.reads = 0 THEN f.from = {} /\ f.null = Empty
  ELSE /\ m < Len(L) /\ f.from = L[m + 1].from
       /\ f.null = IF L[m + 1] \in Sentinel THEN L[m + 1] ELSE Empty

(* made counts what each node has put since the last restart.  A link      *)
(* holds what the node it comes from has put and the node it leads to has  *)
(* not read, all in terms of the origin's packets.                         *)
Counts(made) ==
  /\ made \in [Node \cup {Net} -> Nat] /\ made[Origin] = Len(Logged)
  /\ \A n \in Node : made[n] <= Len(Logged)
Outside(made) ==
  \A o \in OutputPort : IF Live(o) THEN Carries(o, seen[o], made[From[o]]) ELSE seen[o] = 0
Inside(made) ==
  \A n \in Node : \A i \in DOMAIN Inputs[n] :
    Live(Inputs[n][i]) => Carries(Inputs[n][i], made[n] + Reads(n, i), made[From[Inputs[n][i]]])
Still(made) == \A n \in Node \ {Origin} : (\A l \in OutSet(n) : attrs[l] = None) => made[n] = 0
Reading(made) == \A k \in DOMAIN stack : HasRead(stack[k], made[stack[k].node], Logged)

FlowsBy(made) == Counts(made) /\ Outside(made) /\ Inside(made) /\ Still(made) /\ Reading(made)

(* A source without attributes will restart, and so will all links.        *)
Running == Origin = Net \/ \E l \in Link : attrs[l] # None
SourceFirst ==
  Origin \in Node /\ (\E l \in Link : attrs[l] # None) => \A l \in OutSet(Origin) : attrs[l] # None

(* The calls under way go upstream.                                        *)
Upwards == \A j, k \in DOMAIN stack : j < k => Rank[stack[j].node] < Rank[stack[k].node]

Histories ==
  /\ log \in [Source \cup {Net} -> Seq(Whole)]
  /\ seen \in [OutputPort -> Nat] /\ result \in [OutputPort -> Packets]

Kept == Histories /\ Upwards /\ SourceFirst /\ (Running => \E made : FlowsBy(made))
SInv == Inv /\ Kept

(* What is left to show of a step: the history is the abstract stream's.   *)
Streams == [Stream!Next]_(Stream!vars)

-----------------------------------------------------------------------------
(* Parts of a sequence.                                                    *)

(* An empty sequence is the part between a position and itself.            *)
LEMMA PartEmpty == ASSUME NEW L, NEW a \in Nat PROVE Part(<<>>, L, a, a)
BY DEF Part

(* A part grows at its end, by the element that follows in the whole.      *)
LEMMA PartAppend ==
  ASSUME NEW S, NEW p \in Seq(S), NEW d \in S, NEW L \in Seq(S), NEW M \in Seq(S), NEW a \in Nat, NEW b \in Nat,
         Part(p, L, a, b), b <= Len(L), Longer(M, L), b < Len(M), M[b + 1] = d
  PROVE  Part(Append(p, d), M, a, b + 1)
<1> DEFINE q == Append(p, d)
<1>0. Len(q) = Len(p) + 1 /\ Len(p) \in Nat
  OBVIOUS
<1>1. a <= b /\ Len(p) = b - a /\ Len(q) = (b + 1) - a
  BY <1>0 DEF Part
<1>2. ASSUME NEW j \in 1 .. (b + 1) - a PROVE q[j] = M[a + j]
  <2>1. CASE j = Len(p) + 1
    <3>1. a + j = b + 1 /\ q[j] = d
      BY <1>1, <2>1
    <3> QED BY <3>1
  <2>2. CASE j # Len(p) + 1
    <3>1. j \in 1 .. b - a /\ j \in 1 .. Len(p) /\ a + j \in 1 .. Len(L)
      BY <1>1, <2>2
    <3>2. q[j] = p[j] /\ p[j] = L[a + j] /\ M[a + j] = L[a + j]
      BY <3>1 DEF Part, Longer
    <3> QED BY <3>2
  <2> QED BY <2>1, <2>2
<1> HIDE DEF q
<1> QED BY <1>1, <1>2 DEF Part, q

(* A part that is not empty begins with the element after its start.       *)
LEMMA PartTail ==
  ASSUME NEW S, NEW p \in Seq(S), NEW L, NEW a \in Nat, NEW b \in Nat, Part(p, L, a, b), p # <<>>
  PROVE  a < b /\ Head(p) = L[a + 1] /\ Part(Tail(p), L, a + 1, b)
<1>1. a <= b /\ Len(p) = b - a /\ Len(p) # 0 /\ Len(p) \in Nat
  BY DEF Part
<1>2. 1 \in 1 .. b - a /\ Head(p) = p[1] /\ Len(Tail(p)) = b - (a + 1)
  BY <1>1
<1>3. ASSUME NEW j \in 1 .. b - (a + 1) PROVE Tail(p)[j] = L[(a + 1) + j]
  <2>1. j + 1 \in 1 .. b - a /\ Tail(p)[j] = p[j + 1] /\ (a + 1) + j = a + (j + 1)
    BY <1>1
  <2> QED BY <2>1 DEF Part
<1> QED BY <1>1, <1>2, <1>3 DEF Part

(* What is part of a sequence is part of a longer one.                     *)
LEMMA PartLonger ==
  ASSUME NEW p, NEW L, NEW M, NEW a \in Nat, NEW b \in Nat,
         Part(p, L, a, b), b <= Len(L), Len(L) \in Nat, Longer(M, L)
  PROVE  Part(p, M, a, b)
<1>1. ASSUME NEW j \in 1 .. b - a PROVE p[j] = M[a + j]
  <2>1. a + j \in 1 .. Len(L)
    OBVIOUS
  <2> QED BY <2>1 DEF Part, Longer
<1> QED BY <1>1 DEF Part

-----------------------------------------------------------------------------
(* The graph.                                                              *)

(* Without cycles every node has a rank above those it reads from.         *)
LEMMA RankIs == ASSUME Acyclic PROVE Ranks(Rank)
BY DEF Acyclic, Rank

(* Any set of nodes has one that reads from no other of them.              *)
LEMMA Lowest ==
  ASSUME Acyclic, NEW S, S \subseteq Node, S # {}
  PROVE  \E n \in S : \A m \in S : ~(Rank[m] < Rank[n])
<1> DEFINE R == {Rank[n] : n \in S}
<1>1. Rank \in [Node -> Nat]
  BY RankIs DEF Ranks
<1>2. R \subseteq Nat /\ R # {}
  BY <1>1
<1>3. PICK x \in R : \A y \in R : <<y, x>> \notin OpToRel(<, Nat)
  <2> HIDE DEF R
  <2> QED BY <1>2, WFMin, NatLessThanWellFounded
<1>4. PICK n \in S : x = Rank[n]
  BY <1>3
<1>5. ASSUME NEW m \in S, Rank[m] < Rank[n] PROVE FALSE
  <2>1. Rank[m] \in Nat /\ Rank[n] \in Nat /\ Rank[m] \in R
    BY <1>1
  <2> DEFINE p == <<Rank[m], Rank[n]>>
  <2>2. p \in Nat \X Nat /\ p[1] = Rank[m] /\ p[2] = Rank[n]
    BY <2>1
  <2>3. p \in OpToRel(<, Nat)
    <3> HIDE DEF p
    <3> QED BY <1>5, <2>2 DEF OpToRel
  <2> QED BY <1>3, <1>4, <2>1, <2>3
<1> QED BY <1>5

(* Where the data come from.                                               *)
LEMMA OriginIs ==
  ASSUME OneOrigin
  PROVE  /\ FromPort => Origin = Net /\ InputPort = OutSet(Origin)
         /\ FromSource => Origin \in Node /\ Source = {Origin} /\ Inputs[Origin] = <<>>
         /\ Origin \in Source \cup {Net} /\ Origin \in Node \cup {Net}
         /\ \A l \in Link : From[l] \in Node \/ (From[l] = Net /\ Origin = Net)
<1>1. CASE FromPort
  <2>1. Origin = Net /\ InputPort = OutSet(Origin)
    BY <1>1 DEF FromPort, Origin, InputPort
  <2>2. ~FromSource
    BY <1>1 DEF FromPort, FromSource
  <2> QED BY <2>1, <2>2, GraphAssumption
<1>2. CASE FromSource
  <2>1. PICK s : Source = {s}
    BY <1>2 DEF FromSource
  <2>2. Origin = s
    BY <1>2, <2>1 DEF FromSource, Origin
  <2>3. s \in Node /\ Inputs[s] = <<>>
    BY <2>1 DEF Source
  <2>4. \A l \in Link : From[l] # Net
    BY <1>2 DEF FromSource, InputPort, OutSet
  <2>5. ~FromPort
    BY <1>2 DEF FromPort, FromSource
  <2> QED BY <2>1, <2>2, <2>3, <2>4, <2>5, GraphAssumption
<1> QED BY <1>1, <1>2 DEF OneOrigin

(* A node that is not a source has a link at its first input port.         *)
LEMMA FirstInput ==
  ASSUME NEW n \in Node, n \notin Source
  PROVE  1 \in DOMAIN Inputs[n] /\ Inputs[n][1] \in InSet(n) /\ Inputs[n][1] \in Link
<1>1. Inputs[n] \in Seq(Link) /\ Inputs[n] # <<>>
  BY GraphAssumption DEF Source
<1>2. 1 \in DOMAIN Inputs[n] /\ Inputs[n][1] \in Link
  BY <1>1
<1> QED BY <1>2 DEF InSet

(* Every node is downstream of where the data come from.                   *)
LEMMA SuccessorsAll ==
  ASSUME Acyclic, NEW ns, ns \subseteq Node,
         \A n \in Node : n \in ns \/ \E l \in InSet(n) : From[l] \in Node
  PROVE  Node \subseteq Successors(ns)
<1> DEFINE S == Node \ Successors(ns)
<1>1. SUFFICES ASSUME S # {} PROVE FALSE
  OBVIOUS
<1>2. PICK n \in S : \A m \in S : ~(Rank[m] < Rank[n])
  BY <1>1, Lowest
<1>3. n \in Node /\ n \notin ns
  BY <1>2, SuccessorsRoots
<1>4. PICK l \in InSet(n) : From[l] \in Node
  BY <1>3
<1>5. Rank[From[l]] < Rank[n]
  BY <1>3, <1>4, RankIs DEF Ranks
<1>6. From[l] \in Successors(ns)
  BY <1>2, <1>4, <1>5
<1>7. n \in Successors(ns)
  BY <1>3, <1>6, SuccessorsClosed
<1> QED BY <1>2, <1>7

(* While nothing has attributes, configuring anything configures a source. *)
LEMMA ConeReachesSource ==
  ASSUME Acyclic, FromSource, NEW a, \A l \in Link : a[l] = None,
         NEW ns, ns \subseteq Node, Cone(a, ns) # {}
  PROVE  Origin \in Cone(a, ns)
<1> DEFINE C == Cone(a, ns)
<1>1. C \subseteq Node
  BY ConeRoots
<1>2. PICK n \in C : \A m \in C : ~(Rank[m] < Rank[n])
  <2> HIDE DEF C
  <2> QED BY <1>1, Lowest DEF C
<1>3. SUFFICES ASSUME n \notin Source PROVE FALSE
  BY <1>2, OriginIs DEF OneOrigin
<1> DEFINE l == Inputs[n][1]
<1>4. n \in Node /\ l \in InSet(n) /\ l \in Link
  BY <1>1, <1>2, <1>3, FirstInput
<1>5. From[l] \in Node
  BY <1>4, OriginIs, NetNoNode DEF OneOrigin
<1> HIDE DEF l
<1>6. From[l] \in C
  BY <1>2, <1>4, <1>5, ConeClosed
<1>7. Rank[From[l]] < Rank[n]
  BY <1>4, <1>5, RankIs DEF Ranks
<1> QED BY <1>2, <1>6, <1>7

(* A node that is configured has links, and none of them has attributes.   *)
LEMMA ConeStill ==
  ASSUME NEW a, Siblings(a), NEW os, os \subseteq OutputPort, NEW m \in Cone(a, Unconfigured(a, os))
  PROVE  m \in Node /\ OutSet(m) # {} /\ \A l \in OutSet(m) : a[l] = None
<1> DEFINE s == {n \in Node : OutSet(n) # {}}
<1>1. Unconfigured(a, os) \subseteq s
  <2> SUFFICES ASSUME NEW o \in os PROVE From[o] \in s
    BY DEF Unconfigured
  <2> QED BY GraphAssumption DEF OutSet
<1>2. \A n \in s : \A k \in InSet(n) : a[k] = None /\ From[k] \in Node => From[k] \in s
  BY InLink DEF OutSet
<1>3. Cone(a, Unconfigured(a, os)) \subseteq s
  <2>1. s \in SUBSET Node
    OBVIOUS
  <2> HIDE DEF s
  <2> QED BY <1>1, <1>2, <2>1 DEF Cone
<1> QED BY <1>3, ConeUnconfigured DEF OutSet
-----------------------------------------------------------------------------
(* Links.                                                                  *)

(* A packet is available on a link exactly when one is pending there.      *)
LEMMA PendingIs ==
  ASSUME LinkTypes, SlotOrQueue, NEW l \in Link
  PROVE  Pending(l) \in Seq(Packets) /\ (Available(l) <=> Pending(l) # <<>>)
<1>1. slot[l] \in Packets \cup {Empty} /\ queue[l] \in Seq(Packets) /\ (slot[l] # Empty => queue[l] = <<>>)
  BY DEF LinkTypes, SlotOrQueue
<1>2. CASE slot[l] # Empty
  BY <1>1, <1>2 DEF Pending, Available
<1>3. CASE slot[l] = Empty
  BY <1>1, <1>3 DEF Pending, Available
<1> QED BY <1>2, <1>3

(* putData adds a packet behind those pending, whatever moves between slot *)
(* and queue.                                                              *)
LEMMA PutOnPending ==
  ASSUME LinkTypes, SlotOrQueue, NEW ls, NEW d \in Packets, PutOn(ls, d), NEW l \in Link
  PROVE  Pending(l)' = IF l \in ls THEN Append(Pending(l), d) ELSE Pending(l)
<1>1. slot[l] \in Packets \cup {Empty} /\ queue[l] \in Seq(Packets) /\ (slot[l] # Empty => queue[l] = <<>> /\ fast[l])
  BY DEF LinkTypes, SlotOrQueue
<1>2. d # Empty
  BY EmptyNoPacket
<1>3. CASE l \notin ls
  BY <1>3 DEF PutOn, Pending
<1>4. CASE l \in ls /\ ToSlot(l)
  <2>1. slot'[l] = d /\ slot[l] = Empty /\ queue[l] = <<>>
    BY <1>4 DEF PutOn, ToSlot
  <2>2. Pending(l)' = <<d>> /\ Pending(l) = <<>>
    BY <1>2, <2>1 DEF Pending
  <2> QED BY <1>4, <2>2
<1>5. CASE l \in ls /\ Spills(l)
  <2>1. slot'[l] = Empty /\ queue'[l] = <<slot[l], d>> /\ slot[l] # Empty
    BY <1>5 DEF PutOn, ToSlot, Spills
  <2>2. Pending(l)' = <<slot[l], d>> /\ Pending(l) = <<slot[l]>>
    BY <2>1 DEF Pending
  <2> QED BY <1>5, <2>2
<1>6. CASE l \in ls /\ ~ToSlot(l) /\ ~Spills(l)
  <2>1. slot'[l] = slot[l] /\ queue'[l] = Append(queue[l], d)
    BY <1>6 DEF PutOn
  <2>2. slot[l] = Empty
    BY <1>1, <1>6 DEF Spills
  <2> QED BY <1>6, <2>1, <2>2 DEF Pending
<1> QED BY <1>3, <1>4, <1>5, <1>6

(* getData removes the first of the packets pending.                       *)
LEMMA TakePending ==
  ASSUME LinkTypes, SlotOrQueue, NEW l \in Link, Available(l), TakeFrom(l)
  PROVE  /\ Pending(l) # <<>> /\ First(l) = Head(Pending(l))
         /\ \A k \in Link : Pending(k)' = IF k = l THEN Tail(Pending(l)) ELSE Pending(k)
<1>1. /\ slot \in [Link -> Packets \cup {Empty}] /\ queue \in [Link -> Seq(Packets)]
      /\ queue[l] \in Seq(Packets) /\ (slot[l] # Empty => queue[l] = <<>> /\ fast[l])
  BY DEF LinkTypes, SlotOrQueue
<1>2. CASE FromSlot(l)
  <2>1. /\ First(l) = slot[l] /\ slot' = [slot EXCEPT ![l] = Empty] /\ queue' = queue
        /\ slot[l] # Empty /\ queue[l] = <<>>
    BY <1>1, <1>2 DEF First, TakeFrom, FromSlot
  <2>2. Pending(l) = <<slot[l]>> /\ Pending(l)' = <<>>
    BY <1>1, <2>1 DEF Pending
  <2>3. \A k \in Link : k # l => Pending(k)' = Pending(k)
    BY <1>1, <2>1 DEF Pending
  <2> QED BY <2>1, <2>2, <2>3
<1>3. CASE ~FromSlot(l)
  <2>1. /\ First(l) = Head(queue[l]) /\ slot' = slot /\ queue' = [queue EXCEPT ![l] = Tail(@)]
        /\ slot[l] = Empty /\ queue[l] # <<>>
    BY <1>1, <1>3 DEF First, TakeFrom, FromSlot, Available
  <2>2. Pending(l) = queue[l] /\ Pending(l)' = Tail(queue[l])
    BY <1>1, <2>1 DEF Pending
  <2>3. \A k \in Link : k # l => Pending(k)' = Pending(k)
    BY <1>1, <2>1 DEF Pending
  <2> QED BY <2>1, <2>2, <2>3
<1> QED BY <1>2, <1>3

-----------------------------------------------------------------------------
(* Packets.                                                                *)

(* What the origin puts are packets.                                       *)
LEMMA WholePackets == Whole \subseteq Packets
<1>1. Sentinel \subseteq Packets
  BY SentinelPackets
<1>2. ASSUME NEW s \in SUBSET Stamp PROVE Data(s) \in Packets
  BY DEF Data, Made, Packets
<1> QED BY <1>1, <1>2 DEF Whole

(* A packet of the origin is a sentinel, or data that its stamps determine. *)
LEMMA WholeIs ==
  ASSUME NEW d \in Whole
  PROVE  d # Empty /\ d.from \in SUBSET Stamp /\ (d \notin Sentinel => d = Data(d.from))
<1>1. CASE d \in Sentinel
  BY <1>1 DEF Sentinel, Eos, Ood, Made, Empty
<1>2. CASE d \notin Sentinel
  <2>1. PICK s \in SUBSET Stamp : d = Data(s)
    BY <1>2 DEF Whole
  <2>2. d.from = s /\ d.kind = "data" /\ Empty.kind = "empty"
    BY <2>1 DEF Data, Made, Empty
  <2> QED BY <2>1, <2>2
<1> QED BY <1>1, <1>2

(* The log holds packets that the origin can put.                          *)
LEMMA LoggedIs ==
  ASSUME Histories, OneOrigin
  PROVE  /\ Logged \in Seq(Whole) /\ Logged \in Seq(Packets) /\ Len(Logged) \in Nat
         /\ \A j \in 1 .. Len(Logged) : Logged[j] \in Whole
<1>1. Logged \in Seq(Whole)
  BY OriginIs DEF Histories, Logged
<1>2. \A j \in 1 .. Len(Logged) : Logged[j] \in Whole
  BY <1>1
<1>3. Logged \in Seq(Packets) /\ Len(Logged) \in Nat
  <2>1. Logged \in Seq(Packets)
    <3> DEFINE q == Logged
    <3>1. q \in Seq(Whole) /\ Whole \subseteq Packets
      BY <1>1, WholePackets
    <3> HIDE DEF q
    <3>2. q \in Seq(Packets)
      BY <3>1
    <3> QED BY <3>2 DEF q
  <2> QED BY <1>1, <2>1
<1> QED BY <1>1, <1>2, <1>3

(* The counts at the ends of a link.                                       *)
LEMMA CountAt ==
  ASSUME OneOrigin, Histories, NEW made, Counts(made), NEW l \in Link
  PROVE  made[From[l]] \in Nat /\ made[From[l]] <= Len(Logged)
<1>1. From[l] \in Node \/ From[l] = Origin
  BY OriginIs
<1>2. From[l] \in Node \cup {Net} /\ Origin \in Node \cup {Net}
  BY OriginIs, GraphAssumption
<1>3. Len(Logged) \in Nat
  BY LoggedIs
<1> QED BY <1>1, <1>2, <1>3 DEF Counts

(* A link at an input port of a node.                                      *)
LEMMA InputLink ==
  ASSUME NEW n \in Node, NEW i \in DOMAIN Inputs[n]
  PROVE  Inputs[n][i] \in Link /\ Inputs[n][i] \in InSet(n) /\ i \in Nat \ {0}
         /\ i <= Len(Inputs[n])
<1>1. Inputs[n] \in Seq(Link)
  BY GraphAssumption
<1> QED BY <1>1 DEF InSet

(* A link is read at most once for each packet that a node puts.           *)
LEMMA ReadsIs == ASSUME NEW n, NEW i PROVE Reads(n, i) \in {0, 1}
BY DEF Reads

-----------------------------------------------------------------------------
(* Packets put.                                                            *)

(* Node or port p puts d on all its links: the origin's next packet for p, *)
(* of which p has read a copy from each link at its own inputs.            *)
Puts(made, next, p, d) ==
  /\ PutOn(OutSet(p), d) /\ attrs' = attrs /\ seen' = seen
  /\ next = [made EXCEPT ![p] = @ + 1]
  /\ Logged' \in Seq(Packets) /\ Longer(Logged', Logged) /\ next[Origin] = Len(Logged')
  /\ made[p] < Len(Logged') /\ Logged'[made[p] + 1] = d
  /\ \A n \in Node : \A i \in DOMAIN Inputs[n] : next[n] + Reads(n, i)' = made[n] + Reads(n, i)
  /\ p = Origin \/ \E l \in OutSet(p) : attrs[l] # None
  /\ \A k \in DOMAIN stack' : \E j \in DOMAIN stack : stack'[k] = stack[j] /\ stack[j].node # p

(* A put keeps the links in step with the counts.                          *)
LEMMA PutFlows ==
  ASSUME OneOrigin, LinkTypes, SlotOrQueue, Histories, stack \in Seq(Frames),
         NEW made, NEW next, FlowsBy(made),
         NEW p \in Node \cup {Net}, NEW d \in Packets, Puts(made, next, p, d)
  PROVE  FlowsBy(next)'
<1> USE DEF Puts
<1>1. /\ Logged \in Seq(Packets) /\ Len(Logged) \in Nat /\ Len(Logged') \in Nat
      /\ made \in [Node \cup {Net} -> Nat] /\ next \in [Node \cup {Net} -> Nat]
      /\ next[p] = made[p] + 1 /\ \A n \in Node \cup {Net} : n # p => next[n] = made[n]
      /\ Counts(made) /\ Outside(made) /\ Inside(made) /\ Still(made) /\ Reading(made)
  BY LoggedIs DEF FlowsBy, Counts
<1>2. Counts(next)'
  <2>1. ASSUME NEW n \in Node PROVE next[n] <= Len(Logged')
    <3>1. made[n] <= Len(Logged) /\ Len(Logged) <= Len(Logged') /\ made[n] \in Nat
      BY <1>1 DEF Counts, Longer
    <3> QED BY <1>1, <3>1
  <2> QED BY <1>1, <2>1 DEF Counts
<1>3. ASSUME NEW l \in Link, NEW a \in Nat, Carries(l, a, made[From[l]])
      PROVE  Carries(l, a, next[From[l]])'
  <2> DEFINE b == made[From[l]]
  <2>1. Pending(l) \in Seq(Packets) /\ b \in Nat /\ b <= Len(Logged) /\ Part(Pending(l), Logged, a, b)
    BY <1>1, <1>3, PendingIs, CountAt DEF Carries
  <2>2. Pending(l)' = IF l \in OutSet(p) THEN Append(Pending(l), d) ELSE Pending(l)
    BY PutOnPending
  <2>3. From[l] \in Node \cup {Net}
    BY GraphAssumption
  <2>4. CASE l \in OutSet(p)
    <3>1. From[l] = p /\ next[From[l]] = b + 1 /\ b < Len(Logged') /\ Logged'[b + 1] = d
      BY <1>1, <2>4 DEF OutSet
    <3> HIDE DEF b
    <3>2. Part(Append(Pending(l), d), Logged', a, b + 1)
      BY <1>1, <2>1, <3>1, PartAppend
    <3> QED BY <2>2, <2>4, <3>1, <3>2 DEF Carries
  <2>5. CASE l \notin OutSet(p)
    <3>1. next[From[l]] = b
      BY <1>1, <2>3, <2>5 DEF OutSet
    <3> HIDE DEF b
    <3>2. Part(Pending(l), Logged', a, b)
      BY <1>1, <2>1, PartLonger
    <3> QED BY <2>2, <2>5, <3>1, <3>2 DEF Carries
  <2> QED BY <2>4, <2>5
<1>4. \A l \in Link : Live(l)' = Live(l)
  BY DEF Live
<1>5. Outside(next)'
  <2> SUFFICES ASSUME NEW o \in OutputPort
               PROVE  IF Live(o)' THEN Carries(o, seen[o], next[From[o]])' ELSE seen'[o] = 0
    BY DEF Outside
  <2>1. o \in Link /\ seen[o] \in Nat
    BY GraphAssumption DEF Histories
  <2>2. IF Live(o) THEN Carries(o, seen[o], made[From[o]]) ELSE seen[o] = 0
    BY <1>1 DEF Outside
  <2> DEFINE a == seen[o]
  <2>3. seen'[o] = a
    OBVIOUS
  <2>4. CASE Live(o)
    <3>1. a \in Nat /\ Carries(o, a, made[From[o]])
      BY <2>1, <2>2, <2>4
    <3> HIDE DEF a
    <3>2. Part(Pending(o)', Logged', a, next[From[o]])
      <4>1. PICK c \in Nat : c = a
        BY <3>1
      <4>2. Carries(o, c, next[From[o]])'
        BY <1>3, <2>1, <3>1, <4>1
      <4> QED BY <4>1, <4>2 DEF Carries
    <3>3. Carries(o, seen[o], next[From[o]])'
      BY <2>3, <3>2 DEF Carries
    <3> QED BY <1>4, <2>1, <2>4, <3>3
  <2>5. CASE ~Live(o)
    BY <1>4, <2>1, <2>2, <2>3, <2>5
  <2> QED BY <2>4, <2>5
<1>6. Inside(next)'
  <2> SUFFICES ASSUME NEW n \in Node, NEW i \in DOMAIN Inputs[n], Live(Inputs[n][i])'
               PROVE  Carries(Inputs[n][i], next[n] + Reads(n, i), next[From[Inputs[n][i]]])'
    BY DEF Inside
  <2> DEFINE l == Inputs[n][i]
  <2>1. l \in Link
    BY InputLink
  <2>2. Live(l)
    BY <1>4, <2>1
  <2>3. Carries(l, made[n] + Reads(n, i), made[From[l]])
    BY <1>1, <2>2 DEF Inside
  <2>4. made[n] + Reads(n, i) \in Nat
    <3>1. made[n] \in Nat /\ Reads(n, i) \in {0, 1}
      BY <1>1, ReadsIs
    <3> QED BY <3>1
  <2>5. PICK c \in Nat : c = made[n] + Reads(n, i)
    BY <2>4
  <2> HIDE DEF l
  <2>6. Carries(l, c, next[From[l]])'
    BY <1>3, <2>1, <2>3, <2>5
  <2>7. c = next[n] + Reads(n, i)'
    BY <2>5
  <2> QED BY <2>6, <2>7 DEF l, Carries
<1>7. Still(next)'
  <2> SUFFICES ASSUME NEW n \in Node \ {Origin}, \A l \in OutSet(n) : attrs'[l] = None
               PROVE  next[n] = 0
    BY DEF Still
  <2>1. n # p /\ made[n] = 0
    BY <1>1 DEF Still
  <2> QED BY <1>1, <2>1
<1>8. Reading(next)'
  <2> SUFFICES ASSUME NEW k \in DOMAIN stack'
               PROVE  HasRead(stack'[k], next[stack'[k].node], Logged')
    BY DEF Reading
  <2>1. PICK j \in DOMAIN stack : stack'[k] = stack[j] /\ stack[j].node # p
    OBVIOUS
  <2> DEFINE f == stack[j]
  <2>2. f \in Frames
    OBVIOUS
  <2>3. f.node \in Node
    BY <2>2 DEF Frames
  <2> DEFINE m == made[f.node]
  <2>4. m \in Nat /\ HasRead(f, m, Logged) /\ next[f.node] = m
    BY <1>1, <2>1, <2>3 DEF Reading
  <2> HIDE DEF f, m
  <2>5. m < Len(Logged) => m < Len(Logged') /\ Logged'[m + 1] = Logged[m + 1]
    BY <1>1, <2>4 DEF Longer
  <2>6. HasRead(f, m, Logged')
    BY <2>4, <2>5 DEF HasRead
  <2> QED BY <2>1, <2>4, <2>6 DEF f
<1> QED BY <1>2, <1>5, <1>6, <1>7, <1>8 DEF FlowsBy

(* After a restart nothing has been put or read.                           *)
Blank ==
  /\ Logged = <<>> /\ seen = [o \in OutputPort |-> 0] /\ stack = <<>>
  /\ \A l \in Link : Live(l) => Pending(l) = <<>>
Flowing == \E made : FlowsBy(made)

(* A blank network flows, with all counts at zero.                         *)
LEMMA Restarted == OneOrigin /\ Blank => Flowing
<1> SUFFICES ASSUME OneOrigin, Blank PROVE Flowing
  OBVIOUS
<1>1. PICK made : made = [n \in Node \cup {Net} |-> 0]
  OBVIOUS
<1>2. made \in [Node \cup {Net} -> Nat] /\ \A n \in Node \cup {Net} : made[n] = 0
  BY <1>1
<1>3. Len(Logged) = 0 /\ Origin \in Node \cup {Net}
  BY OriginIs DEF Blank
<1>4. Counts(made)
  BY <1>2, <1>3 DEF Counts
<1>5. \A n, i : Reads(n, i) = 0
  BY DEF Reads, Blank
<1>6. ASSUME NEW l \in Link, Live(l) PROVE Carries(l, 0, made[From[l]])
  <2>1. made[From[l]] = 0 /\ Pending(l) = <<>>
    BY <1>2, <1>6, GraphAssumption DEF Blank
  <2> QED BY <2>1, PartEmpty DEF Carries
<1>7. Outside(made)
  BY <1>6, GraphAssumption DEF Outside, Blank
<1>8. Inside(made)
  <2> SUFFICES ASSUME NEW n \in Node, NEW i \in DOMAIN Inputs[n], Live(Inputs[n][i])
               PROVE  Carries(Inputs[n][i], made[n] + Reads(n, i), made[From[Inputs[n][i]]])
    BY DEF Inside
  <2>1. made[n] + Reads(n, i) = 0 /\ Inputs[n][i] \in Link
    BY <1>2, <1>5, InputLink
  <2> QED BY <1>6, <2>1
<1>9. Still(made) /\ Reading(made)
  BY <1>2 DEF Still, Reading, Blank
<1> QED BY <1>4, <1>7, <1>8, <1>9 DEF FlowsBy, Flowing

(* The same of the state after a step.                                     *)
LEMMA RestartedNext == OneOrigin /\ Blank' => Flowing'
<1>1. (OneOrigin /\ Blank => Flowing)'
  BY Restarted, PTL
<1> QED BY <1>1

(* A packet that is put at the input port begins the next step of the      *)
(* stream.                                                                 *)
LEMMA InputStreams ==
  ASSUME Streaming, SInv, NEW i \in InputPort, NEW d \in Whole, Input(i, d)
  PROVE  Kept' /\ Streams
<1>1. OneOrigin /\ FromPort /\ Origin = Net /\ InputPort = OutSet(Net)
  <2>1. OneOrigin /\ ~FromSource
    BY DEF Streaming, FromSource
  <2> QED BY <2>1, OriginIs DEF OneOrigin
<1>2. {i} = OutSet(Net)
  BY <1>1 DEF FromPort
<1>3. /\ LinkTypes /\ SlotOrQueue /\ Histories /\ stack \in Seq(Frames) /\ Upwards /\ SourceFirst
  BY DEF SInv, Kept, Inv, TypeOK, LinkTypes
<1>4. PICK made : FlowsBy(made)
  BY <1>1 DEF SInv, Kept, Running
<1>5. /\ PutOn(OutSet(Net), d) /\ log' = [log EXCEPT ![Net] = Append(@, d)]
      /\ attrs' = attrs /\ stack' = stack /\ seen' = seen /\ result' = result /\ goal' = goal
  BY <1>2 DEF Input, pullVars
<1>6. log \in [Source \cup {Net} -> Seq(Whole)] /\ Net \in Source \cup {Net}
  BY <1>3 DEF Histories
<1>7. Logged' = Append(Logged, d) /\ Logged \in Seq(Whole)
  BY <1>1, <1>5, <1>6 DEF Logged
<1>8. Logged \in Seq(Packets) /\ d \in Packets
  BY <1>1, <1>3, LoggedIs, WholePackets
<1>9. Histories'
  <2>1. Append(log[Net], d) \in Seq(Whole)
    BY <1>6
  <2>2. log' \in [Source \cup {Net} -> Seq(Whole)]
    BY <1>5, <1>6, <2>1
  <2> QED BY <1>3, <1>5, <2>2 DEF Histories
<1>10. PICK next : next = [made EXCEPT ![Net] = @ + 1]
  OBVIOUS
<1>11. /\ made \in [Node \cup {Net} -> Nat] /\ made[Net] = Len(Logged)
       /\ next[Net] = Len(Logged) + 1 /\ \A n \in Node : next[n] = made[n]
  BY <1>1, <1>4, <1>10, NetNoNode DEF FlowsBy, Counts
<1> DEFINE M == Logged'
           L == Logged
<1>12. /\ M \in Seq(Packets) /\ Longer(M, L) /\ next[Origin] = Len(M)
       /\ made[Net] < Len(M) /\ M[made[Net] + 1] = d
  <2>1. M = Append(L, d) /\ L \in Seq(Packets) /\ d \in Packets
    BY <1>7, <1>8
  <2> HIDE DEF M, L
  <2>2. M \in Seq(Packets) /\ Len(M) = Len(L) + 1 /\ Len(L) \in Nat /\ Longer(M, L) /\ M[Len(L) + 1] = d
    BY <2>1 DEF Longer
  <2> QED BY <1>1, <1>11, <2>2 DEF L
<1>13. \A n \in Node : \A j \in DOMAIN Inputs[n] : next[n] + Reads(n, j)' = made[n] + Reads(n, j)
  BY <1>5, <1>11 DEF Reads
<1>14. \A k \in DOMAIN stack' : \E j \in DOMAIN stack : stack'[k] = stack[j] /\ stack[j].node # Net
  <2>1. \A k \in DOMAIN stack : stack[k].node \in Node
    <3>1. \A k \in DOMAIN stack : stack[k] \in Frames
      BY <1>3
    <3> QED BY <3>1 DEF Frames
  <2> QED BY <1>5, <2>1, NetNoNode
<1>15. FlowsBy(next)'
  <2>1. Net \in Node \cup {Net}
    OBVIOUS
  <2>2. Net = Origin \/ \E l \in OutSet(Net) : attrs[l] # None
    BY <1>1
  <2>3. /\ Logged' \in Seq(Packets) /\ Longer(Logged', Logged) /\ next[Origin] = Len(Logged')
        /\ made[Net] < Len(Logged') /\ Logged'[made[Net] + 1] = d
    BY <1>12
  <2> HIDE DEF M, L
  <2>4. Puts(made, next, Net, d)
    BY <1>5, <1>10, <1>13, <1>14, <2>2, <2>3 DEF Puts
  <2> QED BY <1>1, <1>3, <1>4, <1>8, <2>1, <2>4, PutFlows
<1>16. Upwards' /\ SourceFirst'
  BY <1>3, <1>5 DEF Upwards, SourceFirst
<1>17. Streams
  <2>1. L' # <<>> /\ L'[Len(L')] = d /\ L' = Append(L, d)
    BY <1>7, <1>8
  <2>2. Stream!Produce
    BY <1>5, <1>8, <2>1 DEF Stream!Produce, Logged
  <2> QED BY <2>2 DEF Streams, Stream!Next
<1> QED BY <1>9, <1>15, <1>16, <1>17 DEF Kept

(* A source puts a packet of the kinds that the log holds.                 *)
LEMMA ReadFromSource ==
  ASSUME SInv, NEW n \in Source PROVE Read(n) \in Whole
<1>1. n \in Node /\ position[n] \in Nat /\ version[n] \in 0 .. MaxCalls
  BY DEF SInv, Inv, TypeOK, Source
<1>2. {<<n, version[n], position[n]>>} \in SUBSET Stamp
  BY <1>1 DEF Stamp
<1>3. Data({<<n, version[n], position[n]>>}) \in Whole /\ Eos \in Whole
  BY <1>2 DEF Whole, Sentinel
<1> QED BY <1>3 DEF Read

(* What a node has read from all its links is one packet of the origin.    *)
LEMMA MergedIs ==
  ASSUME OneOrigin, Histories, NEW f, NEW m \in Nat, f.reads # 0, HasRead(f, m, Logged)
  PROVE  m < Len(Logged) /\ Merged(f) = Logged[m + 1] /\ Logged[m + 1] \in Whole
<1>1. m < Len(Logged) /\ m + 1 \in 1 .. Len(Logged)
  BY LoggedIs DEF HasRead
<1>2. Logged[m + 1] \in Whole
  BY <1>1, LoggedIs
<1> DEFINE d == Logged[m + 1]
<1>3. d # Empty /\ (d \notin Sentinel => d = Data(d.from))
  BY <1>2, WholeIs
<1>4. f.from = d.from /\ f.null = IF d \in Sentinel THEN d ELSE Empty
  BY DEF HasRead
<1> HIDE DEF d
<1>5. Merged(f) = d
  BY <1>3, <1>4 DEF Merged
<1> QED BY <1>1, <1>2, <1>5 DEF d

(* The innermost call is the only one of its node.                         *)
LEMMA Innermost ==
  ASSUME Acyclic, Upwards, stack \in Seq(Frames), stack # <<>>
  PROVE  /\ Head(stack) = stack[1] /\ stack[1] \in Frames /\ stack[1].node \in Node
         /\ \A k \in DOMAIN stack : k # 1 => stack[k].node # stack[1].node
         /\ \A k \in DOMAIN stack : stack[k].node \in Node
         /\ DOMAIN stack = 1 .. Len(stack) /\ Len(stack) \in Nat \ {0}
<1>1. /\ Head(stack) = stack[1] /\ 1 \in DOMAIN stack
      /\ DOMAIN stack = 1 .. Len(stack) /\ Len(stack) \in Nat \ {0}
  OBVIOUS
<1>2. \A k \in DOMAIN stack : stack[k] \in Frames /\ stack[k].node \in Node
  <2>1. \A k \in DOMAIN stack : stack[k] \in Frames
    OBVIOUS
  <2> QED BY <2>1 DEF Frames
<1>3. ASSUME NEW k \in DOMAIN stack, k # 1 PROVE stack[k].node # stack[1].node
  <2>1. 1 < k
    BY <1>1, <1>3
  <2>2. Rank[stack[1].node] < Rank[stack[k].node]
    BY <1>1, <2>1 DEF Upwards
  <2>3. Rank[stack[1].node] \in Nat
    BY <1>1, <1>2, RankIs DEF Ranks
  <2> QED BY <2>2, <2>3
<1> QED BY <1>1, <1>2, <1>3

(* The end of a node's work(): a source takes the stream one step further, *)
(* another node puts what the origin has put before.                       *)
LEMMA PutStreams ==
  ASSUME Streaming, SInv, Put
  PROVE  Kept' /\ Streams
<1> DEFINE f == stack[1]
           n == f.node
           d == IF n \in Source THEN Read(n) ELSE Merged(f)
<1>1. /\ OneOrigin /\ Acyclic /\ OneEnd
      /\ LinkTypes /\ SlotOrQueue /\ Histories /\ stack \in Seq(Frames) /\ Upwards /\ SourceFirst
  BY DEF SInv, Kept, Inv, TypeOK, LinkTypes, Streaming
<1>2. /\ stack # <<>> /\ Head(stack) = f /\ f \in Frames /\ n \in Node
      /\ \A k \in DOMAIN stack : k # 1 => stack[k].node # n
      /\ \A k \in DOMAIN stack : stack[k].node \in Node
      /\ DOMAIN stack = 1 .. Len(stack) /\ Len(stack) \in Nat \ {0}
  BY <1>1, Innermost DEF Put
<1>3. /\ f.reads = Len(Inputs[n]) /\ PutOn(OutSet(n), d)
      /\ log' = (IF n \in Source THEN [log EXCEPT ![n] = Append(@, d)] ELSE log)
      /\ stack' = Tail(stack) /\ attrs' = attrs /\ seen' = seen /\ result' = result
  BY <1>2 DEF Put, Complete
<1>4. \E l \in OutSet(n) : attrs[l] # None
  BY <1>2 DEF SInv, Inv, Working
<1>5. PICK made : FlowsBy(made)
  BY <1>4 DEF SInv, Kept, Running, OutSet
<1>6. made \in [Node \cup {Net} -> Nat] /\ made[Origin] = Len(Logged)
  BY <1>5 DEF FlowsBy, Counts
<1>7. PICK next : next = [made EXCEPT ![n] = @ + 1]
  OBVIOUS
<1>8. next[n] = made[n] + 1 /\ \A m \in Node \cup {Net} : m # n => next[m] = made[m]
  BY <1>2, <1>6, <1>7
<1>9. Inputs[n] \in Seq(Link) /\ (n \in Source <=> Inputs[n] = <<>>)
  BY <1>2, GraphAssumption DEF Source
<1>10. n \in Source => n = Origin
  BY <1>1, OriginIs DEF OneOrigin, FromPort
<1>11. n = Origin => n \in Source
  BY <1>1, <1>2, OriginIs, NetNoNode
<1>12. d \in Whole /\ (n \notin Source => made[n] < Len(Logged) /\ d = Logged[made[n] + 1])
  <2>1. CASE n \in Source
    BY <2>1, ReadFromSource
  <2>2. CASE n \notin Source
    <3>1. f.reads # 0
      BY <1>3, <1>9, <2>2
    <3>2. HasRead(f, made[n], Logged) /\ made[n] \in Nat
      BY <1>2, <1>5, <1>6 DEF FlowsBy, Reading
    <3> HIDE DEF f
    <3> QED BY <1>1, <2>2, <3>1, <3>2, MergedIs
  <2> QED BY <2>1, <2>2
<1>13. Logged \in Seq(Packets) /\ Len(Logged) \in Nat /\ Logged \in Seq(Whole) /\ d \in Packets
  BY <1>1, <1>12, LoggedIs, WholePackets
<1>14. log \in [Source \cup {Net} -> Seq(Whole)]
  BY <1>1 DEF Histories
<1> HIDE DEF f, n, d
<1>15. Logged' = IF n \in Source THEN Append(Logged, d) ELSE Logged
  <2>1. CASE n \in Source
    BY <1>3, <1>10, <1>14, <2>1 DEF Logged
  <2>2. CASE n \notin Source
    BY <1>3, <2>2 DEF Logged
  <2> QED BY <2>1, <2>2
<1>16. Histories'
  <2>1. CASE n \in Source
    <3>1. Append(log[n], d) \in Seq(Whole)
      BY <1>12, <1>14, <2>1
    <3>2. log' \in [Source \cup {Net} -> Seq(Whole)]
      BY <1>3, <1>14, <2>1, <3>1
    <3> QED BY <1>1, <1>3, <3>2 DEF Histories
  <2>2. CASE n \notin Source
    BY <1>1, <1>3, <2>2 DEF Histories
  <2> QED BY <2>1, <2>2
<1> DEFINE L == Logged
           M == Logged'
<1>17. /\ M \in Seq(Packets) /\ Longer(M, L) /\ next[Origin] = Len(M)
       /\ made[n] < Len(M) /\ M[made[n] + 1] = d
  <2>0. L \in Seq(Packets) /\ Len(L) \in Nat /\ made[Origin] = Len(L)
    BY <1>6, <1>13
  <2>1. CASE n \in Source
    <3>1. M = Append(L, d)
      BY <1>15, <2>1
    <3>2. n = Origin
      BY <1>10, <2>1
    <3> HIDE DEF M, L
    <3>3. M \in Seq(Packets) /\ Len(M) = Len(L) + 1 /\ Longer(M, L) /\ M[Len(L) + 1] = d
      BY <1>13, <2>0, <3>1 DEF Longer
    <3> QED BY <1>8, <2>0, <3>2, <3>3
  <2>2. CASE n \notin Source
    <3>1. M = L /\ n # Origin
      BY <1>11, <1>15, <2>2
    <3>2. next[Origin] = made[Origin]
      BY <1>1, <1>8, <3>1, OriginIs
    <3>3. made[n] < Len(L) /\ L[made[n] + 1] = d
      BY <1>12, <2>2
    <3> HIDE DEF M, L
    <3> QED BY <2>0, <3>1, <3>2, <3>3 DEF Longer
  <2> QED BY <2>1, <2>2
<1>18. stack' \in Seq(Frames) /\ DOMAIN stack' = 1 .. Len(stack) - 1
       /\ \A k \in 1 .. Len(stack) - 1 : k + 1 \in DOMAIN stack /\ k + 1 # 1 /\ stack'[k] = stack[k + 1]
  BY <1>1, <1>2, <1>3
<1>19. ASSUME NEW m \in Node, NEW i \in DOMAIN Inputs[m]
       PROVE  next[m] + Reads(m, i)' = made[m] + Reads(m, i)
  <2>1. i \in Nat \ {0} /\ i <= Len(Inputs[m])
    BY InputLink
  <2>2. CASE m = n
    <3>1. stack[1].node = m /\ stack[1].reads >= i /\ 1 \in DOMAIN stack
      BY <1>2, <1>3, <1>9, <2>1, <2>2 DEF f, n
    <3>2. Reads(m, i) = 1
      BY <3>1 DEF Reads
    <3>3. Reads(m, i)' = 0
      <4>1. \A k \in DOMAIN stack' : stack'[k].node # m
        BY <1>2, <1>18, <2>2
      <4> QED BY <4>1 DEF Reads
    <3>4. made[m] \in Nat
      BY <1>6
    <3> QED BY <1>8, <2>2, <3>2, <3>3, <3>4
  <2>3. CASE m # n
    <3>1. (\E k \in DOMAIN stack' : stack'[k].node = m /\ stack'[k].reads >= i)
            <=> (\E k \in DOMAIN stack : stack[k].node = m /\ stack[k].reads >= i)
      <4>1. ASSUME NEW k \in DOMAIN stack', stack'[k].node = m, stack'[k].reads >= i
            PROVE  \E j \in DOMAIN stack : stack[j].node = m /\ stack[j].reads >= i
        BY <1>18, <4>1
      <4>2. ASSUME NEW k \in DOMAIN stack, stack[k].node = m, stack[k].reads >= i
            PROVE  \E j \in DOMAIN stack' : stack'[j].node = m /\ stack'[j].reads >= i
        <5>1. k # 1
          BY <2>3, <4>2 DEF f, n
        <5>2. k - 1 \in DOMAIN stack' /\ (k - 1) + 1 = k
          BY <1>2, <1>18, <5>1
        <5> QED BY <1>18, <4>2, <5>2
      <4> QED BY <4>1, <4>2
    <3> QED BY <1>8, <2>3, <3>1 DEF Reads
  <2> QED BY <2>2, <2>3
<1>20. \A k \in DOMAIN stack' : \E j \in DOMAIN stack : stack'[k] = stack[j] /\ stack[j].node # n
  BY <1>2, <1>18
<1>21. FlowsBy(next)'
  <2>1. n \in Node \cup {Net}
    BY <1>2
  <2>2. n = Origin \/ \E l \in OutSet(n) : attrs[l] # None
    BY <1>4
  <2>3. /\ Logged' \in Seq(Packets) /\ Longer(Logged', Logged) /\ next[Origin] = Len(Logged')
        /\ made[n] < Len(Logged') /\ Logged'[made[n] + 1] = d
    BY <1>17
  <2>4. \A m \in Node : \A i \in DOMAIN Inputs[m] : next[m] + Reads(m, i)' = made[m] + Reads(m, i)
    BY <1>19
  <2> HIDE DEF M, L
  <2>5. PICK p, c : p = n /\ c = d
    OBVIOUS
  <2>6. Puts(made, next, p, c)
    BY <1>3, <1>7, <1>20, <2>2, <2>3, <2>4, <2>5 DEF Puts
  <2> QED BY <1>1, <1>5, <1>13, <2>1, <2>5, <2>6, PutFlows
<1>22. Upwards'
  <2> SUFFICES ASSUME NEW j \in DOMAIN stack', NEW k \in DOMAIN stack', j < k
               PROVE  Rank[stack'[j].node] < Rank[stack'[k].node]
    BY DEF Upwards
  <2>1. j \in 1 .. Len(stack) - 1 /\ k \in 1 .. Len(stack) - 1 /\ j + 1 < k + 1
    BY <1>2, <1>18
  <2>2. /\ j + 1 \in DOMAIN stack /\ stack'[j] = stack[j + 1]
        /\ k + 1 \in DOMAIN stack /\ stack'[k] = stack[k + 1]
    BY <1>18, <2>1
  <2> QED BY <1>1, <2>1, <2>2 DEF Upwards
<1>23. SourceFirst'
  BY <1>1, <1>3 DEF SourceFirst
<1>24. Streams
  <2>1. CASE n \in Source
    <3>1. L' # <<>> /\ L'[Len(L')] = d /\ L' = Append(L, d)
      BY <1>13, <1>15, <2>1
    <3>2. Stream!Produce
      BY <1>3, <1>13, <3>1 DEF Stream!Produce, Logged
    <3> QED BY <3>2 DEF Streams, Stream!Next
  <2>2. CASE n \notin Source
    BY <1>3, <2>2 DEF Streams, Stream!vars
  <2> QED BY <2>1, <2>2
<1> QED BY <1>16, <1>21, <1>22, <1>23, <1>24 DEF Kept

-----------------------------------------------------------------------------
(* Packets read.                                                           *)

(* The network's getData of an output port takes the next packet for it.   *)
LEMMA DeliverStreams ==
  ASSUME Streaming, SInv, Take, stack = <<>>
  PROVE  Kept' /\ Streams
<1>1. /\ OneOrigin /\ OneEnd /\ LinkTypes /\ SlotOrQueue /\ Histories /\ Upwards /\ SourceFirst
      /\ goal \in OutputPort \cup {NoLink} /\ Wanting
  BY DEF SInv, Kept, Inv, TypeOK, LinkTypes, Streaming, Take
<1>2. PICK o : o = goal
  OBVIOUS
<1>3. /\ o \in OutputPort /\ o \in Link /\ Demanded = o /\ attrs[o] # None
      /\ Available(o) /\ TakeFrom(o)
  BY <1>1, <1>2, DemandedFact, GraphAssumption DEF Wanting, SInv, Take
<1>4. /\ goal' = NoLink /\ stack' = <<>> /\ attrs' = attrs /\ log' = log
      /\ seen' = [seen EXCEPT ![o] = @ + 1] /\ result' = [result EXCEPT ![o] = First(o)]
  BY <1>2 DEF Take
<1>5. PICK made : FlowsBy(made)
  BY <1>3 DEF SInv, Kept, Running
<1>6. /\ Pending(o) # <<>> /\ First(o) = Head(Pending(o)) /\ Pending(o) \in Seq(Packets)
      /\ \A k \in Link : Pending(k)' = IF k = o THEN Tail(Pending(o)) ELSE Pending(k)
  BY <1>1, <1>3, TakePending, PendingIs
<1>7. /\ Logged' = Logged /\ Len(Logged) \in Nat /\ Logged \in Seq(Packets)
      /\ seen \in [OutputPort -> Nat] /\ result \in [OutputPort -> Packets]
      /\ \A l \in Link : Live(l)' = Live(l)
  BY <1>1, <1>4, LoggedIs DEF Logged, Live, Histories
<1>8. PICK a, b : a = seen[o] /\ b = made[From[o]]
  OBVIOUS
<1>9. a \in Nat /\ b \in Nat /\ b <= Len(Logged) /\ Part(Pending(o), Logged, a, b)
  <2>1. Counts(made)
    BY <1>5 DEF FlowsBy
  <2>2. b \in Nat /\ b <= Len(Logged)
    BY <1>1, <1>3, <1>8, <2>1, CountAt
  <2>3. Live(o) /\ Outside(made)
    BY <1>3, <1>5 DEF Live, FlowsBy
  <2> QED BY <1>3, <1>7, <1>8, <2>2, <2>3 DEF Outside, Carries
<1>10. a < b /\ First(o) = Logged[a + 1] /\ Part(Tail(Pending(o)), Logged, a + 1, b)
  BY <1>6, <1>9, PartTail
<1>11. First(o) \in Packets
  BY <1>7, <1>9, <1>10
<1>12. /\ \A k \in OutputPort : seen'[k] = IF k = o THEN a + 1 ELSE seen[k]
       /\ seen' \in [OutputPort -> Nat] /\ result' \in [OutputPort -> Packets]
  BY <1>3, <1>4, <1>7, <1>8, <1>9, <1>11
<1>13. Histories'
  BY <1>1, <1>4, <1>12 DEF Histories
<1>14. FlowsBy(made)'
  <2>1. Counts(made)'
    BY <1>5, <1>7 DEF FlowsBy, Counts
  <2>2. Outside(made)'
    <3> SUFFICES ASSUME NEW k \in OutputPort
                 PROVE  IF Live(k)' THEN Carries(k, seen[k], made[From[k]])' ELSE seen'[k] = 0
      BY DEF Outside
    <3>1. k \in Link /\ IF Live(k) THEN Carries(k, seen[k], made[From[k]]) ELSE seen[k] = 0
      BY <1>5, GraphAssumption DEF FlowsBy, Outside
    <3>2. CASE k = o
      <4>1. Part(Pending(k)', Logged', seen'[k], made[From[k]])
        BY <1>6, <1>7, <1>8, <1>10, <1>12, <3>1, <3>2
      <4>2. Live(k)'
        BY <1>3, <1>7, <3>2 DEF Live
      <4> QED BY <4>1, <4>2 DEF Carries
    <3>3. CASE k # o
      BY <1>6, <1>7, <1>12, <3>1, <3>3 DEF Carries
    <3> QED BY <3>2, <3>3
  <2>3. Inside(made)'
    <3> SUFFICES ASSUME NEW n \in Node, NEW i \in DOMAIN Inputs[n], Live(Inputs[n][i])'
                 PROVE  Carries(Inputs[n][i], made[n] + Reads(n, i), made[From[Inputs[n][i]]])'
      BY DEF Inside
    <3> DEFINE l == Inputs[n][i]
    <3>1. l \in Link /\ l # o
      BY <1>1, <1>3, InputLink DEF OneEnd
    <3>2. Carries(l, made[n] + Reads(n, i), made[From[l]])
      BY <1>5, <1>7, <3>1 DEF FlowsBy, Inside
    <3>3. Reads(n, i)' = Reads(n, i) /\ Pending(l)' = Pending(l)
      BY <1>4, <1>6, <3>1 DEF Reads
    <3> QED BY <1>7, <3>2, <3>3 DEF Carries
  <2>4. Still(made)' /\ Reading(made)'
    BY <1>4, <1>5 DEF FlowsBy, Still, Reading
  <2> QED BY <2>1, <2>2, <2>3, <2>4 DEF FlowsBy
<1>15. Upwards' /\ SourceFirst'
  BY <1>1, <1>4 DEF Upwards, SourceFirst
<1>16. Streams
  <2>1. Stream!Deliver(o)
    <3>1. seen[o] < Len(Logged)
      BY <1>7, <1>8, <1>9, <1>10
    <3>2. result' = [result EXCEPT ![o] = Logged[seen[o] + 1]]
      BY <1>4, <1>8, <1>10
    <3> QED BY <1>4, <1>7, <3>1, <3>2 DEF Stream!Deliver, Logged
  <2> QED BY <1>3, <2>1 DEF Streams, Stream!Next
<1> QED BY <1>13, <1>14, <1>15, <1>16 DEF Kept

(* A node that reads from one of its links reads the packet that it has    *)
(* read from those before it.                                              *)
LEMMA ReadStreams ==
  ASSUME Streaming, SInv, Take, stack # <<>>
  PROVE  Kept' /\ Streams
<1>1. /\ OneOrigin /\ OneEnd /\ Acyclic /\ LinkTypes /\ SlotOrQueue /\ Histories /\ Upwards /\ SourceFirst
      /\ stack \in Seq(Frames) /\ Wanting /\ \A k \in DOMAIN stack : Working(stack[k])
  BY DEF SInv, Kept, Inv, TypeOK, LinkTypes, Streaming, Take
<1>2. PICK f, n, r, l : f = stack[1] /\ n = f.node /\ r = f.reads /\ l = Demanded
  OBVIOUS
<1>3. /\ Head(stack) = f /\ f \in Frames /\ n \in Node /\ r \in Nat
      /\ \A k \in DOMAIN stack : k # 1 => stack[k].node # n
      /\ \A k \in DOMAIN stack : stack[k].node \in Node
      /\ DOMAIN stack = 1 .. Len(stack) /\ Len(stack) \in Nat \ {0}
  BY <1>1, <1>2, Innermost DEF Frames
<1>4. l = Inputs[n][r + 1] /\ r + 1 \in DOMAIN Inputs[n] /\ l \in Link /\ attrs[l] # None
  <2>1. l = Inputs[n][r + 1] /\ r # Len(Inputs[n])
    BY <1>1, <1>2, <1>3 DEF Demanded, Wanting, Complete
  <2>2. Inputs[n] \in Seq(Link) /\ Len(Inputs[n]) \in Nat
    BY <1>3, GraphAssumption
  <2>3. r <= Len(Inputs[n])
    BY <1>1, <1>2, <1>3 DEF Working
  <2>4. r + 1 \in DOMAIN Inputs[n]
    BY <1>3, <2>1, <2>2, <2>3
  <2> QED BY <1>1, <1>2, <2>1, <2>4, DemandedFact DEF SInv
<1>5. Available(l) /\ TakeFrom(l)
  BY <1>2 DEF Take
<1>6. PICK d, g : d = First(l) /\ g = With(f, d)
  OBVIOUS
<1>7. /\ stack' = <<g>> \o Tail(stack) /\ attrs' = attrs /\ log' = log
      /\ goal' = goal /\ seen' = seen /\ result' = result
  BY <1>2, <1>3, <1>6 DEF Take
<1>8. PICK made : FlowsBy(made)
  BY <1>4 DEF SInv, Kept, Running
<1>9. /\ Pending(l) # <<>> /\ d = Head(Pending(l)) /\ Pending(l) \in Seq(Packets)
      /\ \A k \in Link : Pending(k)' = IF k = l THEN Tail(Pending(l)) ELSE Pending(k)
  BY <1>1, <1>4, <1>5, <1>6, TakePending, PendingIs
<1>10. /\ Logged' = Logged /\ Len(Logged) \in Nat /\ Logged \in Seq(Packets)
       /\ \A k \in Link : Live(k)' = Live(k)
  BY <1>1, <1>7, LoggedIs DEF Logged, Live
<1>11. Reads(n, r + 1) = 0
  <2>1. \A k \in DOMAIN stack : ~(stack[k].node = n /\ stack[k].reads >= r + 1)
    <3>1. ~(r >= r + 1)
      BY <1>3
    <3> QED BY <1>2, <1>3, <3>1
  <2> QED BY <2>1 DEF Reads
<1>12. PICK m, b : m = made[n] /\ b = made[From[l]]
  OBVIOUS
<1>13. m \in Nat /\ b \in Nat /\ b <= Len(Logged) /\ Part(Pending(l), Logged, m, b)
  <2>1. Counts(made)
    BY <1>8 DEF FlowsBy
  <2>2. b \in Nat /\ b <= Len(Logged) /\ m \in Nat
    BY <1>1, <1>3, <1>4, <1>12, <2>1, CountAt DEF Counts
  <2>3. Live(l) /\ Inside(made)
    BY <1>4, <1>8 DEF Live, FlowsBy
  <2>4. Carries(l, made[n] + Reads(n, r + 1), made[From[l]])
    BY <1>3, <1>4, <2>3 DEF Inside
  <2>5. made[n] + Reads(n, r + 1) = m
    BY <1>11, <1>12, <2>2
  <2> QED BY <1>12, <2>2, <2>4, <2>5 DEF Carries
<1>14. m < b /\ d = Logged[m + 1] /\ Part(Tail(Pending(l)), Logged, m + 1, b)
  BY <1>9, <1>13, PartTail
<1>15. m < Len(Logged) /\ d \in Whole /\ d # Empty
  <2>1. m < Len(Logged) /\ m + 1 \in 1 .. Len(Logged)
    BY <1>10, <1>13, <1>14
  <2>2. d \in Whole
    BY <1>1, <1>14, <2>1, LoggedIs
  <2> QED BY <2>1, <2>2, WholeIs
<1>16. g.node = n /\ g.reads = r + 1 /\ HasRead(g, m, Logged)
  <2>1. /\ g.node = n /\ g.reads = r + 1 /\ g.from = f.from \cup d.from
        /\ g.null = IF f.null = Empty /\ d \in Sentinel THEN d ELSE f.null
    BY <1>2, <1>6 DEF With
  <2>2. HasRead(f, m, Logged)
    BY <1>2, <1>3, <1>8, <1>12 DEF FlowsBy, Reading
  <2>3. CASE r = 0
    BY <1>2, <1>3, <1>14, <1>15, <2>1, <2>2, <2>3 DEF HasRead
  <2>4. CASE r # 0
    BY <1>2, <1>3, <1>14, <1>15, <2>1, <2>2, <2>4 DEF HasRead
  <2> QED BY <2>1, <2>3, <2>4
<1>17. /\ DOMAIN stack' = 1 .. Len(stack) /\ stack'[1] = g
       /\ \A k \in 1 .. Len(stack) : k # 1 => stack'[k] = stack[k]
  <2>1. PICK t : t = Tail(stack)
    OBVIOUS
  <2>2. t \in Seq(Frames) /\ Len(t) = Len(stack) - 1 /\ \A k \in 1 .. Len(t) : t[k] = stack[k + 1]
    BY <1>1, <1>3, <2>1
  <2>3. stack' = <<g>> \o t
    BY <1>7, <2>1
  <2>4. Len(stack') = Len(stack) /\ DOMAIN stack' = 1 .. Len(stack) /\ stack'[1] = g
    <3>1. g \in Frames
      <4>1. f.from \in SUBSET Stamp /\ f.null \in Sentinel \cup {Empty} /\ d.from \in SUBSET Stamp
        BY <1>3, <1>15, WholeIs DEF Frames
      <4>2. f.from \cup d.from \in SUBSET Stamp /\ r + 1 \in Nat
        BY <1>3, <4>1
      <4> QED BY <1>2, <1>3, <1>6, <4>1, <4>2 DEF With, Frames
    <3>2. PICK w : w = <<g>> \o t
      OBVIOUS
    <3>3. w \in Seq(Frames) /\ Len(w) = 1 + Len(t) /\ w[1] = g
      BY <2>2, <3>1, <3>2
    <3>4. stack' = w /\ 1 + Len(t) = Len(stack)
      BY <1>3, <2>2, <2>3, <3>2
    <3> QED BY <3>3, <3>4
  <2>5. ASSUME NEW k \in 1 .. Len(stack), k # 1 PROVE stack'[k] = stack[k]
    <3>1. k - 1 \in 1 .. Len(t) /\ stack'[k] = t[k - 1] /\ (k - 1) + 1 = k
      BY <1>3, <2>2, <2>3, <2>5
    <3> QED BY <2>2, <3>1
  <2> QED BY <2>4, <2>5
<1>18. \A k \in DOMAIN stack' : stack'[k].node = stack[k].node
  BY <1>2, <1>3, <1>16, <1>17
<1>19. ASSUME NEW p \in Node, NEW i \in DOMAIN Inputs[p]
       PROVE  Reads(p, i)' = IF p = n /\ i = r + 1 THEN 1 ELSE Reads(p, i)
  <2>1. i \in Nat
    BY InputLink
  <2>2. CASE p = n /\ i = r + 1
    <3>1. 1 \in DOMAIN stack' /\ stack'[1].node = p /\ stack'[1].reads >= i
      BY <1>3, <1>16, <1>17, <2>2
    <3> QED BY <2>2, <3>1 DEF Reads
  <2>3. CASE ~(p = n /\ i = r + 1)
    <3>1. \A k \in DOMAIN stack : (stack'[k].node = p /\ stack'[k].reads >= i)
                                    <=> (stack[k].node = p /\ stack[k].reads >= i)
      <4> SUFFICES ASSUME NEW k \in DOMAIN stack
                   PROVE  (stack'[k].node = p /\ stack'[k].reads >= i)
                            <=> (stack[k].node = p /\ stack[k].reads >= i)
        OBVIOUS
      <4>1. CASE k = 1
        <5>1. stack'[k] = g /\ stack[k] = f
          BY <1>2, <1>17, <4>1
        <5>2. p = n => (r + 1 >= i <=> r >= i)
          BY <1>3, <2>1, <2>3
        <5> QED BY <1>2, <1>16, <5>1, <5>2
      <4>2. CASE k # 1
        BY <1>3, <1>17, <4>2
      <4> QED BY <4>1, <4>2
    <3>2. DOMAIN stack' = DOMAIN stack
      BY <1>3, <1>17
    <3> QED BY <2>3, <3>1, <3>2 DEF Reads
  <2> QED BY <2>2, <2>3
<1>20. FlowsBy(made)'
  <2>1. Counts(made)'
    BY <1>8, <1>10 DEF FlowsBy, Counts
  <2>2. Outside(made)'
    <3> SUFFICES ASSUME NEW o \in OutputPort
                 PROVE  IF Live(o)' THEN Carries(o, seen[o], made[From[o]])' ELSE seen'[o] = 0
      BY DEF Outside
    <3>1. o \in Link /\ IF Live(o) THEN Carries(o, seen[o], made[From[o]]) ELSE seen[o] = 0
      BY <1>8, GraphAssumption DEF FlowsBy, Outside
    <3>2. o # l
      BY <1>1, <1>3, <1>4 DEF OneEnd, InSet
    <3> QED BY <1>7, <1>9, <1>10, <3>1, <3>2 DEF Carries
  <2>3. Inside(made)'
    <3> SUFFICES ASSUME NEW p \in Node, NEW i \in DOMAIN Inputs[p], Live(Inputs[p][i])'
                 PROVE  Carries(Inputs[p][i], made[p] + Reads(p, i), made[From[Inputs[p][i]]])'
      BY DEF Inside
    <3>1. PICK k : k = Inputs[p][i]
      OBVIOUS
    <3>2. k \in Link /\ (k = l <=> p = n /\ i = r + 1)
      BY <1>1, <1>3, <1>4, <3>1, InputLink DEF OneEnd
    <3>3. Carries(k, made[p] + Reads(p, i), made[From[k]])
      BY <1>8, <1>10, <3>1, <3>2 DEF FlowsBy, Inside
    <3>4. CASE k = l
      <4>1. made[p] + Reads(p, i)' = m + 1
        BY <1>12, <1>19, <3>2, <3>4
      <4>2. Part(Pending(k)', Logged', m + 1, made[From[k]])
        BY <1>9, <1>10, <1>12, <1>14, <3>2, <3>4
      <4> QED BY <3>1, <4>1, <4>2 DEF Carries
    <3>5. CASE k # l
      <4>1. Reads(p, i)' = Reads(p, i) /\ Pending(k)' = Pending(k)
        BY <1>9, <1>19, <3>2, <3>5
      <4> QED BY <1>10, <3>1, <3>3, <4>1 DEF Carries
    <3> QED BY <3>4, <3>5
  <2>4. Still(made)'
    BY <1>7, <1>8 DEF FlowsBy, Still
  <2>5. Reading(made)'
    <3> SUFFICES ASSUME NEW k \in DOMAIN stack' PROVE HasRead(stack'[k], made[stack'[k].node], Logged')
      BY DEF Reading
    <3>1. CASE k = 1
      BY <1>10, <1>12, <1>16, <1>17, <3>1
    <3>2. CASE k # 1
      <4>1. k \in DOMAIN stack /\ stack'[k] = stack[k]
        BY <1>3, <1>17, <3>2
      <4>2. HasRead(stack[k], made[stack[k].node], Logged)
        BY <1>8, <4>1 DEF FlowsBy, Reading
      <4> QED BY <1>10, <4>1, <4>2
    <3> QED BY <3>1, <3>2
  <2> QED BY <2>1, <2>2, <2>3, <2>4, <2>5 DEF FlowsBy
<1>21. Histories' /\ SourceFirst'
  BY <1>1, <1>7 DEF Histories, SourceFirst
<1>22. Upwards'
  <2>1. DOMAIN stack' = DOMAIN stack
    BY <1>3, <1>17
  <2> QED BY <1>1, <1>18, <2>1 DEF Upwards
<1>23. Streams
  BY <1>7 DEF Streams, Stream!vars
<1> QED BY <1>20, <1>21, <1>22, <1>23 DEF Kept

(* A call of work() goes one node further up.                              *)
LEMMA WorkStreams ==
  ASSUME Streaming, SInv, Work
  PROVE  Kept' /\ Streams
<1>1. /\ OneOrigin /\ OneEnd /\ Acyclic /\ Histories /\ Upwards /\ SourceFirst
      /\ stack \in Seq(Frames) /\ Wanting /\ \A k \in DOMAIN stack : Working(stack[k])
  BY DEF SInv, Kept, Inv, TypeOK, Streaming, Work
<1>2. PICK g, n, l : l = Demanded /\ n = From[l] /\ g = Frame(n)
  OBVIOUS
<1>3. /\ stack' = <<g>> \o stack /\ attrs' = attrs /\ log' = log /\ slot' = slot /\ queue' = queue
      /\ goal' = goal /\ seen' = seen /\ result' = result /\ n \in Node
  BY <1>2 DEF Work, linkVars, historyVars
<1>4. g.node = n /\ g.reads = 0 /\ g.from = {} /\ g.null = Empty
  BY <1>2 DEF Frame
<1>5. l \in Link /\ attrs[l] # None
  BY <1>1, <1>2, DemandedFact DEF SInv
<1>6. PICK made : FlowsBy(made)
  BY <1>5 DEF SInv, Kept, Running
<1>7. /\ DOMAIN stack = 1 .. Len(stack) /\ Len(stack) \in Nat
      /\ DOMAIN stack' = 1 .. Len(stack) + 1 /\ stack'[1] = g
      /\ \A k \in 1 .. Len(stack) : stack'[k + 1] = stack[k]
  BY <1>1, <1>3
<1>8. \A k \in DOMAIN stack : stack[k].node \in Node /\ Rank[n] < Rank[stack[k].node]
  <2> SUFFICES ASSUME NEW k \in DOMAIN stack PROVE stack[k].node \in Node /\ Rank[n] < Rank[stack[k].node]
    OBVIOUS
  <2>0. stack # <<>>
    BY <1>7
  <2>1. PICK f, p : f = stack[1] /\ p = f.node
    OBVIOUS
  <2>2. Head(stack) = f /\ f \in Frames /\ p \in Node /\ f.reads \in Nat /\ 1 \in DOMAIN stack
        /\ stack[k].node \in Node
    BY <1>1, <2>0, <2>1, Innermost DEF Frames
  <2>3. f.reads # Len(Inputs[p]) /\ f.reads <= Len(Inputs[p]) /\ l = Inputs[p][f.reads + 1]
    BY <1>1, <1>2, <2>0, <2>1, <2>2 DEF Wanting, Complete, Working, Demanded
  <2>4. Inputs[p] \in Seq(Link) /\ Len(Inputs[p]) \in Nat
    BY <2>2, GraphAssumption
  <2>5. f.reads + 1 \in DOMAIN Inputs[p]
    BY <2>2, <2>3, <2>4
  <2>6. l \in InSet(p)
    BY <2>3, <2>5 DEF InSet
  <2>7. Rank[n] < Rank[p] /\ Rank[n] \in Nat /\ Rank[p] \in Nat /\ Rank[stack[k].node] \in Nat
    BY <1>1, <1>2, <1>3, <2>2, <2>6, RankIs DEF Ranks
  <2>8. CASE k = 1
    BY <2>1, <2>2, <2>7, <2>8
  <2>9. CASE k # 1
    <3>1. 1 < k
      BY <1>7, <2>9
    <3>2. Rank[p] < Rank[stack[k].node]
      BY <1>1, <2>1, <2>2, <3>1 DEF Upwards
    <3> QED BY <2>2, <2>7, <3>2
  <2> QED BY <2>8, <2>9
<1>9. ASSUME NEW p \in Node, NEW i \in DOMAIN Inputs[p] PROVE Reads(p, i)' = Reads(p, i)
  <2>1. i \in Nat \ {0}
    BY InputLink
  <2>2. (\E k \in DOMAIN stack' : stack'[k].node = p /\ stack'[k].reads >= i)
          <=> (\E k \in DOMAIN stack : stack[k].node = p /\ stack[k].reads >= i)
    <3>1. ASSUME NEW k \in DOMAIN stack', stack'[k].node = p, stack'[k].reads >= i
          PROVE  \E j \in DOMAIN stack : stack[j].node = p /\ stack[j].reads >= i
      <4>1. k # 1
        <5>1. ~(0 >= i)
          BY <2>1
        <5> QED BY <1>4, <1>7, <3>1, <5>1
      <4>2. k - 1 \in DOMAIN stack /\ (k - 1) + 1 = k
        BY <1>7, <4>1
      <4> QED BY <1>7, <3>1, <4>2
    <3>2. ASSUME NEW k \in DOMAIN stack, stack[k].node = p, stack[k].reads >= i
          PROVE  \E j \in DOMAIN stack' : stack'[j].node = p /\ stack'[j].reads >= i
      <4>1. k + 1 \in DOMAIN stack' /\ stack'[k + 1] = stack[k]
        BY <1>7
      <4> QED BY <3>2, <4>1
    <3> QED BY <3>1, <3>2
  <2> QED BY <2>2 DEF Reads
<1>10. /\ Logged' = Logged /\ \A k \in Link : Live(k)' = Live(k) /\ Pending(k)' = Pending(k)
  BY <1>3 DEF Logged, Live, Pending
<1>11. FlowsBy(made)'
  <2>1. Counts(made)'
    BY <1>6, <1>10 DEF FlowsBy, Counts
  <2>2. Outside(made)'
    <3> SUFFICES ASSUME NEW o \in OutputPort
                 PROVE  IF Live(o)' THEN Carries(o, seen[o], made[From[o]])' ELSE seen'[o] = 0
      BY DEF Outside
    <3>1. o \in Link /\ IF Live(o) THEN Carries(o, seen[o], made[From[o]]) ELSE seen[o] = 0
      BY <1>6, GraphAssumption DEF FlowsBy, Outside
    <3> QED BY <1>3, <1>10, <3>1 DEF Carries
  <2>3. Inside(made)'
    <3> SUFFICES ASSUME NEW p \in Node, NEW i \in DOMAIN Inputs[p], Live(Inputs[p][i])'
                 PROVE  Carries(Inputs[p][i], made[p] + Reads(p, i), made[From[Inputs[p][i]]])'
      BY DEF Inside
    <3>1. PICK k : k = Inputs[p][i]
      OBVIOUS
    <3>2. k \in Link
      BY <3>1, InputLink
    <3>3. Carries(k, made[p] + Reads(p, i), made[From[k]])
      BY <1>6, <1>10, <3>1, <3>2 DEF FlowsBy, Inside
    <3>4. Reads(p, i)' = Reads(p, i)
      BY <1>9
    <3> QED BY <1>10, <3>1, <3>2, <3>3, <3>4 DEF Carries
  <2>4. Still(made)'
    BY <1>3, <1>6 DEF FlowsBy, Still
  <2>5. Reading(made)'
    <3> SUFFICES ASSUME NEW k \in DOMAIN stack' PROVE HasRead(stack'[k], made[stack'[k].node], Logged')
      BY DEF Reading
    <3>1. CASE k = 1
      BY <1>4, <1>7, <3>1 DEF HasRead
    <3>2. CASE k # 1
      <4>1. k - 1 \in DOMAIN stack /\ (k - 1) + 1 = k
        BY <1>7, <3>2
      <4>2. stack'[k] = stack[k - 1]
        BY <1>7, <4>1
      <4>3. HasRead(stack[k - 1], made[stack[k - 1].node], Logged)
        BY <1>6, <4>1 DEF FlowsBy, Reading
      <4> QED BY <1>10, <4>2, <4>3
    <3> QED BY <3>1, <3>2
  <2> QED BY <2>1, <2>2, <2>3, <2>4, <2>5 DEF FlowsBy
<1>12. Histories' /\ SourceFirst'
  BY <1>1, <1>3 DEF Histories, SourceFirst
<1>13. Upwards'
  <2> SUFFICES ASSUME NEW j \in DOMAIN stack', NEW k \in DOMAIN stack', j < k
               PROVE  Rank[stack'[j].node] < Rank[stack'[k].node]
    BY DEF Upwards
  <2>1. k - 1 \in DOMAIN stack /\ stack'[k] = stack[k - 1]
    <3>1. k - 1 \in DOMAIN stack /\ (k - 1) + 1 = k
      BY <1>7
    <3> QED BY <1>7, <3>1
  <2>2. CASE j = 1
    BY <1>4, <1>7, <1>8, <2>1, <2>2
  <2>3. CASE j # 1
    <3>1. j - 1 \in DOMAIN stack /\ (j - 1) + 1 = j /\ j - 1 < k - 1
      BY <1>7, <2>3
    <3>2. stack'[j] = stack[j - 1]
      BY <1>7, <3>1
    <3> QED BY <1>1, <2>1, <3>1, <3>2 DEF Upwards
  <2> QED BY <2>2, <2>3
<1>14. Streams
  BY <1>3 DEF Streams, Stream!vars
<1> QED BY <1>11, <1>12, <1>13, <1>14 DEF Kept

-----------------------------------------------------------------------------
(* Calls of the client.                                                    *)

(* What configure() does to the links.                                     *)
LEMMA ConfigureLinks ==
  ASSUME Inv, NEW a \in [Link -> SUBSET Token], NEW ns, ns \subseteq Node,
         NEW cleared \in SUBSET Link, Configure(a, ns, cleared), NEW l \in Link
  PROVE  LET cone == Cone(a, ns) IN
         /\ attrs'[l] # None => a[l] # None \/ From[l] \in cone \/ From[l] = Net
         /\ a[l] # None \/ From[l] \in cone => attrs'[l] # None
         /\ cone = {} => attrs'[l] = a[l]
         /\ Pending(l)' = IF From[l] \in cone \/ l \in cleared THEN <<>> ELSE Pending(l)
<1> DEFINE cone == Cone(a, ns)
<1>1. cone \subseteq Node
  BY ConeRoots
<1>2. version \in [Node -> 0 .. MaxCalls] /\ MaxCalls \in Nat
  BY BoundAssumption DEF Inv, TypeOK
<1>3. \A n \in cone : Derived(a, n) # None
  BY <1>1, <1>2, DerivedSome
<1>4. attrs' = Configured(a, cone)
  BY DEF Configure
<1>5. /\ slot'[l] = IF From[l] \in cone \/ l \in cleared THEN Empty ELSE slot[l]
      /\ queue'[l] = IF From[l] \in cone \/ l \in cleared THEN <<>> ELSE queue[l]
  BY DEF Configure, Fresh
<1> HIDE DEF cone
<1>6. attrs'[l] = IF From[l] \in cone THEN Derived(a, From[l])
                  ELSE IF AsksNetwork(a, cone) THEN InputAttrs(a, l) ELSE a[l]
  BY <1>4 DEF Configured
<1>7. InputAttrs(a, l) # None => a[l] # None \/ From[l] = Net
  BY DEF InputAttrs
<1>8. a[l] # None => InputAttrs(a, l) # None
  BY DEF InputAttrs
<1>9. cone = {} => ~AsksNetwork(a, cone)
  BY DEF AsksNetwork
<1>10. Pending(l)' = IF From[l] \in cone \/ l \in cleared THEN <<>> ELSE Pending(l)
  BY <1>5 DEF Pending
<1> QED BY <1>3, <1>6, <1>7, <1>8, <1>9, <1>10 DEF cone

(* Between the calls of the client no work() is under way.                 *)
LEMMA Idle ==
  ASSUME SInv, goal = NoLink PROVE stack = <<>>
BY DEF SInv, Inv, GoalConfigured

(* A call that leaves the history alone and erases what a source has put.  *)
LEMMA BlankStreams ==
  ASSUME Streaming, SInv, Blank', Histories', SourceFirst', result' = result
  PROVE  Kept' /\ Streams
<1>1. OneOrigin
  BY DEF Streaming
<1>2. Flowing'
  BY <1>1, RestartedNext
<1>3. Upwards'
  BY DEF Blank, Upwards
<1>4. Stream!Restart
  BY DEF Blank, Stream!Restart, Logged
<1> QED BY <1>2, <1>3, <1>4 DEF Kept, Flowing, Streams, Stream!Next

(* Configuring what the output ports need starts the nodes that have put   *)
(* nothing yet, or the source and with it all of them.                     *)
LEMMA ConfigureStreams ==
  ASSUME Streaming, SInv, NEW os, os \subseteq OutputPort, stack = <<>>, stack' = <<>>,
         Configure(attrs, Unconfigured(attrs, os), {})
  PROVE  Kept' /\ Streams
<1> DEFINE cone == Cone(attrs, Unconfigured(attrs, os))
<1>1. /\ OneOrigin /\ Acyclic /\ Histories /\ SourceFirst /\ Inv
      /\ Upstream(attrs) /\ Siblings(attrs) /\ attrs \in [Link -> SUBSET Token]
  BY DEF SInv, Kept, Inv, TypeOK, Streaming
<1>2. Unconfigured(attrs, os) \subseteq Node
  BY UnconfiguredNodes
<1>3. cone \subseteq Node
  BY <1>2, ConeRoots
<1>4. ASSUME NEW l \in Link
      PROVE  /\ attrs'[l] # None => attrs[l] # None \/ From[l] \in cone \/ From[l] = Net
             /\ attrs[l] # None \/ From[l] \in cone => attrs'[l] # None
             /\ cone = {} => attrs'[l] = attrs[l]
             /\ Pending(l)' = IF From[l] \in cone THEN <<>> ELSE Pending(l)
  BY <1>1, <1>2, ConfigureLinks
<1>5. ASSUME NEW m \in cone
      PROVE  m \in Node /\ OutSet(m) # {} /\ \A l \in OutSet(m) : attrs[l] = None
  BY <1>1, ConeStill
<1>6. /\ log' = [n \in Source \cup {Net} |-> IF n \in cone \cap Source THEN <<>> ELSE log[n]]
      /\ seen' = IF cone \cap Source = {} THEN seen ELSE [o \in OutputPort |-> 0]
      /\ result' = result
  BY DEF Configure
<1> HIDE DEF cone
<1>7. Histories'
  <2>1. log' \in [Source \cup {Net} -> Seq(Whole)]
    BY <1>1, <1>6 DEF Histories
  <2>2. seen' \in [OutputPort -> Nat]
    BY <1>1, <1>6 DEF Histories
  <2> QED BY <1>1, <1>6, <2>1, <2>2 DEF Histories
<1>8. CASE Origin \in cone
  <2>1. Origin \in Node /\ Origin \in Source
    BY <1>1, <1>3, <1>8, OriginIs, NetNoNode
  <2>2. Logged' = <<>> /\ seen' = [o \in OutputPort |-> 0]
    BY <1>6, <1>8, <2>1 DEF Logged
  <2>3. \A l \in Link : attrs[l] = None /\ From[l] # Net
    <3>1. PICK k : k \in OutSet(Origin) /\ attrs[k] = None
      BY <1>5, <1>8
    <3>2. ~(\E l \in Link : attrs[l] # None)
      BY <1>1, <2>1, <3>1 DEF SourceFirst
    <3>3. Origin # Net
      BY <2>1, NetNoNode
    <3> QED BY <1>1, <3>2, <3>3, OriginIs, NetNoNode
  <2>4. ASSUME NEW l \in Link, Live(l)' PROVE Pending(l)' = <<>>
    <3>1. attrs'[l] # None
      BY <2>3, <2>4 DEF Live
    <3> QED BY <1>4, <2>3, <3>1
  <2>5. Blank'
    BY <2>2, <2>4 DEF Blank
  <2>6. SourceFirst'
    BY <1>4, <1>8 DEF SourceFirst, OutSet
  <2> QED BY <1>6, <1>7, <2>5, <2>6, BlankStreams
<1>9. CASE Origin \notin cone
  <2>1. cone \cap Source = {}
    <3>1. Source \subseteq {Origin}
      BY <1>1, OriginIs DEF OneOrigin, FromPort
    <3> QED BY <1>9, <3>1
  <2>2. log' = log /\ seen' = seen /\ Logged' = Logged
    BY <1>1, <1>6, <2>1 DEF Histories, Logged
  <2>3. Upwards' /\ Streams
    BY <1>6, <2>2 DEF Upwards, Streams, Stream!vars
  <2>4. CASE Running
    <3>1. SourceFirst'
      <4> SUFFICES ASSUME Origin \in Node, NEW l \in OutSet(Origin) PROVE attrs'[l] # None
        BY DEF SourceFirst
      <4>1. Origin # Net
        BY NetNoNode
      <4>2. attrs[l] # None
        BY <1>1, <2>4, <4>1 DEF Running, SourceFirst
      <4> QED BY <1>4, <4>2 DEF OutSet
    <3>2. PICK made : FlowsBy(made)
      BY <2>4 DEF SInv, Kept
    <3>3. \A l \in Link : Live(l)' <=> Live(l) \/ From[l] \in cone
      BY <1>4 DEF Live
    <3>4. \A l \in Link : From[l] \in cone => ~Live(l) /\ made[From[l]] = 0
      <4> SUFFICES ASSUME NEW l \in Link, From[l] \in cone PROVE ~Live(l) /\ made[From[l]] = 0
        OBVIOUS
      <4>1. From[l] \in Node /\ From[l] # Origin /\ \A k \in OutSet(From[l]) : attrs[k] = None
        BY <1>5, <1>9
      <4>2. made[From[l]] = 0
        BY <3>2, <4>1 DEF FlowsBy, Still
      <4>3. ~Live(l)
        BY <4>1, NetNoNode DEF Live, OutSet
      <4> QED BY <4>2, <4>3
    <3>5. \A n, i : Reads(n, i) = 0 /\ Reads(n, i)' = 0
      BY DEF Reads
    <3>6. Counts(made)'
      BY <2>2, <3>2 DEF FlowsBy, Counts
    <3>7. made \in [Node \cup {Net} -> Nat]
      BY <3>2 DEF FlowsBy, Counts
    <3>8. Outside(made)'
      <4> SUFFICES ASSUME NEW o \in OutputPort
                   PROVE  IF Live(o)' THEN Carries(o, seen[o], made[From[o]])' ELSE seen'[o] = 0
        BY DEF Outside
      <4>1. o \in Link /\ IF Live(o) THEN Carries(o, seen[o], made[From[o]]) ELSE seen[o] = 0
        BY <3>2, GraphAssumption DEF FlowsBy, Outside
      <4>2. CASE From[o] \in cone
        <5>1. seen'[o] = 0 /\ made[From[o]] = 0 /\ Pending(o)' = <<>> /\ Live(o)'
          BY <1>4, <2>2, <3>3, <3>4, <4>1, <4>2
        <5> QED BY <5>1, PartEmpty DEF Carries
      <4>3. CASE From[o] \notin cone
        BY <1>4, <2>2, <3>3, <4>1, <4>3 DEF Carries
      <4> QED BY <4>2, <4>3
    <3>9. Inside(made)'
      <4> SUFFICES ASSUME NEW n \in Node, NEW i \in DOMAIN Inputs[n], Live(Inputs[n][i])'
                   PROVE  Carries(Inputs[n][i], made[n] + Reads(n, i), made[From[Inputs[n][i]]])'
        BY DEF Inside
      <4>1. PICK l : l = Inputs[n][i]
        OBVIOUS
      <4>2. l \in Link /\ l \in InSet(n)
        BY <4>1, InputLink
      <4>3. made[n] \in Nat /\ made[n] + Reads(n, i) = made[n] /\ made[n] + Reads(n, i)' = made[n]
        BY <3>5, <3>7
      <4>4. CASE From[l] \in cone
        <5>1. \A k \in OutSet(n) : attrs[k] = None
          <6> SUFFICES ASSUME NEW k \in OutSet(n), attrs[k] # None PROVE FALSE
            OBVIOUS
          <6>1. attrs[l] # None
            BY <1>1, <4>2 DEF Upstream, OutSet
          <6> QED BY <3>4, <4>2, <4>4, <6>1 DEF Live
        <5>2. n # Origin
          <6>1. Origin \in Node => Inputs[Origin] = <<>>
            BY <1>1, OriginIs, NetNoNode DEF OneOrigin
          <6>2. Inputs[n] # <<>>
            OBVIOUS
          <6> QED BY <6>1, <6>2
        <5>3. made[n] = 0 /\ made[From[l]] = 0 /\ Pending(l)' = <<>>
          BY <1>4, <3>2, <3>4, <4>2, <4>4, <5>1, <5>2 DEF FlowsBy, Still
        <5>4. Part(Pending(l)', Logged', made[n], made[From[l]])
          BY <5>3, PartEmpty
        <5> QED BY <4>1, <4>3, <5>4 DEF Carries
      <4>5. CASE From[l] \notin cone
        <5>1. Live(l) /\ Pending(l)' = Pending(l)
          BY <1>4, <3>3, <4>1, <4>2, <4>5
        <5>2. Carries(l, made[n] + Reads(n, i), made[From[l]])
          BY <3>2, <4>1, <5>1 DEF FlowsBy, Inside
        <5> QED BY <2>2, <4>1, <4>3, <5>1, <5>2 DEF Carries
      <4> QED BY <4>4, <4>5
    <3>10. Still(made)'
      <4> SUFFICES ASSUME NEW n \in Node \ {Origin}, \A l \in OutSet(n) : attrs'[l] = None
                   PROVE  made[n] = 0
        BY DEF Still
      <4>1. \A l \in OutSet(n) : attrs[l] = None
        BY <1>4 DEF OutSet
      <4> QED BY <3>2, <4>1 DEF FlowsBy, Still
    <3>11. Reading(made)'
      BY DEF Reading
    <3> QED BY <1>7, <2>3, <3>1, <3>6, <3>8, <3>9, <3>10, <3>11 DEF Kept, FlowsBy
  <2>5. CASE ~Running
    <3>1. /\ FromSource /\ Origin # Net /\ \A l \in Link : attrs[l] = None
      BY <1>1, <2>5, OriginIs DEF Running, OneOrigin
    <3>2. cone = {}
      BY <1>1, <1>2, <1>9, <3>1, ConeReachesSource DEF cone
    <3>3. \A l \in Link : attrs'[l] = None
      BY <1>4, <3>1, <3>2
    <3>4. ~Running' /\ SourceFirst'
      BY <3>1, <3>3 DEF Running, SourceFirst
    <3> QED BY <1>7, <2>3, <3>4 DEF Kept
  <2> QED BY <2>4, <2>5
<1> QED BY <1>8, <1>9

(* Where the data come from a source, no node is at an input port.         *)
LEMMA SourceWithoutInput ==
  ASSUME FromSource, OneOrigin
  PROVE  Origin # Net /\ Entry = {} /\ InputPort = {}
BY OriginIs, NetNoNode DEF FromSource, Entry

(* A reset with an input port erases every node's attributes, and the port *)
(* is cleared: nothing of the data before is left.                         *)
LEMMA ResetStreams ==
  ASSUME Streaming, SInv, Reset
  PROVE  Kept' /\ Streams
<1>1. /\ OneOrigin /\ Acyclic /\ Histories /\ SourceFirst /\ Inv /\ goal = NoLink
      /\ attrs \in [Link -> SUBSET Token] /\ stack = <<>> /\ stack' = <<>>
  BY Idle DEF SInv, Kept, Inv, TypeOK, Streaming, Reset, Call, pullVars
<1>2. PICK e : e = Erased(attrs, Entry)
  OBVIOUS
<1>3. Configure(e, Unconfigured(e, OutputPort), InputPort)
  BY <1>2 DEF Reset
<1>4. CASE FromSource
  <2>1. Entry = {} /\ InputPort = {}
    BY <1>1, <1>4, SourceWithoutInput
  <2>2. Successors({}) = {}
    <3> SUFFICES ASSUME NEW m \in Successors({}) PROVE FALSE
      OBVIOUS
    <3>1. PICK s \in SUBSET Node : s = {}
      OBVIOUS
    <3>2. {} \subseteq s /\ \A k \in Node : (\E l \in InSet(k) : From[l] \in s) => k \in s
      BY <3>1
    <3>3. m \in s
      BY <3>2 DEF Successors
    <3> QED BY <3>1, <3>3
  <2>3. e = attrs
    BY <1>1, <1>2, <2>1, <2>2 DEF Erased
  <2>4. Configure(attrs, Unconfigured(attrs, OutputPort), {})
    BY <1>3, <2>1, <2>3
  <2> QED BY <1>1, <2>4, ConfigureStreams
<1>5. CASE FromPort
  <2>1. Origin = Net /\ InputPort = OutSet(Net) /\ InputPort # {} /\ Source = {}
    BY <1>1, <1>5, OriginIs DEF FromPort
  <2>2. Node \subseteq Successors(Entry)
    <3>1. Entry \subseteq Node
      BY DEF Entry
    <3>2. ASSUME NEW n \in Node PROVE n \in Entry \/ \E l \in InSet(n) : From[l] \in Node
      <4>1. PICK l \in InSet(n) : l \in Link
        BY <2>1, FirstInput
      <4> QED BY <2>1, <4>1, GraphAssumption DEF Entry, OutSet
    <3> QED BY <1>1, <3>1, <3>2, SuccessorsAll
  <2>3. \A l \in Link : From[l] # Net => e[l] = None
    BY <1>2, <2>2, GraphAssumption DEF Erased
  <2>4. e \in [Link -> SUBSET Token] /\ Unconfigured(e, OutputPort) \subseteq Node /\ InputPort \in SUBSET Link
    BY <1>1, <1>2, UnconfiguredNodes DEF Erased, None, InputPort, OutSet
  <2>5. ASSUME NEW l \in Link, Live(l)' PROVE Pending(l)' = <<>>
    <3> DEFINE cone == Cone(e, Unconfigured(e, OutputPort))
    <3>1. /\ attrs'[l] # None => e[l] # None \/ From[l] \in cone \/ From[l] = Net
          /\ Pending(l)' = IF From[l] \in cone \/ l \in InputPort THEN <<>> ELSE Pending(l)
      BY <1>1, <1>3, <2>4, ConfigureLinks
    <3> HIDE DEF cone
    <3>2. CASE From[l] = Net
      BY <2>1, <3>1, <3>2 DEF OutSet
    <3>3. CASE From[l] # Net
      BY <2>3, <2>5, <3>1, <3>3 DEF Live
    <3> QED BY <3>2, <3>3
  <2>6. /\ log' = [n \in Source \cup {Net} |-> <<>>] /\ seen' = [o \in OutputPort |-> 0] /\ result' = result
    BY <1>3, <2>1 DEF Configure
  <2>7. Blank'
    BY <1>1, <2>1, <2>5, <2>6 DEF Blank, Logged
  <2>8. SourceFirst'
    BY <2>1, NetNoNode DEF SourceFirst
  <2>9. Histories'
    <3>1. <<>> \in Seq(Whole) /\ 0 \in Nat
      OBVIOUS
    <3> QED BY <1>1, <2>6, <3>1 DEF Histories
  <2> QED BY <2>6, <2>7, <2>8, <2>9, BlankStreams
<1> QED BY <1>1, <1>4, <1>5 DEF OneOrigin

(* Attributes are put at the port before anything downstream of it has     *)
(* some.                                                                   *)
LEMMA PutAttributesStreams ==
  ASSUME Streaming, SInv, NEW i \in InputPort, PutAttributes(i)
  PROVE  Kept' /\ Streams
<1>1. /\ OneOrigin /\ Histories /\ goal = NoLink
      /\ attrs \in [Link -> SUBSET Token] /\ stack = <<>> /\ stack' = <<>>
      /\ slot \in [Link -> Packets \cup {Empty}] /\ queue \in [Link -> Seq(Packets)]
  BY Idle DEF SInv, Kept, Inv, TypeOK, Streaming, PutAttributes, Call, pullVars
<1>2. FromPort /\ ~LateAttributes /\ Origin = Net /\ InputPort = {i} /\ InputPort = OutSet(Net)
  <2>1. FromPort
    BY <1>1 DEF OneOrigin, FromSource
  <2> QED BY <1>1, <2>1, OriginIs DEF FromPort
<1>3. /\ \A l \in Link : l # i => attrs[l] = None /\ attrs'[l] = attrs[l]
      /\ slot' = [slot EXCEPT ![i] = Empty] /\ queue' = [queue EXCEPT ![i] = <<>>]
      /\ log' = [log EXCEPT ![Net] = <<>>] /\ seen' = [o \in OutputPort |-> 0] /\ result' = result
  BY <1>1, <1>2 DEF PutAttributes
<1>4. i \in Link /\ From[i] = Net /\ \A l \in Link : From[l] = Net => l = i
  BY <1>2 DEF OutSet
<1>5. ASSUME NEW l \in Link, Live(l)' PROVE Pending(l)' = <<>>
  <2>1. l = i
    BY <1>3, <1>4, <1>5 DEF Live
  <2> QED BY <1>1, <1>3, <1>4, <2>1 DEF Pending
<1>6. log \in [Source \cup {Net} -> Seq(Whole)] /\ Net \in Source \cup {Net} /\ <<>> \in Seq(Whole)
  BY <1>1 DEF Histories
<1>7. Blank'
  BY <1>1, <1>2, <1>3, <1>5, <1>6 DEF Blank, Logged
<1>8. SourceFirst'
  BY <1>2, NetNoNode DEF SourceFirst
<1>9. Histories'
  <2>1. log' \in [Source \cup {Net} -> Seq(Whole)]
    BY <1>3, <1>6
  <2> QED BY <1>1, <1>3, <2>1 DEF Histories
<1> QED BY <1>3, <1>7, <1>8, <1>9, BlankStreams

(* A source whose parameter is set has everything configured anew before   *)
(* it is read again.                                                       *)
LEMMA SetParameterStreams ==
  ASSUME Streaming, SInv, NEW n \in Tunable, SetParameter(n)
  PROVE  Kept' /\ Streams
<1>1. /\ OneOrigin /\ Acyclic /\ Histories /\ goal = NoLink
      /\ attrs \in [Link -> SUBSET Token] /\ stack = <<>> /\ stack' = <<>>
      /\ log' = log /\ seen' = seen /\ result' = result /\ attrs' = Erased(attrs, {n})
  BY Idle DEF SInv, Kept, Inv, TypeOK, Streaming, SetParameter, Call, pullVars, historyVars
<1>2. FromSource /\ Origin # Net /\ n \in Node /\ Source = {n} /\ \A l \in Link : From[l] \in Node
  <2>1. FromSource
    BY <1>1 DEF OneOrigin, FromPort
  <2>2. Source = {Origin} /\ n \in Source /\ Origin \in Node /\ Origin # Net
    BY <1>1, <2>1, OriginIs, NetNoNode DEF FromSource
  <2> QED BY <1>1, <2>1, <2>2, OriginIs
<1>3. Node \subseteq Successors({n})
  <2>1. ASSUME NEW m \in Node PROVE m \in {n} \/ \E l \in InSet(m) : From[l] \in Node
    BY <1>2, FirstInput
  <2> QED BY <1>1, <1>2, <2>1, SuccessorsAll
<1>4. \A l \in Link : attrs'[l] = None
  BY <1>1, <1>2, <1>3 DEF Erased
<1>5. ~Running' /\ SourceFirst'
  BY <1>2, <1>4 DEF Running, SourceFirst
<1>6. Histories' /\ Upwards' /\ Streams
  BY <1>1 DEF Histories, Upwards, Streams, Stream!vars
<1> QED BY <1>5, <1>6 DEF Kept

(* putData at the port, by the client or by the network.                   *)
LEMMA PutDataStreams ==
  ASSUME Streaming, SInv, NEW i \in InputPort, PutData(i) \/ PutEos(i) \/ PutOod(i)
  PROVE  Kept' /\ Streams
<1>1. Call /\ \E d \in {Data({<<Net, calls', 0>>}), Eos, Ood, lastNonData} : Input(i, d)
  BY DEF PutData, PutEos, PutOod
<1>2. PICK d \in {Data({<<Net, calls', 0>>}), Eos, Ood, lastNonData} : Input(i, d)
  BY <1>1
<1>3. calls' \in 0 .. MaxCalls /\ lastNonData \in Sentinel
  BY <1>1, CallBasics DEF SInv, Inv, TypeOK
<1>4. {<<Net, calls', 0>>} \in SUBSET Stamp
  BY <1>3 DEF Stamp
<1>5. d \in Whole
  BY <1>3, <1>4 DEF Whole, Sentinel
<1> QED BY <1>2, <1>5, InputStreams

(* Network::work puts the last sentinel, like a putData of the client.     *)
LEMMA RepeatStreams ==
  ASSUME Streaming, SInv, RepeatNonData
  PROVE  Kept' /\ Streams
<1>1. Demanded \in Link /\ From[Demanded] = Net /\ Input(Demanded, lastNonData)
  BY DemandedFact DEF RepeatNonData, SInv
<1>2. PICK i, d : i = Demanded /\ d = lastNonData
  OBVIOUS
<1>3. i \in InputPort /\ d \in Whole
  BY <1>1, <1>2 DEF InputPort, OutSet, SInv, Inv, TypeOK, Whole
<1>4. Input(i, d)
  BY <1>1, <1>2
<1> QED BY <1>3, <1>4, InputStreams

(* Both getData and getAttributes of an output port configure what it      *)
(* needs.                                                                  *)
LEMMA GetStreams ==
  ASSUME Streaming, SInv, NEW o \in OutputPort, GetAttribute(o) \/ GetData(o)
  PROVE  Kept' /\ Streams
<1>1. goal = NoLink /\ Configure(attrs, Unconfigured(attrs, {o}), {})
  BY DEF GetAttribute, GetData, Call
<1>2. stack = <<>>
  BY <1>1, Idle
<1>3. stack' = <<>>
  BY <1>2 DEF GetAttribute, GetData, pullVars
<1> QED BY <1>1, <1>2, <1>3, ConfigureStreams

(* A step that changes nothing is one of the stream.                       *)
LEMMA UnchangedStreams ==
  ASSUME Streaming, SInv, UNCHANGED vars
  PROVE  Kept' /\ Streams
<1>1. /\ UNCHANGED <<slot, queue, attrs, stack, log, seen, result>>
  BY DEF vars, linkVars, pullVars, historyVars
<1>2. Histories' /\ Upwards' /\ SourceFirst' /\ Streams
  BY <1>1 DEF SInv, Kept, Histories, Upwards, SourceFirst, Streams, Stream!vars
<1>3. ASSUME Running' PROVE Flowing'
  <2>1. PICK made : FlowsBy(made)
    BY <1>1, <1>3 DEF SInv, Kept, Running
  <2>2. FlowsBy(made)'
    BY <1>1, <2>1 DEF FlowsBy, Counts, Outside, Inside, Still, Reading, Logged, Live, Carries, Pending, Reads
  <2> QED BY <2>2 DEF Flowing
<1> QED BY <1>2, <1>3 DEF Kept, Flowing

(* Every step maps to one of the stream or to none.                        *)
LEMMA StreamStep ==
  ASSUME Streaming, SInv, [Next]_vars
  PROVE  Kept' /\ Streams
<1>1. CASE Take
  BY <1>1, DeliverStreams, ReadStreams
<1>2. CASE Work
  BY <1>2, WorkStreams
<1>3. CASE RepeatNonData
  BY <1>3, RepeatStreams
<1>4. CASE Put
  BY <1>4, PutStreams
<1>5. CASE \E i \in InputPort : PutData(i) \/ PutEos(i) \/ PutOod(i) \/ PutAttributes(i)
  BY <1>5, PutDataStreams, PutAttributesStreams
<1>6. CASE \E n \in Tunable : SetParameter(n)
  BY <1>6, SetParameterStreams
<1>7. CASE \E o \in OutputPort : GetAttribute(o) \/ GetData(o)
  BY <1>7, GetStreams
<1>8. CASE Reset
  BY <1>8, ResetStreams
<1>9. CASE UNCHANGED vars
  BY <1>9, UnchangedStreams
<1> QED BY <1>1, <1>2, <1>3, <1>4, <1>5, <1>6, <1>7, <1>8, <1>9
        DEF Next, PullStep, ClientStep, Finished

(* The initial states map to initial states.                               *)
LEMMA StreamInit ==
  ASSUME Streaming, Init
  PROVE  Kept /\ Stream!Init
<1>1. OneOrigin /\ Origin \in Source \cup {Net}
  BY OriginIs DEF Streaming
<1>2. /\ \A l \in Link : attrs[l] = None /\ Pending(l) = <<>>
      /\ stack = <<>> /\ seen = [o \in OutputPort |-> 0] /\ Logged = <<>>
  BY <1>1 DEF Init, Pending, Logged
<1>3. Blank
  BY <1>2 DEF Blank
<1>4. Flowing
  BY <1>1, <1>3, Restarted
<1>5. Eos \in Packets
  BY SentinelPackets DEF Sentinel
<1>6. Histories
  <2>1. <<>> \in Seq(Whole) /\ 0 \in Nat
    OBVIOUS
  <2> QED BY <1>5, <2>1 DEF Init, Histories
<1>7. Upwards /\ SourceFirst
  BY <1>2 DEF Upwards, SourceFirst
<1>8. Stream!Init
  BY <1>2, <1>6 DEF Stream!Init, Logged, Histories
<1> QED BY <1>4, <1>6, <1>7, <1>8 DEF Kept, Flowing

(* FlowNetwork implements FlowStream, for every graph of this kind.  Every *)
(* output delivers the packets that the port or the source has put since   *)
(* the last restart, in their order and each of them once, however the     *)
(* graph splits and joins them, whatever one output leaves in the queues   *)
(* for another (Link.hh:72-120, Merger.hh:78-100), and whatever the client *)
(* resets, configures or sets in between (Node.cc:251, Network.cc:684).    *)
THEOREM OneStream == Streaming => (Spec => StreamOK)
<1> SUFFICES ASSUME Streaming PROVE Spec => StreamOK
  OBVIOUS
<1>1. Init => SInv /\ Stream!Init
  BY Initially, StreamInit DEF SInv, Kept
<1>2. SInv /\ [Next]_vars => SInv' /\ Streams
  <2> SUFFICES ASSUME SInv, [Next]_vars PROVE SInv' /\ Streams
    OBVIOUS
  <2>1. Inv'
    BY Inductive DEF SInv
  <2>2. Kept' /\ Streams
    BY StreamStep
  <2> QED BY <2>1, <2>2 DEF SInv, Kept
<1> QED BY <1>1, <1>2, PTL DEF Spec, StreamOK, Stream!Spec, Streams
=============================================================================
