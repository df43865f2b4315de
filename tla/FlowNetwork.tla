---------------------------- MODULE FlowNetwork ----------------------------
(***************************************************************************)
(* Flow: a network of nodes joined by links (Flow/Network, AbstractNode,   *)
(* Node, Link, Queue).  Data are pulled: getData on a link that holds none *)
(* calls work() of the node the link comes from, which pulls its own       *)
(* inputs first and then puts a packet on all its links.  Attributes flow  *)
(* the same way: configure() of a node asks for the attributes of its      *)
(* inputs, configuring the nodes they come from if need be.                *)
(*                                                                         *)
(* One thread runs all of it, so a call of the client is a sequence of     *)
(* steps without interruption: a pull keeps a stack of work() calls, one   *)
(* step per packet taken, call made or packet put.  Configuration and the  *)
(* erasure of attributes reach a set of nodes that is a least fixed point  *)
(* over the graph, in one step.                                            *)
(*                                                                         *)
(* Nodes have one output port with any number of links.  A node without    *)
(* inputs is a source (Audio::SourceNode), one with a single input passes  *)
(* on what it reads (RepeaterNode), one with several merges (MergerNode).  *)
(***************************************************************************)
EXTENDS Integers, Sequences, FiniteSets

CONSTANTS Node, Link,
          Net,           \* the network itself, where input port links come from
          From,          \* the node, or Net, each link comes from
          Inputs,        \* the links at the input ports of each node
          OutputPort,    \* the links that getData of the network reads
          Tunable,       \* nodes with a network parameter
          Threaded,      \* nodes with parameter threaded
          NoLink,
          MaxCalls,      \* bound: calls of the client
          SourceLength,  \* packets a source has before the end of its stream
          LateAttributes \* whether putAttributes is called on a configured network

InSet(n) == {Inputs[n][i] : i \in DOMAIN Inputs[n]}
OutSet(n) == {l \in Link : From[l] = n}
InputPort == OutSet(Net)
Source == {n \in Node : Inputs[n] = <<>>}

ASSUME GraphAssumption ==
  /\ Net \notin Node /\ NoLink \notin Link
  /\ From \in [Link -> Node \cup {Net}]
  /\ Inputs \in [Node -> Seq(Link)]
  /\ OutputPort \subseteq Link /\ \A o \in OutputPort : From[o] \in Node
  /\ Tunable \subseteq Node
ASSUME BoundAssumption == MaxCalls \in Nat /\ SourceLength \in Nat

VARIABLES
  fast,         \* Link::is_fast_
  slot,         \* Link::fast_data_
  queue,        \* Link::queue_
  attrs,        \* Link::attributes_, as the set of what they were derived from
  version,      \* the value of each node's network parameter
  position,     \* packets each source has delivered since it was configured
  lastNonData,  \* Network::lastNonData_
  goal,         \* the output port link a getData is under way for
  stack,        \* the calls of work() under way, the innermost first
  calls,
  log, seen, result    \* history: see FlowStream

linkVars    == <<fast, slot, queue>>
pullVars    == <<goal, stack>>
historyVars == <<log, seen, result>>
vars == <<linkVars, attrs, version, position, lastNonData, pullVars, calls, historyVars>>

-----------------------------------------------------------------------------
(* Packets.                                                                *)

Made(k, f) == [kind |-> k, from |-> f]
Empty == Made("empty", {})      \* Link's sentinel of an empty slot
Eos   == Made("eos", {})
Ood   == Made("ood", {})
Stamp == (Node \cup {Net}) \X (0 .. MaxCalls) \X Nat
Data(stamps) == Made("data", stamps)
Sentinel == {Eos, Ood}
Packets  == [kind : {"data", "eos", "ood"}, from : SUBSET Stamp]

None   == {}
Token  == (Node \cup {Net}) \X Nat

Init ==
  /\ fast = [l \in Link |-> l \in InputPort]   \* connectInputPortLink configures these
  /\ slot = [l \in Link |-> Empty]
  /\ queue = [l \in Link |-> <<>>]
  /\ attrs = [l \in Link |-> None]
  /\ version = [n \in Node |-> 0]
  /\ position = [n \in Source |-> 0]
  /\ lastNonData = Eos
  /\ goal = NoLink /\ stack = <<>> /\ calls = 0
  /\ log = [n \in Source \cup {Net} |-> <<>>]
  /\ seen = [o \in OutputPort |-> 0] /\ result = [o \in OutputPort |-> Eos]

-----------------------------------------------------------------------------
(* Link.                                                                   *)

Available(l) == slot[l] # Empty \/ queue[l] # <<>>

(* Mutant of PutOn: the slot is used although packets are queued behind it. *)
PutOnAnySlot(ls, d) ==
  /\ slot' = [l \in Link |-> IF l \in ls /\ fast[l] /\ slot[l] = Empty THEN d ELSE slot[l]]
  /\ queue' = [l \in Link |-> IF l \in ls /\ ~(fast[l] /\ slot[l] = Empty)
                              THEN Append(queue[l], d) ELSE queue[l]]
  /\ UNCHANGED fast

(* Mutant of PutOn: the slot is moved to the queue even when it is empty. *)
PutOnMovesAny(ls, d) ==
  /\ slot' = [l \in Link |-> IF l \in ls THEN Empty ELSE slot[l]]
  /\ queue' = [l \in Link |-> IF l \notin ls THEN queue[l]
                              ELSE IF fast[l] /\ queue[l] = <<>> THEN <<slot[l], d>>
                              ELSE Append(queue[l], d)]
  /\ UNCHANGED fast

(* Link::putData of d on the links ls: a fast link that holds nothing takes *)
(* it in its slot, and moves the slot to the queue when it holds more.      *)
ToSlot(l)  == fast[l] /\ queue[l] = <<>> /\ slot[l] = Empty
Spills(l)  == fast[l] /\ queue[l] = <<>> /\ slot[l] # Empty
PutOn(ls, d) ==
  /\ slot' = [l \in Link |-> IF l \notin ls THEN slot[l]
                             ELSE IF ToSlot(l) THEN d
                             ELSE IF Spills(l) THEN Empty ELSE slot[l]]
  /\ queue' = [l \in Link |-> IF l \notin ls \/ ToSlot(l) THEN queue[l]
                              ELSE IF Spills(l) THEN <<slot[l], d>> ELSE Append(queue[l], d)]
  /\ UNCHANGED fast

(* Link::getData *)
FromSlot(l) == fast[l] /\ slot[l] # Empty

First(l) == IF FromSlot(l) THEN slot[l] ELSE Head(queue[l])
TakeFrom(l) ==
  /\ slot'  = IF FromSlot(l) THEN [slot EXCEPT ![l] = Empty] ELSE slot
  /\ queue' = IF FromSlot(l) THEN queue ELSE [queue EXCEPT ![l] = Tail(@)]
  /\ UNCHANGED fast

-----------------------------------------------------------------------------
(* Attributes.                                                             *)

(* Mutant of Successors: the recursion stops after the first node. *)
SuccessorsOnce(ns) == ns

(* the nodes that eraseOutputAttributes reaches from the nodes ns *)
Successors(ns) ==
  {m \in Node : \A s \in SUBSET Node :
     /\ ns \subseteq s
     /\ \A k \in Node : (\E l \in InSet(k) : From[l] \in s) => k \in s
     => m \in s}

Erased(a, ns) ==
  LET reached == Successors(ns)
  IN  [l \in Link |-> IF From[l] \in reached THEN None ELSE a[l]]

(* the nodes whose configure() is called when those of ns are configured:  *)
(* a node configures the nodes its input links without attributes are from *)
Cone(a, ns) ==
  {m \in Node : \A s \in SUBSET Node :
     /\ ns \subseteq s
     /\ \A k \in s : \A l \in InSet(k) : a[l] = None /\ From[l] \in Node => From[l] \in s
     => m \in s}

(* Network::configure: empty attributes for input port links without one *)
InputAttrs(a, l) == IF From[l] = Net /\ a[l] = None THEN {<<Net, 0>>} ELSE a[l]

AsksNetwork(a, ns) == \E k \in ns : \E l \in InSet(k) : From[l] = Net /\ a[l] = None

(* the attributes node n puts on its links: its own, merged with its inputs' *)
Derived(a, n) ==
  LET cone == Cone(a, {n})
  IN  {<<m, version[m]>> : m \in cone}
        \cup UNION {UNION {InputAttrs(a, l) : l \in InSet(m)} : m \in cone}

(* the attributes after the configuration of the nodes cone *)
Configured(a, cone) ==
  [l \in Link |-> IF From[l] \in cone THEN Derived(a, From[l])
                  ELSE IF AsksNetwork(a, cone) THEN InputAttrs(a, l) ELSE a[l]]

(* Mutant of Fresh: putOutputAttributes does not clear the links. *)
FreshNone(cone) == {}

(* the links putOutputAttributes configures and clears *)
Fresh(cone) == {l \in Link : From[l] \in cone}

(* Mutant of Unconfigured: the first output port read decides for all. *)
UnconfiguredUnlessAny(a, os) ==
  IF \E o \in OutputPort : a[o] # None THEN {} ELSE {From[o] : o \in os}

(* the nodes that have to be configured before the output ports os are read *)
Unconfigured(a, os) == {From[o] : o \in {p \in os : a[p] = None}}

(* The sources among ns seek to their start time, as they do when they are  *)
(* configured and when their start time is set.                             *)
Rewound(ns) == [m \in Source |-> IF m \in ns THEN 0 ELSE position[m]]

(* From attributes a, configure the nodes ns; the links in cleared are      *)
(* cleared as well.                                                         *)
Configure(a, ns, cleared) ==
  LET cone    == Cone(a, ns)
      empty   == Fresh(cone) \cup cleared
      started == (cone \cap Source) \cup (IF cleared = {} THEN {} ELSE {Net})
  IN  /\ attrs' = Configured(a, cone)
      /\ fast'  = [l \in Link |-> IF From[l] \in cone THEN From[l] \notin Threaded ELSE fast[l]]
      /\ slot'  = [l \in Link |-> IF l \in empty THEN Empty ELSE slot[l]]
      /\ queue' = [l \in Link |-> IF l \in empty THEN <<>> ELSE queue[l]]
      /\ position' = Rewound(cone)
      /\ log' = [n \in Source \cup {Net} |-> IF n \in started THEN <<>> ELSE log[n]]
      /\ seen' = IF started = {} THEN seen ELSE [o \in OutputPort |-> 0]
      /\ UNCHANGED result

-----------------------------------------------------------------------------
(* Calls of the client.                                                    *)

Call == goal = NoLink /\ calls < MaxCalls /\ calls' = calls + 1

Input(i, d) ==
  /\ PutOn({i}, d)
  /\ lastNonData' = IF d \in Sentinel THEN d ELSE lastNonData
  /\ log' = [log EXCEPT ![Net] = Append(@, d)]
  /\ UNCHANGED <<attrs, version, position, pullVars, seen, result>>

(* Network::putData of a packet or of a sentinel *)
PutData(i) ==
  /\ Call
  /\ \E d \in {Data({<<Net, calls', 0>>}), Eos, Ood} : Input(i, d)

PutEos(i) == Call /\ Input(i, lastNonData)
PutOod(i) == Call /\ Input(i, lastNonData)

(* Network::putAttributes sets the attributes of the input port link only *)
PutAttributes(i) ==
  /\ Call
  /\ LateAttributes \/ \A l \in Link \ InputPort : attrs[l] = None
  /\ attrs' = [attrs EXCEPT ![i] = {<<Net, calls'>>}]
  /\ fast'  = [fast EXCEPT ![i] = Net \notin Threaded]
  /\ slot'  = [slot EXCEPT ![i] = Empty]
  /\ queue' = [queue EXCEPT ![i] = <<>>]
  /\ log'   = [log EXCEPT ![Net] = <<>>]
  /\ seen'  = [o \in OutputPort |-> 0]
  /\ UNCHANGED <<version, position, lastNonData, pullVars, result>>

(* Mutant of SetParameter: the attributes are not erased. *)
SetParameterKeep(n) ==
  /\ Call
  /\ version' = [version EXCEPT ![n] = calls']
  /\ position' = Rewound({n})
  /\ UNCHANGED <<linkVars, attrs, lastNonData, pullVars, historyVars>>

(* setUserDefinedParameter, for a parameter that node n uses; an audio      *)
(* source seeks as soon as its start time is set                           *)
SetParameter(n) ==
  /\ Call
  /\ version' = [version EXCEPT ![n] = calls']
  /\ attrs' = Erased(attrs, {n})
  /\ position' = Rewound({n})
  /\ UNCHANGED <<linkVars, lastNonData, pullVars, historyVars>>

GetAttribute(o) ==
  /\ Call
  /\ Configure(attrs, Unconfigured(attrs, {o}), {})
  /\ UNCHANGED <<version, lastNonData, pullVars>>

GetData(o) ==
  /\ Call
  /\ Configure(attrs, Unconfigured(attrs, {o}), {})
  /\ goal' = o /\ stack' = <<>>
  /\ UNCHANGED <<version, lastNonData>>

(* the nodes at the input ports *)
Entry == {n \in Node : InSet(n) \cap InputPort # {}}

Reset ==
  /\ Call
  /\ LET e == Erased(attrs, Entry) IN Configure(e, Unconfigured(e, OutputPort), InputPort)
  /\ UNCHANGED <<version, lastNonData, pullVars>>

-----------------------------------------------------------------------------
(* Steps of a pull.                                                        *)

(* A call of work(): the inputs read so far, the data in them, and the     *)
(* first sentinel among them.                                              *)
Frame(n) == [node |-> n, reads |-> 0, from |-> {}, null |-> Empty]
Frames   == [node : Node, reads : Nat, from : SUBSET Stamp, null : Sentinel \cup {Empty}]

With(f, d) ==
  [node |-> f.node, reads |-> f.reads + 1, from |-> f.from \cup d.from,
   null |-> IF f.null = Empty /\ d \in Sentinel THEN d ELSE f.null]

Complete(f) == f.reads = Len(Inputs[f.node])
Demanded == IF stack = <<>> THEN goal
            ELSE Inputs[Head(stack).node][Head(stack).reads + 1]
Wanting == goal # NoLink /\ (stack # <<>> => ~Complete(Head(stack)))

(* AbstractNode::getData on a link that holds a packet *)
Take ==
  /\ Wanting /\ Available(Demanded)
  /\ TakeFrom(Demanded)
  /\ IF stack = <<>>
     THEN /\ goal' = NoLink
          /\ seen' = [seen EXCEPT ![goal] = @ + 1]
          /\ result' = [result EXCEPT ![goal] = First(goal)]
          /\ UNCHANGED stack
     ELSE /\ stack' = <<With(Head(stack), First(Demanded))>> \o Tail(stack)
          /\ UNCHANGED <<goal, seen, result>>
  /\ UNCHANGED <<attrs, version, position, lastNonData, calls, log>>

(* AbstractNode::getData calls work() of the node the link is from *)
Work ==
  /\ Wanting /\ ~Available(Demanded) /\ From[Demanded] \in Node
  /\ stack' = <<Frame(From[Demanded])>> \o stack
  /\ UNCHANGED <<linkVars, attrs, version, position, lastNonData, goal, calls, historyVars>>

(* Network::work, for an input port *)
RepeatNonData ==
  /\ Wanting /\ ~Available(Demanded) /\ From[Demanded] = Net
  /\ Input(Demanded, lastNonData)
  /\ UNCHANGED calls

(* what a node makes of what it has read: the first sentinel, or data *)
Merged(f) == IF f.null = Empty THEN Data(f.from) ELSE f.null

Read(n) == IF position[n] < SourceLength THEN Data({<<n, version[n], position[n]>>}) ELSE Eos

Advanced(n) == [position EXCEPT ![n] = IF @ < SourceLength THEN @ + 1 ELSE @]

(* Mutant of Put: a node that reads a sentinel puts nothing. *)
PutDataOnly ==
  /\ stack # <<>> /\ Complete(Head(stack))
  /\ LET n == Head(stack).node
         d == IF n \in Source THEN Read(n) ELSE Merged(Head(stack))
     IN  /\ IF d \in Sentinel THEN UNCHANGED linkVars ELSE PutOn(OutSet(n), d)
         /\ position' = IF n \in Source THEN Advanced(n) ELSE position
         /\ log' = IF n \in Source /\ d \notin Sentinel THEN [log EXCEPT ![n] = Append(@, d)] ELSE log
  /\ stack' = Tail(stack)
  /\ UNCHANGED <<attrs, version, lastNonData, goal, calls, seen, result>>

(* the end of a node's work(): putData on all links of its output *)
Put ==
  /\ stack # <<>> /\ Complete(Head(stack))
  /\ LET n == Head(stack).node
         d == IF n \in Source THEN Read(n) ELSE Merged(Head(stack))
     IN  /\ PutOn(OutSet(n), d)
         /\ position' = IF n \in Source THEN Advanced(n) ELSE position
         /\ log' = IF n \in Source THEN [log EXCEPT ![n] = Append(@, d)] ELSE log
  /\ stack' = Tail(stack)
  /\ UNCHANGED <<attrs, version, lastNonData, goal, calls, seen, result>>

-----------------------------------------------------------------------------
PullStep == Take \/ Work \/ RepeatNonData \/ Put

ClientStep ==
  \/ \E i \in InputPort : PutData(i) \/ PutEos(i) \/ PutOod(i) \/ PutAttributes(i)
  \/ \E n \in Tunable : SetParameter(n)
  \/ \E o \in OutputPort : GetAttribute(o) \/ GetData(o)
  \/ Reset

Finished == goal = NoLink /\ calls = MaxCalls /\ UNCHANGED vars

Next == PullStep \/ ClientStep \/ Finished

Spec == Init /\ [][Next]_vars

(* A call, once made, runs to its end. *)
FairSpec == Spec /\ WF_vars(PullStep)

-----------------------------------------------------------------------------
(* Properties                                                              *)

TypeOK ==
  /\ fast \in [Link -> BOOLEAN]
  /\ slot \in [Link -> Packets \cup {Empty}]
  /\ queue \in [Link -> Seq(Packets)]
  /\ attrs \in [Link -> SUBSET Token]
  /\ version \in [Node -> 0 .. MaxCalls] /\ position \in [Source -> Nat]
  /\ lastNonData \in Sentinel
  /\ goal \in OutputPort \cup {NoLink}
  /\ stack \in Seq(Frames)
  /\ calls \in 0 .. MaxCalls

(* A link's packets are in its slot or in its queue: getData, which looks  *)
(* at the slot first, would overtake queued packets otherwise (Link.hh:73). *)
SlotOrQueue == \A l \in Link : slot[l] # Empty => queue[l] = <<>> /\ fast[l]

(* No link has attributes while one upstream has none: Network looks at    *)
(* the output port's link only to decide whether anything has to be        *)
(* configured (Network.hh:377).                                            *)
ConfiguredUpstream ==
  \A l \in Link, n \in Node : From[l] = n /\ attrs[l] # None => \A k \in InSet(n) : attrs[k] # None

(* A node's work() runs only while the node is configured.                 *)
WorksConfigured ==
  \A i \in DOMAIN stack : \A l \in OutSet(stack[i].node) : attrs[l] # None

(* The attributes of a link are those its node would put there now.        *)
AttributesCurrent ==
  \A l \in Link : From[l] \in Node /\ attrs[l] # None =>
    attrs[l] = {<<From[l], version[From[l]]>>} \cup UNION {attrs[k] : k \in InSet(From[l])}

(* getData returns.                                                        *)
PullReturns == goal # NoLink ~> goal = NoLink

(* With one origin of data, every output delivers the origin's packets, in *)
(* order and each once, whatever the links in between have queued up for   *)
(* the other outputs and whatever was reset or set in between.             *)
Origin == IF InputPort # {} THEN Net ELSE CHOOSE n \in Source : TRUE
Stream == INSTANCE FlowStream WITH Output <- OutputPort, Packet <- Packets, log <- log[Origin]
StreamOK == Stream!Spec
=============================================================================
