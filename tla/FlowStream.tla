----------------------------- MODULE FlowStream -----------------------------
(***************************************************************************)
(* What a Flow network with one origin of data, an input port or a source  *)
(* node, is to its users: every output delivers the packets of one log, in *)
(* their order and each of them once, however the outputs take turns.      *)
(***************************************************************************)
EXTENDS Naturals, Sequences

CONSTANTS Output, Packet

VARIABLES log,     \* packets of the origin since the last restart
          seen,    \* how many of them each output has delivered
          result   \* the packet each output delivered last

vars == <<log, seen, result>>

Init == log = <<>> /\ seen = [o \in Output |-> 0] /\ result \in [Output -> Packet]

Produce ==
  /\ log' # <<>> /\ log'[Len(log')] \in Packet
  /\ log' = Append(log, log'[Len(log')])
  /\ UNCHANGED <<seen, result>>

Deliver(o) ==
  /\ seen[o] < Len(log)
  /\ result' = [result EXCEPT ![o] = log[seen[o] + 1]]
  /\ seen' = [seen EXCEPT ![o] = @ + 1]
  /\ UNCHANGED log

Restart == log' = <<>> /\ seen' = [o \in Output |-> 0] /\ UNCHANGED result

Next == Produce \/ (\E o \in Output : Deliver(o)) \/ Restart

Spec == Init /\ [][Next]_vars
=============================================================================
