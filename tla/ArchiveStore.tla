---------------------------- MODULE ArchiveStore ----------------------------
(***************************************************************************)
(* What an Archive (Core/Archive.hh) is to its users: named files that     *)
(* writeFile stores, removeFile deletes and clear drops all of.  Nothing   *)
(* but these calls changes what is stored, so closing the archive and      *)
(* opening it again does not.  After a crash or a repair, nothing is       *)
(* promised here about which files there are.                              *)
(***************************************************************************)
EXTENDS Naturals

CONSTANTS Name, NoName, Value, Absent

VARIABLES store,   \* name -> what readFile returns
          calls,   \* number of calls of these operations
          call,    \* the last of them
          exact    \* no crash and no repair so far

vars == <<store, calls, call, exact>>

Init ==
  /\ store = [n \in Name |-> Absent] /\ calls = 0
  /\ call = [op |-> "none", name |-> NoName, content |-> Absent]
  /\ exact = TRUE

Called(op, n, v) ==
  /\ exact /\ exact' = exact
  /\ calls' = calls + 1
  /\ call' = [op |-> op, name |-> n, content |-> v]

Write(n, v) == Called("write", n, v) /\ store' = [store EXCEPT ![n] = v]

Remove(n) ==
  /\ store[n] # Absent
  /\ Called("remove", n, Absent)
  /\ store' = [store EXCEPT ![n] = Absent]

Clear == Called("clear", NoName, Absent) /\ store' = [n \in Name |-> Absent]

Disturb == ~exact'

Next ==
  \/ \E n \in Name : Remove(n) \/ \E v \in Value : Write(n, v)
  \/ Clear \/ Disturb

Spec == Init /\ [][Next]_vars
=============================================================================
