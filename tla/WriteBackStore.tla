--------------------------- MODULE WriteBackStore ---------------------------
(***************************************************************************)
(* What Core::ObjectCache promises its clients: objects in directories     *)
(* that are found as they were last changed, and of which the files hold   *)
(* what was current when they were last saved.  A process that dies, or a  *)
(* file that cannot be written, costs what had not been saved.             *)
(***************************************************************************)
EXTENDS Integers

CONSTANTS Dir, Key, Absent, Torn, Scribbled

VARIABLES cur,      \* directory -> key -> the object a client would find
          saved,    \* directory -> key -> what the file holds
          writes,   \* number of changes by clients; the n-th makes value n
          crashes   \* number of crashes

Init ==
  /\ cur = [d \in Dir |-> [k \in Key |-> Absent]]
  /\ saved = cur /\ writes = 0 /\ crashes = 0

Change(d, k) ==
  /\ writes' = writes + 1
  /\ cur' = [cur EXCEPT ![d][k] = writes']
  /\ UNCHANGED <<saved, crashes>>

Clear(d) == cur' = [cur EXCEPT ![d] = [k \in Key |-> Absent]] /\ UNCHANGED <<saved, writes, crashes>>

BeginSave(d, k) == saved' = [saved EXCEPT ![d][k] = Torn] /\ UNCHANGED <<cur, writes, crashes>>
EndSave(d, k)   == saved' = [saved EXCEPT ![d][k] = cur[d][k]] /\ UNCHANGED <<cur, writes, crashes>>

(* A client changes what it found for reading.                             *)
Scribble(d, k) == cur' = [cur EXCEPT ![d][k] = Scribbled] /\ UNCHANGED <<saved, writes, crashes>>

(* What could not be saved, or was changed like that, may be lost when the *)
(* memory is needed for another object.                                    *)
Lose(d, k) ==
  /\ saved[d][k] = Torn \/ cur[d][k] = Scribbled
  /\ cur' = [cur EXCEPT ![d][k] = saved[d][k]]
  /\ UNCHANGED <<saved, writes, crashes>>

Crash == cur' = saved /\ crashes' = crashes + 1 /\ UNCHANGED <<saved, writes>>

Next ==
  \/ \E d \in Dir :
       \/ Clear(d)
       \/ \E k \in Key : Change(d, k) \/ BeginSave(d, k) \/ EndSave(d, k) \/ Scribble(d, k) \/ Lose(d, k)
  \/ Crash

Spec == Init /\ [][Next]_<<cur, saved, writes, crashes>>
=============================================================================
