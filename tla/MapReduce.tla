----------------------------- MODULE MapReduce -----------------------------
(***************************************************************************)
(* What Core::ThreadPool promises to the one thread that drives it (class  *)
(* comment and method comments of Core/ThreadPool.hh): a reducer handed to *)
(* combine() sees every task submitted since the last reset() exactly      *)
(* once, whatever the number of worker threads and however they run.       *)
(***************************************************************************)
EXTENDS Naturals, Bags

CONSTANT Task       \* the tasks that may be submitted

VARIABLES todo,     \* tasks submitted since the last reset
          result    \* what the last reducer saw, a bag of tasks

vars == <<todo, result>>

Init == todo = {} /\ result = EmptyBag

Submit  == \E t \in Task \ todo : todo' = todo \cup {t} /\ UNCHANGED result
Reset   == todo' = {} /\ UNCHANGED result
Combine == result' = SetToBag(todo) /\ UNCHANGED todo

Next == Submit \/ Reset \/ Combine

Spec == Init /\ [][Next]_vars
=============================================================================
