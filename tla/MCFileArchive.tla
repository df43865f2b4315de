--------------------------- MODULE MCFileArchive ---------------------------
(***************************************************************************)
(* Usages of an archive for TLC.                                           *)
(***************************************************************************)
EXTENDS FileArchive

Clean  == [overwrite |-> TRUE, recover |-> FALSE, tailCrash |-> FALSE, resync |-> BOOLEAN,
           lengths |-> {0, 2}, ops |-> 5, crashes |-> 0]
Crashy == [Clean EXCEPT !.lengths = {1, 3}, !.ops = 4, !.crashes = 1]
Twice  == [Crashy EXCEPT !.ops = 3, !.crashes = 2]
Repair == [Clean EXCEPT !.recover = TRUE, !.tailCrash = TRUE, !.resync = {FALSE},
                        !.lengths = {1, 3}, !.ops = 4, !.crashes = 1]
Aligned == [Repair EXCEPT !.resync = {TRUE}, !.lengths = {0, 3}, !.ops = 3]

AllUsages   == {Clean, Crashy, Twice, Repair, Aligned}
CallRecover == {[Clean EXCEPT !.recover = TRUE, !.ops = 3]}
=============================================================================
