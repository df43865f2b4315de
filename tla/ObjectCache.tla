---------------------------- MODULE ObjectCache ----------------------------
(***************************************************************************)
(* Core::ObjectCache with a MruObjectCacheList (Core/ObjectCache.hh): at    *)
(* most maxSize_ objects in memory, the others in files of a directory.    *)
(* An object that was accessed for writing is dirty and is written to its  *)
(* file before it leaves the memory.                                       *)
(*                                                                         *)
(* A call that needs room writes objects back one by one, each with the    *)
(* steps a crash can fall between: the file is opened (and so truncated),  *)
(* the object is written, the item is erased.  An object is a number, the  *)
(* client's n-th change makes value n.                                     *)
(***************************************************************************)
EXTENDS Integers, Sequences, SequencesExt, FiniteSets

CONSTANTS Dir, Key,     \* directories; keys of objects
          None,         \* no key, no directory
          Mode,         \* modes a cache is created with
          MaxSize,      \* values of the parameter size
          OpenMayFail,  \* whether a file may not open for writing, for a while
          WriteMayFail, \* whether writing an object may fail
          MayScribble,  \* whether a client changes what it found for reading
          MaxWrites,    \* bound: changes by the client
          MaxCrashes    \* bound: crashes

ASSUME SizesOK  == MaxSize \subseteq Nat \ {0}    \* parameterObjectCacheSize: at least 1
ASSUME BoundsOK == MaxWrites \in Nat /\ MaxCrashes \in Nat
ASSUME NoneOK   == None \notin Key

Absent   == 0           \* no file
Torn     == -1          \* a file that is not complete, an object read from it
Scribble == -2          \* an object after finalize() and compact()
Value    == 1 .. MaxWrites

VARIABLES files,    \* directory -> key -> content of the file
          order,    \* mruList_: the keys in memory, the most recently used first
          table,    \* table_: key in memory -> [val, dirty]
          dir, mode, maxSize,   \* directoryName_, mode_, maxSize_
          call,     \* the call that is under way
          writing,  \* the key whose file is open for writing
          ref,      \* the client's reference: [key, write]
          up, writes, crashes

vars == <<files, order, table, dir, mode, maxSize, call, writing, ref, up, writes, crashes>>
settings == <<dir, mode, maxSize>>
bounds   == <<writes, crashes>>

NoRef  == [key |-> None, write |-> FALSE]
NoCall == [op |-> "none", key |-> None, keep |-> 0, dir |-> None]

Loading  == {"read", "write", "reject"}
Flushing == {"flush", "exit", "switch"}
Listed   == DOMAIN table
Size     == Cardinality(Listed)
Idle     == up /\ call = NoCall

Init ==
  /\ files = [d \in Dir |-> [k \in Key |-> Absent]]
  /\ order = <<>> /\ table = <<>>
  /\ dir \in Dir /\ mode \in Mode /\ maxSize \in MaxSize
  /\ call = NoCall /\ writing = None /\ ref = NoRef
  /\ up = FALSE /\ writes = 0 /\ crashes = 0

-----------------------------------------------------------------------------
(* MruObjectCacheList                                                      *)

(* mruListItem_ of a key's item: its place in the list                     *)
Place(s, k) == CHOOSE i \in DOMAIN s : s[i] = k

MovedToFrontNot(s, k) == s       \* mutant: the order stays that of insertion
MovedToFront(s, k) == <<k>> \o RemoveAt(s, Place(s, k))

InsertItem(k, v, d) ==
  /\ order' = <<k>> \o order
  /\ table' = [x \in Listed \cup {k} |-> IF x = k THEN [val |-> v, dirty |-> d] ELSE table[x]]

EraseItemTableOnly(k) ==                    \* mutant: the list keeps the key
  /\ table' = [x \in Listed \ {k} |-> table[x]]
  /\ UNCHANGED order

EraseItem(k) ==
  /\ order' = RemoveAt(order, Place(order, k))
  /\ table' = [x \in Listed \ {k} |-> table[x]]

TouchClean(k, write) ==                     \* mutant: write access does not mark
  /\ order' = MovedToFront(order, k)
  /\ UNCHANGED table

(* access() of a key in memory *)
Touch(k, write) ==
  /\ order' = MovedToFront(order, k)
  /\ table' = [table EXCEPT ![k].dirty = @ \/ write]

-----------------------------------------------------------------------------
(* writeBack(item): the loops that call it, and its steps                  *)

RoomOffByOne == maxSize        \* mutant: while (list_.size() > maxSize_)
Room == maxSize - 1            \* while (list_.size() >= maxSize_)

Begin(op, k, keep, d) == call' = [op |-> op, key |-> k, keep |-> keep, dir |-> d]

(* The item writeBack is called for: last(), begin(), or the one named.    *)
Victim(k) ==
  \/ call.op \in Loading \cup {"insert", "resize"} /\ Size > call.keep /\ k = Last(order)
  \/ call.op \in Flushing /\ k \in Listed
  \/ call.op = "save" /\ k = call.key

AfterItem == call' = IF call.op = "save" THEN NoCall ELSE call

DropClean(k) ==
  /\ writing = None /\ Victim(k) /\ ~table[k].dirty
  /\ EraseItem(k) /\ AfterItem
  /\ UNCHANGED <<files, settings, writing, ref, up, bounds>>

OpenFails(k) ==
  /\ OpenMayFail /\ writing = None /\ Victim(k) /\ table[k].dirty
  /\ AfterItem
  /\ UNCHANGED <<files, order, table, settings, writing, ref, up, bounds>>

OpenFile(k) ==
  /\ writing = None /\ Victim(k) /\ table[k].dirty
  /\ writing' = k /\ files' = [files EXCEPT ![dir][k] = Torn]
  /\ UNCHANGED <<order, table, settings, call, ref, up, bounds>>

WriteItemKeep ==                            \* mutant: the item stays, dirty
  /\ writing # None
  /\ files' = [files EXCEPT ![dir][writing] = table[writing].val]
  /\ AfterItem
  /\ writing' = None
  /\ UNCHANGED <<order, table, settings, ref, up, bounds>>

WriteItem ==
  /\ writing # None
  /\ files' = [files EXCEPT ![dir][writing] = table[writing].val]
  /\ EraseItem(writing) /\ AfterItem
  /\ writing' = None
  /\ UNCHANGED <<settings, ref, up, bounds>>

(* ObjectCacheItem::write has reset dirty_ before the stream is looked at. *)
WriteFails ==
  /\ WriteMayFail /\ writing # None
  /\ table' = [table EXCEPT ![writing].dirty = FALSE]
  /\ writing' = None /\ AfterItem
  /\ UNCHANGED <<files, order, settings, ref, up, bounds>>

-----------------------------------------------------------------------------
(* Calls.  Every access ends the life of the client's reference.           *)

(* findForReadAccess, findForWriteAccess; a key without a file is not found *)
Find(k, write) ==
  /\ Idle
  /\ \/ /\ k \in Listed
        /\ Touch(k, write) /\ ref' = [key |-> k, write |-> write]
        /\ UNCHANGED call
     \/ /\ k \notin Listed /\ files[dir][k] # Absent
        /\ Begin(IF write THEN "write" ELSE "read", k, Room, None)
        /\ ref' = NoRef
        /\ UNCHANGED <<order, table>>
  /\ UNCHANGED <<files, settings, writing, up, bounds>>

(* insert() looks the key up first, which may load it or move it in front. *)
Insert(k) ==
  /\ Idle /\ writes < MaxWrites
  /\ \/ k \in Listed /\ Touch(k, FALSE) /\ UNCHANGED call
     \/ /\ k \notin Listed
        /\ Begin(IF files[dir][k] # Absent THEN "reject" ELSE "insert", k, Room, None)
        /\ UNCHANGED <<order, table>>
  /\ ref' = NoRef
  /\ UNCHANGED <<files, settings, writing, up, bounds>>

Load ==
  /\ call.op \in Loading /\ writing = None /\ Size <= call.keep
  /\ InsertItem(call.key, files[dir][call.key], call.op = "write")
  /\ ref' = IF call.op = "reject" THEN NoRef ELSE [key |-> call.key, write |-> call.op = "write"]
  /\ call' = NoCall
  /\ UNCHANGED <<files, settings, writing, up, bounds>>

InsertNew ==
  /\ call.op = "insert" /\ writing = None /\ Size <= call.keep
  /\ writes' = writes + 1
  /\ InsertItem(call.key, writes', TRUE)
  /\ ref' = [key |-> call.key, write |-> TRUE]
  /\ call' = NoCall
  /\ UNCHANGED <<files, settings, writing, up, crashes>>

(* The client accumulates into the object it has a reference to.           *)
Modify ==
  /\ Idle /\ ref.write /\ ref.key \in Listed /\ writes < MaxWrites
  /\ writes' = writes + 1
  /\ table' = [table EXCEPT ![ref.key].val = writes']
  /\ UNCHANGED <<files, order, settings, call, writing, ref, up, crashes>>

(* finalize() and compact() on an object that was found for reading        *)
ScribbleOn ==
  /\ MayScribble /\ Idle /\ ref.key \in Listed /\ ~ref.write
  /\ table' = [table EXCEPT ![ref.key].val = Scribble]
  /\ UNCHANGED <<files, order, settings, call, writing, ref, up, bounds>>

Save(k) ==
  /\ Idle /\ k \in Listed
  /\ Begin("save", k, 0, None) /\ ref' = NoRef
  /\ UNCHANGED <<files, order, table, settings, writing, up, bounds>>

(* writeBack(), the destructor, setDirectory(d)                            *)
Flush(op, d) ==
  /\ Idle
  /\ Begin(op, None, 0, d) /\ ref' = NoRef
  /\ UNCHANGED <<files, order, table, settings, writing, up, bounds>>

(* setMaxSize is no access: the reference stays.                           *)
Resize(n) ==
  /\ Idle /\ n # maxSize
  /\ maxSize' = n /\ Begin("resize", None, n, None)
  /\ UNCHANGED <<files, order, table, dir, mode, writing, ref, up, bounds>>

Resized ==
  /\ call.op = "resize" /\ writing = None /\ Size <= call.keep
  /\ call' = NoCall
  /\ UNCHANGED <<files, order, table, settings, writing, ref, up, bounds>>

Flushed ==
  /\ call.op \in Flushing /\ writing = None /\ Size = 0
  /\ up' = (call.op # "exit")
  /\ dir' = IF call.op = "switch" THEN call.dir ELSE dir
  /\ IF call.op = "switch" /\ mode = "create" THEN Begin("clear", None, 0, None) ELSE call' = NoCall
  /\ UNCHANGED <<files, order, table, mode, maxSize, writing, ref, bounds>>

(* clear(): the list, then the files one by one                            *)
ClearList ==
  /\ Idle
  /\ order' = <<>> /\ table' = <<>> /\ ref' = NoRef
  /\ Begin("clear", None, 0, None)
  /\ UNCHANGED <<files, settings, writing, up, bounds>>

Unlink(k) ==
  /\ call.op = "clear" /\ files[dir][k] # Absent
  /\ files' = [files EXCEPT ![dir][k] = Absent]
  /\ UNCHANGED <<order, table, settings, call, writing, ref, up, bounds>>

Cleared ==
  /\ call.op = "clear" /\ \A k \in Key : files[dir][k] = Absent
  /\ call' = NoCall
  /\ UNCHANGED <<files, order, table, settings, writing, ref, up, bounds>>

(* The constructor: setMaxSize, setDirectory on an empty cache             *)
Create ==
  /\ ~up
  /\ up' = TRUE
  /\ dir' \in Dir /\ mode' \in Mode /\ maxSize' \in MaxSize
  /\ IF mode' = "create" THEN Begin("clear", None, 0, None) ELSE call' = NoCall
  /\ UNCHANGED <<files, order, table, writing, ref, bounds>>

Crash ==
  /\ up /\ crashes < MaxCrashes
  /\ crashes' = crashes + 1
  /\ up' = FALSE /\ order' = <<>> /\ table' = <<>>
  /\ call' = NoCall /\ writing' = None /\ ref' = NoRef
  /\ UNCHANGED <<files, settings, writes>>

-----------------------------------------------------------------------------
WriteBackStep == WriteItem \/ WriteFails \/ \E k \in Key : DropClean(k) \/ OpenFails(k) \/ OpenFile(k)

Return == Load \/ InsertNew \/ Resized \/ Flushed \/ Cleared \/ \E k \in Key : Unlink(k)

Client ==
  \/ \E k \in Key : Insert(k) \/ Save(k) \/ \E w \in BOOLEAN : Find(k, w)
  \/ Modify \/ ScribbleOn \/ ClearList
  \/ Flush("flush", None) \/ Flush("exit", None) \/ \E d \in Dir : Flush("switch", d)
  \/ \E n \in MaxSize : Resize(n)

Next == Create \/ Client \/ WriteBackStep \/ Return \/ Crash

Spec == Init /\ [][Next]_vars

(* The calls run to their end; a file that does not open does so in the    *)
(* end when it is tried again and again.                                   *)
FairSpec ==
  /\ Spec
  /\ WF_vars(WriteItem) /\ WF_vars(Return)
  /\ WF_vars(\E k \in Key : DropClean(k))
  /\ SF_vars(\E k \in Key : OpenFile(k))

-----------------------------------------------------------------------------
(* Properties                                                              *)

Content == Value \cup {Absent, Torn, Scribble}

TypeOK ==
  /\ files \in [Dir -> [Key -> Content]]
  /\ order \in Seq(Key) /\ Len(order) = Cardinality(Listed)
  /\ Listed \subseteq Key /\ ToSet(order) = Listed
  /\ \A k \in Listed : table[k].val \in Content \ {Absent} /\ table[k].dirty \in BOOLEAN
  /\ dir \in Dir /\ mode \in Mode /\ maxSize \in MaxSize
  /\ writing \in Listed \cup {None} /\ ref.key \in Key \cup {None}
  /\ writes \in 0 .. MaxWrites /\ crashes \in 0 .. MaxCrashes

(* "If more then maxSize_ object are referenced the last object ... is     *)
(* removed from the memory" (ObjectCache.hh:336): also while files do not  *)
(* open, no call leaves more objects in memory than that.                  *)
MemoryBounded == call.op # "resize" => Size <= maxSize

(* "References are valid until the next access to the cache" (:342): what  *)
(* makes room, a changed size too, never removes the object the client     *)
(* holds a reference to.                                                   *)
ReferenceValid == ref.key # None => ref.key \in Listed

(* An object whose change was asked for through findForWriteAccess or      *)
(* insert is found as it was last changed, from memory or from its file,   *)
(* whatever was evicted or reloaded in between and whichever directory it  *)
(* was in; a crash costs what was not saved, and touches no other file.    *)
Found(d, k) ==
  IF d = dir /\ call.op = "clear" THEN Absent
  ELSE IF d = dir /\ k \in Listed THEN table[k].val ELSE files[d][k]
Current == [d \in Dir |-> [k \in Key |-> Found(d, k)]]
Store == INSTANCE WriteBackStore WITH cur <- Current, saved <- files, Scribbled <- Scribble
StoreOK == Store!Spec

(* Every call returns: the loops that make room come to an end, also when  *)
(* a file does not open at first or an object cannot be written.           *)
CallReturns == [](call # NoCall => <>(call = NoCall))

(* "what we want to do here is to modify the object without writing the    *)
(* modification back to cache" (Speech/AffineFeatureTransformEstimator.cc: *)
(* 82): no file ever holds an object that was finalized and compacted.     *)
ScribbleNotSaved == \A d \in Dir, k \in Key : files[d][k] # Scribble
=============================================================================
