---------------------------- MODULE FileArchive ----------------------------
(***************************************************************************)
(* Core::FileArchive (Core/FileArchive.cc): many files in one, with a      *)
(* table of them at the end that a flag in the header declares valid, and  *)
(* a scan for recovery tags when the flag says there is none.              *)
(*                                                                         *)
(* The archive file is a sequence of cells, the units of its format after  *)
(* the header: tags, a string's length, a string, the sizes of a file, a   *)
(* piece of its data, the entries of the table.  Positions are indices of  *)
(* cells; every name is one cell long; nothing is compressed.              *)
(*                                                                         *)
(* The stream is buffered: what is written between two seeks, a run,       *)
(* reaches the file at the next seek, flush or close.  When the process    *)
(* dies the last run is lost, or is in the file, or, if it holds a payload *)
(* larger than the buffer, is there up to somewhere in the payload.        *)
(***************************************************************************)
EXTENDS Integers, Sequences, SequencesExt, FiniteSetsExt

CONSTANTS Name,              \* names of files
          Usage,             \* how an archive is used, see UsageOK
          MaxOps             \* bound: operations that change the archive

Absent  == 0                 \* no name

(* A name of length zero marks an empty segment. *)
ASSUME NameOK == Absent \notin Name

(* One usage: the parameter allow-overwrite; whether recover() is called on *)
(* an open archive; whether the process may die before truncate64; whether  *)
(* a scan may meet a tag again behind what is none; and its bounds: the     *)
(* lengths of files, in cells, the operations and the crashes.              *)
ASSUME UsageOK ==
  /\ MaxOps \in Nat
  /\ Usage \subseteq [overwrite : BOOLEAN, recover : BOOLEAN, tailCrash : BOOLEAN,
                      resync : SUBSET BOOLEAN \ {{}},
                      lengths : SUBSET Nat, ops : 0 .. MaxOps, crashes : Nat]

Start      == [tag |-> "start"]
End        == [tag |-> "end"]
Len1(l)    == [len |-> l]
Str(n)     == [str |-> n]
Size(s)    == [size |-> s]
Data(v)    == [data |-> v]
Hole       == [hole |-> TRUE]
Payload(v, s) == [i \in 1 .. s |-> Data(v)]

(* What is found of a name: whether there is a file, and the data in it.     *)
Missing   == [found |-> FALSE, data |-> <<>>]
Stored(c) == [found |-> TRUE, data |-> c]

(* The n-th operation writes data n, of any length.                        *)
Value == {Stored(Payload(v, s)) : v \in 1 .. MaxOps, s \in UNION {u.lengths : u \in Usage}}

(* The calls that change an archive.                                       *)
Call == [op : {"none", "write", "remove", "clear", "recover"},
         name : Name \cup {Absent}, content : Value \cup {Missing}]
NoCall == [op |-> "none", name |-> Absent, content |-> Missing]

VARIABLES disk,      \* the file: [flag, cells]; flag is -1 before the header is written
          pending,   \* the run in the stream's buffer, a sequence of at most one
          status,    \* "closed", "open", "truncating", "aborted" or "unreadable"
          mem,       \* files_ and hashedFiles_, emptyFiles_, endOfArchive_, changed_
          ops, crashes,
          recovered, \* history: recover() was called
          call,      \* history: the last of the calls that are counted in ops
          usage      \* never changes

vars == <<disk, pending, status, mem, ops, crashes, recovered, call, usage>>

NoFile == [flag |-> -1, cells |-> <<>>]
Closed == [files |-> <<>>, empties |-> <<>>, eoa |-> 1, changed |-> FALSE]

Init ==
  /\ disk = NoFile /\ pending = <<>> /\ status = "closed" /\ mem = Closed
  /\ ops = 0 /\ crashes = 0 /\ recovered = FALSE /\ call = NoCall /\ usage \in Usage

-----------------------------------------------------------------------------
(* Runs of the stream.                                                     *)

FlagRun(f)     == [flag |-> f]
Run(at, cells) == [at |-> at, cells |-> cells]

Overwritten(cells, at, new) ==
  [i \in 1 .. Max({Len(cells), at + Len(new) - 1}) |->
     IF i \in at .. at + Len(new) - 1 THEN new[i - at + 1]
     ELSE IF i <= Len(cells) THEN cells[i] ELSE Hole]

Apply(d, run) ==
  IF "flag" \in DOMAIN run THEN [d EXCEPT !.flag = run.flag]
  ELSE [d EXCEPT !.cells = Overwritten(@, run.at, run.cells)]

ApplyAll(d, runs) ==
  LET after[k \in 0 .. Len(runs)] == IF k = 0 THEN d ELSE Apply(after[k - 1], runs[k])
  IN  after[Len(runs)]

Image == ApplyAll(disk, pending)     \* the file as its own stream sees it

HasPayload(run) == "cells" \in DOMAIN run /\ \E i \in 1 .. Len(run.cells) : "data" \in DOMAIN run.cells[i]

(* What a run that a crash interrupts may leave in the file. *)
Torn(run) ==
  IF HasPayload(run)
  THEN {[run EXCEPT !.cells = SubSeq(@, 1, k)] :
          k \in {i \in 1 .. Len(run.cells) : "data" \in DOMAIN run.cells[i]}}
  ELSE {}

-----------------------------------------------------------------------------
(* The index a reader builds.                                              *)

(* add(): the first file of a name wins. *)
AddFile(files, name, pos, size) ==
  IF name \in DOMAIN files THEN files
  ELSE [n \in DOMAIN files \cup {name} |->
          IF n = name THEN [pos |-> pos, size |-> size] ELSE files[n]]

(* Mutant of AddEntry: the scan does not move endOfArchive_. *)
AddEntryNoEnd(m, e) ==
  [m EXCEPT !.files   = IF e.name = Absent THEN @ ELSE AddFile(@, e.name, e.pos, e.size),
            !.empties = IF e.name = Absent THEN Append(@, [pos |-> e.pos, size |-> e.size]) ELSE @]

AddEntry(m, e) ==
  [m EXCEPT !.files   = IF e.name = Absent THEN @ ELSE AddFile(@, e.name, e.pos, e.size),
            !.empties = IF e.name = Absent THEN Append(@, [pos |-> e.pos, size |-> e.size]) ELSE @,
            !.eoa     = IF e.good THEN e.next ELSE @]

(* The header of a segment is all there.  A cell of another kind in its     *)
(* place, a tag for instance, reads as a length that leads out of the file. *)
WholeHeader(cells, p) ==
  LET n == Len(cells) IN
  /\ p + 1 <= n /\ "len" \in DOMAIN cells[p + 1]
  /\ LET pos == p + 2 + cells[p + 1].len IN
     /\ pos <= n /\ "size" \in DOMAIN cells[pos]
     /\ pos = p + 3 => "str" \in DOMAIN cells[p + 2]

(* The segment that begins at p.                                           *)
SegmentAt(cells, p) ==
  LET pos  == p + 2 + cells[p + 1].len
      last == pos + cells[pos].size + 1
  IN  [name |-> IF pos = p + 3 THEN cells[p + 2].str ELSE Absent,
       pos  |-> pos, size |-> cells[pos].size,
       good |-> last <= Len(cells) /\ cells[last] = End, next |-> last + 1]

(* One pass of the loop of scanArchive, which has come to the cell s.at and *)
(* has found s.m.  A word that is no start tag is skipped; once that has    *)
(* happened the four-byte steps may never meet another tag again (resync   *)
(* FALSE), as segments are not aligned.                                    *)
Passed(cells, resync, s) ==
  LET stop == Len(cells) + 1 IN
  IF s.at = stop THEN s
  ELSE IF cells[s.at] # Start THEN [s EXCEPT !.at = IF resync THEN @ + 1 ELSE stop]
  ELSE IF ~WholeHeader(cells, s.at) \/ SegmentAt(cells, s.at).next > stop THEN [s EXCEPT !.at = stop]
  ELSE LET e == SegmentAt(cells, s.at) IN [at |-> e.next, m |-> AddEntry(s.m, e)]

(* scanArchive(): there are no more segments than cells.  The state before  *)
(* a pass is bound in a set so that TLC computes it once.                   *)
Scanned(cells, resync) ==
  LET after[k \in 0 .. Len(cells)] ==
        IF k = 0 THEN [at |-> 1, m |-> Closed]
        ELSE CHOOSE t \in {Passed(cells, resync, s) : s \in {after[k - 1]}} : TRUE
  IN  after[Len(cells)].m

TableCells(m) ==
  LET names == SetToSeq(DOMAIN m.files)
  IN  <<[count |-> Len(names)]>>
        \o [i \in 1 .. Len(names) |-> [file |-> <<names[i], m.files[names[i]].pos, m.files[names[i]].size>>]]
        \o <<[ecount |-> Len(m.empties)]>>
        \o [i \in 1 .. Len(m.empties) |-> [empty |-> m.empties[i]]]
        \o <<[table |-> m.eoa]>>

(* the file ends with the position of a table that is there *)
HasTable(d) ==
  LET n == Len(d.cells) IN
  /\ n > 0 /\ DOMAIN d.cells[n] = {"table"}
  /\ LET t == d.cells[n].table IN
     /\ t < n /\ DOMAIN d.cells[t] = {"count"}
     /\ LET f == d.cells[t].count IN
        /\ t + f + 1 < n
        /\ \A i \in t + 1 .. t + f : DOMAIN d.cells[i] = {"file"}
        /\ DOMAIN d.cells[t + f + 1] = {"ecount"}
        /\ t + f + 1 + d.cells[t + f + 1].ecount + 1 = n
        /\ \A i \in t + f + 2 .. n - 1 : DOMAIN d.cells[i] = {"empty"}

TableIndex(d) ==
  LET n     == Len(d.cells)
      t     == d.cells[n].table
      f     == d.cells[t].count
      infos == [i \in 1 .. f |-> d.cells[t + i].file]
      first(x) == infos[Min({i \in 1 .. f : infos[i][1] = x})]
  IN  [files   |-> [x \in {infos[i][1] : i \in 1 .. f} |-> [pos |-> first(x)[2], size |-> first(x)[3]]],
       empties |-> [i \in 1 .. d.cells[t + f + 1].ecount |-> d.cells[t + f + 1 + i].empty],
       eoa     |-> t,
       changed |-> FALSE]

(* readFileInfoTable() *)
Index(d, resync) == IF d.flag = 1 THEN TableIndex(d) ELSE Scanned(d.cells, resync)
Readable(d) == d.flag = 1 => HasTable(d)

-----------------------------------------------------------------------------
(* The operations on an open archive: the runs each writes and the memory  *)
(* it leaves.                                                              *)

(* Mutant of ClearFlag: setChanged() does not clear the flag in the file. *)
KeepFlag(m) == <<>>

ClearFlag(m) == IF m.changed THEN <<>> ELSE <<FlagRun(0)>>      \* setChanged()

CellAt(d, i) == IF i \in 1 .. Len(d.cells) THEN d.cells[i] ELSE [eof |-> TRUE]

(* remove(): the last segment is cut off in memory only, another one is     *)
(* marked as empty in the file.                                            *)
Removal(m, n) ==
  LET info  == m.files[n]
      begin == info.pos - 3
      rest  == [x \in DOMAIN m.files \ {n} |-> m.files[x]]
      gone  == [m EXCEPT !.files = rest, !.changed = TRUE]
  IN  IF CellAt(Image, begin) # Start
      THEN [runs |-> <<>>, m |-> m, ok |-> FALSE, verified |-> TRUE]
      ELSE IF info.pos + info.size + 2 = m.eoa
      THEN [runs |-> ClearFlag(m), m |-> [gone EXCEPT !.eoa = begin], ok |-> TRUE, verified |-> TRUE]
      ELSE [runs |-> ClearFlag(m) \o <<Run(begin + 1, <<Len1(0), Size(info.size + 1)>>)>>,
            m    |-> [gone EXCEPT !.empties = Append(@, [pos |-> begin + 2, size |-> info.size + 1])],
            ok   |-> TRUE,
            verified |-> CellAt(Image, info.pos + info.size + 1) = End]

NoRemoval(m) == [runs |-> <<>>, m |-> m, ok |-> TRUE, verified |-> TRUE]

(* Mutant of Addition: any empty segment that is large enough is used.     *)
AdditionAnyFit(m, n, v, s) ==
  LET fits  == {i \in 1 .. Len(m.empties) : m.empties[i].size >= s + 1}
      reuse == fits # {}
      begin == IF reuse THEN m.empties[Min(fits)].pos - 2 ELSE m.eoa
  IN  [runs |-> ClearFlag(m)
                  \o <<Run(begin, <<Start, Len1(1), Str(n), Size(s)>> \o Payload(v, s) \o <<End>>)>>,
       m    |-> [m EXCEPT !.changed = TRUE,
                          !.empties = IF reuse THEN RemoveAt(@, Min(fits)) ELSE @,
                          !.eoa     = IF reuse THEN @ ELSE begin + s + 5,
                          !.files   = AddFile(@, n, begin + 3, s)]]

(* the rest of write(): the first empty segment that fits exactly, or the   *)
(* end of the archive                                                      *)
Addition(m, n, v, s) ==
  LET fits  == {i \in 1 .. Len(m.empties) : m.empties[i].size = s + 1}
      reuse == fits # {}
      begin == IF reuse THEN m.empties[Min(fits)].pos - 2 ELSE m.eoa
  IN  [runs |-> ClearFlag(m)
                  \o <<Run(begin, <<Start, Len1(1), Str(n), Size(s)>> \o Payload(v, s) \o <<End>>)>>,
       m    |-> [m EXCEPT !.changed = TRUE,
                          !.empties = IF reuse THEN RemoveAt(@, Min(fits)) ELSE @,
                          !.eoa     = IF reuse THEN @ ELSE begin + s + 5,
                          !.files   = AddFile(@, n, begin + 3, s)]]

(* Mutant of Finish: the flag is set before the table is written. *)
FinishFlagFirst(m) ==
  IF m.changed THEN <<FlagRun(1), Run(m.eoa, TableCells(m))>> ELSE <<>>

(* writeFileInfoTable(), up to the truncation *)
Finish(m) ==
  IF m.changed THEN <<Run(m.eoa, TableCells(m)), FlagRun(1)>> ELSE <<>>

Truncated(d, m) ==
  IF m.changed THEN [d EXCEPT !.cells = SubSeq(@, 1, m.eoa + Len(TableCells(m)) - 1)] ELSE d

-----------------------------------------------------------------------------
(* Steps.                                                                  *)

(* Mutant of Emit: a seek does not flush the stream. *)
EmitLazily(runs) == pending' = pending \o runs /\ UNCHANGED disk

(* The last of the runs stays in the buffer. *)
Emit(runs) ==
  LET all == pending \o runs IN
  /\ disk' = ApplyAll(disk, IF all = <<>> THEN all ELSE Front(all))
  /\ pending' = IF all = <<>> THEN all ELSE <<Last(all)>>

EmitAndFlush(runs) ==
  /\ disk' = ApplyAll(disk, pending \o runs)
  /\ pending' = <<>>

Open ==
  /\ status = "closed"
  /\ IF disk.flag = -1
     THEN /\ pending' = <<FlagRun(0)>>
          /\ mem' = [Closed EXCEPT !.changed = TRUE]
          /\ status' = "open"
     ELSE /\ IF Readable(disk)
             THEN status' = "open" /\ \E resync \in usage.resync : mem' = Index(disk, resync)
             ELSE status' = "unreadable" /\ UNCHANGED mem
          /\ UNCHANGED pending
  /\ UNCHANGED <<disk, ops, crashes, recovered, call, usage>>

(* A call that changes the archive.                                        *)
Called(op, n, c) == ops' = ops + 1 /\ call' = [op |-> op, name |-> n, content |-> c]

(* Mutant of Replaced: writeFile does not remove the file it replaces. *)
ReplacedNot(n) == NoRemoval(mem)

Replaced(n) == IF n \in DOMAIN mem.files THEN Removal(mem, n) ELSE NoRemoval(mem)

(* writeFile of a name that may be written; s is the size of what is       *)
(* stored, which compression may have changed                              *)
WriteFile(n, s) ==
  /\ status = "open" /\ ops < usage.ops
  /\ n \in DOMAIN mem.files => usage.overwrite
  /\ Called("write", n, Stored(Payload(ops + 1, s)))
  /\ LET r == Replaced(n)
         a == Addition(r.m, n, ops', s)
     IN  IF r.verified
         THEN Emit(r.runs \o a.runs) /\ mem' = a.m /\ UNCHANGED status
         ELSE EmitAndFlush(r.runs) /\ status' = "aborted" /\ UNCHANGED mem
  /\ UNCHANGED <<crashes, recovered, usage>>

RemoveFile(n) ==
  /\ status = "open" /\ ops < usage.ops /\ n \in DOMAIN mem.files
  /\ Called("remove", n, Missing)
  /\ LET r == Removal(mem, n) IN
     /\ EmitAndFlush(r.runs)
     /\ IF r.verified THEN mem' = r.m /\ UNCHANGED status
                      ELSE status' = "aborted" /\ UNCHANGED mem
  /\ UNCHANGED <<crashes, recovered, usage>>

(* readFile seeks, and so flushes the stream; it changes nothing else *)
ReadFile ==
  /\ status = "open" /\ pending # <<>>
  /\ EmitAndFlush(<<>>)
  /\ UNCHANGED <<status, mem, ops, crashes, recovered, call, usage>>

ClearArchive ==
  /\ status = "open" /\ ops < usage.ops
  /\ Called("clear", Absent, Missing)
  /\ disk' = [flag |-> 0, cells |-> <<>>] /\ pending' = <<>>
  /\ mem' = [Closed EXCEPT !.changed = TRUE]
  /\ UNCHANGED <<status, crashes, recovered, usage>>

(* recover(): scans, then writes the table; changed_ stays set *)
Recover ==
  /\ usage.recover /\ status = "open" /\ ops < usage.ops
  /\ Called("recover", Absent, Missing)
  /\ \E resync \in usage.resync :
       LET m == [Scanned(Image.cells, resync) EXCEPT !.changed = TRUE] IN
       /\ disk' = Truncated(ApplyAll(Image, ClearFlag(mem) \o Finish(m)), m)
       /\ mem' = m
  /\ pending' = <<>> /\ recovered' = TRUE
  /\ UNCHANGED <<status, crashes, usage>>

(* the destructor *)
Close ==
  /\ status = "open"
  /\ EmitAndFlush(Finish(mem))
  /\ status' = "truncating"
  /\ UNCHANGED <<mem, ops, crashes, recovered, call, usage>>

Truncate ==
  /\ status = "truncating"
  /\ disk' = Truncated(disk, mem)
  /\ status' = "closed" /\ mem' = Closed
  /\ UNCHANGED <<pending, ops, crashes, recovered, call, usage>>

-----------------------------------------------------------------------------
(* The process dies while it writes runs: some of them are in the file,     *)
(* and perhaps a part of the next.                                         *)
CrashDuring(runs) ==
  LET all == pending \o runs IN
  /\ status = "open" /\ crashes < usage.crashes
  /\ \E k \in 0 .. Len(all) :
       LET whole == ApplyAll(disk, SubSeq(all, 1, k)) IN
       \/ disk' = whole
       \/ k < Len(all) /\ \E t \in Torn(all[k + 1]) : disk' = Apply(whole, t)
  /\ pending' = <<>> /\ status' = "closed" /\ mem' = Closed
  /\ crashes' = crashes + 1
  /\ UNCHANGED <<ops, recovered, call, usage>>

CrashIdle == CrashDuring(<<>>)

CrashInWrite(n, s) ==
  /\ status = "open" /\ ops < usage.ops /\ (n \in DOMAIN mem.files => usage.overwrite)
  /\ LET r == Replaced(n) IN
     r.verified /\ CrashDuring(r.runs \o Addition(r.m, n, ops + 1, s).runs)

CrashInRemove(n) ==
  /\ status = "open" /\ ops < usage.ops /\ n \in DOMAIN mem.files
  /\ CrashDuring(Removal(mem, n).runs)

CrashInFinish == status = "open" /\ mem.changed /\ CrashDuring(<<Head(Finish(mem))>>)

(* after the header is complete, before truncate64; or truncate64 fails *)
CrashBeforeTruncate ==
  /\ usage.tailCrash /\ status = "truncating" /\ crashes < usage.crashes
  /\ status' = "closed" /\ mem' = Closed /\ crashes' = crashes + 1
  /\ UNCHANGED <<disk, pending, ops, recovered, call, usage>>

Crash ==
  \/ CrashIdle \/ CrashInFinish \/ CrashBeforeTruncate
  \/ \E n \in Name : CrashInRemove(n) \/ \E s \in usage.lengths : CrashInWrite(n, s)

Finished ==
  /\ status \in {"aborted", "unreadable"}
  /\ UNCHANGED vars

Next ==
  \/ Open \/ ReadFile \/ ClearArchive \/ Recover \/ Close \/ Truncate
  \/ \E n \in Name : RemoveFile(n) \/ \E s \in usage.lengths : WriteFile(n, s)
  \/ Crash \/ Finished

Spec == Init /\ [][Next]_vars

-----------------------------------------------------------------------------
(* Properties                                                              *)

(* where a file or an empty segment has its data *)
Place == [pos : Nat \ 0 .. 2, size : Nat]

TypeOK ==
  /\ disk.flag \in {-1, 0, 1}
  /\ Len(pending) <= 1
  /\ status \in {"closed", "open", "truncating", "aborted", "unreadable"}
  /\ mem \in [files : [DOMAIN mem.files -> Place], empties : Seq(Place), eoa : Nat \ {0}, changed : BOOLEAN]
  /\ DOMAIN mem.files \subseteq Name /\ IsFiniteSet(DOMAIN mem.files)
  /\ usage \in Usage /\ ops \in 0 .. usage.ops /\ crashes \in 0 .. usage.crashes
  /\ recovered \in BOOLEAN /\ call \in Call

(* "flag: = 0 file info table does not exist, != 0 file info table does     *)
(* exist" (FileArchive.cc:30): a reader that finds the flag set can read    *)
(* the table at the end of the file, at every moment the process may die.  *)
FlagMeansTable == disk.flag = 1 /\ status # "truncating" => HasTable(disk)

(* So it is unless recover() was called or the process died in front of     *)
(* truncate64.                                                              *)
FlagHonest == ~recovered /\ ~usage.tailCrash => FlagMeansTable

(* Nothing has happened after which files may be lost or come back.         *)
Orderly == crashes = 0 /\ ~recovered

(* Without crashes: the segments the archive knows, with their tags        *)
(* cover the data region from the header to endOfArchive_ without a gap    *)
(* and without overlap, and their tags are in the file.                    *)
SegmentsOf(m) ==
  {<<m.files[n].pos - 3, m.files[n].pos + m.files[n].size + 1>> : n \in DOMAIN m.files}
    \cup {<<m.empties[i].pos - 2, m.empties[i].pos + m.empties[i].size + 1>> : i \in 1 .. Len(m.empties)}

Tiled ==
  status = "open" /\ Orderly =>
    LET segs == SegmentsOf(mem) IN
    /\ \A i \in 1 .. mem.eoa - 1 : Cardinality({g \in segs : i \in g[1] .. g[2]}) = 1
    /\ \A g \in segs : g[2] < mem.eoa /\ CellAt(Image, g[1]) = Start /\ CellAt(Image, g[2]) = End
    /\ Cardinality(segs) = Cardinality(DOMAIN mem.files) + Len(mem.empties)

(* What an index and a file say of a name: what lies where the index lists  *)
(* it.  readFile returns it, if it has the checksum of the file's header.   *)
Content(files, d, n) ==
  IF n \in DOMAIN files THEN Stored([i \in 1 .. files[n].size |-> CellAt(d, files[n].pos + i)])
  ELSE Missing

(* What the archive holds, as its process or the next one will find it. *)
Contents ==
  LET files == IF status \in {"open", "truncating"} THEN mem.files
               ELSE IF disk.flag = -1 \/ ~Readable(disk) THEN <<>>
               ELSE Index(disk, TRUE).files
      d     == IF status = "open" THEN Image ELSE disk
  IN  [n \in Name |-> Content(files, d, n)]

(* Without crashes the archive is a store of named files: what one process *)
(* wrote the next one reads, and only the call that was made changes what  *)
(* is stored, through reuse of empty segments, cutting off the last one,   *)
(* the table and its flag, closing and opening.                            *)
Store == INSTANCE ArchiveStore WITH NoName <- Absent, Absent <- Missing,
                                    store <- Contents, calls <- ops, exact <- Orderly
StoreOK == Store!Spec

(* A file that is completely in the file d.                                *)
Whole(d, n) ==
  /\ status = "open" /\ n \in DOMAIN mem.files
  /\ LET f == mem.files[n] IN
     /\ Content(mem.files, d, n) = Contents[n]
     /\ CellAt(d, f.pos - 3) = Start
     /\ CellAt(d, f.pos - 2) = Len1(1) /\ CellAt(d, f.pos - 1) = Str(n)
     /\ CellAt(d, f.pos) = Size(f.size)
     /\ CellAt(d, f.pos + f.size + 1) = End

(* Until recover() is called, the first crash, whatever the process was     *)
(* writing or removing, leaves every other file that was in the archive    *)
(* file readable to the next process.  A second crash need not: the scan    *)
(* after the first may list a file without end tag that the next file      *)
(* overlaps, and removing it moves the end of the archive in front of that *)
(* file.                                                                   *)
Survives(n) == Whole(disk, n) => Contents'[n] = Contents[n]
CrashKeepsOthers ==
  [][crashes = 0 /\ crashes' = 1 /\ ~recovered =>
       /\ CrashIdle \/ CrashInFinish => \A n \in Name : Survives(n)
       /\ \A n \in Name : CrashInRemove(n) \/ (\E s \in usage.lengths : CrashInWrite(n, s))
            => \A x \in Name \ {n} : Survives(x)]_vars

(* What opening made of the file by scanning it another scan will find, if  *)
(* there is but one way the scan may go.                                   *)
JustScanned == disk.flag = 0 /\ ~mem.changed /\ \A r, s \in usage.resync : r = s

(* recover() finds every complete file of an archive that was never        *)
(* scanned, and every one of an archive that opening has just scanned, as  *)
(* the archiver's recover command does; and, whatever has happened to the  *)
(* archive, it does not write its table over a complete file it has found. *)
RecoverLosesNothing ==
  [][Recover =>
       \A n \in Name : Whole(Image, n) =>
         LET refound == n \in DOMAIN mem'.files /\ mem'.files[n] = mem.files[n] IN
         /\ Orderly \/ JustScanned => refound
         /\ refound => Contents'[n] = Contents[n]]_vars
=============================================================================
