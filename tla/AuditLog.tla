------------------------------- MODULE AuditLog -------------------------------
(***************************************************************************)
(* The audit logger of sc-audit (crates/sc-audit/src/lib.rs): appending    *)
(* one JSON line per entry, size-based rotation, and what the directory    *)
(* holds when an I/O call fails or the process dies between two of them.   *)
(*                                                                         *)
(* A writer is one process with one AuditLogger.  Inside a process log()   *)
(* runs under the lock of current_size from its first line to its last, so *)
(* a writer has one log() at a time and its steps are the I/O calls.       *)
(* Rotated file i is the name <path>.log.i; name 0 is the path itself.     *)
(* A file is a position in the sequence files, so that a name can be       *)
(* renamed, overwritten or removed while a writer still holds the file.    *)
(***************************************************************************)
EXTENDS Naturals, Sequences, FiniteSets

CONSTANTS
  Writers,
  MaxSize,       \* max_size_mb, in the unit of EntrySizes
  MaxFiles,      \* max_files
  EntrySizes,    \* lengths a line may have
  MaxEntries,    \* bound: entries logged
  MaxFaults,     \* bound: I/O calls that fail
  MaxCrashes     \* bound: deaths of a writer

\* A max_files of 0 rotates as one of 1 does.
ASSUME AuditAssumption ==
  /\ MaxSize \in Nat /\ MaxFiles \in Nat \ {0}
  /\ EntrySizes \subseteq Nat \ {0}
  /\ MaxEntries \in Nat /\ MaxFaults \in Nat /\ MaxCrashes \in Nat

VARIABLES
  dir,       \* name -> position in files, 0 when there is no such file
  files,     \* every file ever created: [lines, bytes, first]
  pc, handle, size, entry, shift,   \* per writer: where log() is, AuditLogger::file,
                                    \* current_size, the entry, the loop variable of rotate()
  next,      \* id of the next entry
  ok, err,   \* ids log() returned Ok for, Err for
  written,   \* ids whose whole line reached a file
  faults, crashes

disk    == <<dir, files>>
history == <<next, ok, err, written, faults, crashes>>
vars    == <<dir, files, pc, handle, size, entry, shift, next, ok, err, written, faults, crashes>>

Names   == 0..MaxFiles
NoEntry == [id |-> 0, size |-> 0]
NewFile == [lines |-> <<>>, bytes |-> 0, first |-> 0]

Init ==
  /\ dir = [n \in Names |-> 0] /\ files = <<>>
  /\ pc = [w \in Writers |-> "down"]
  /\ handle = [w \in Writers |-> 0]
  /\ size = [w \in Writers |-> 0]
  /\ entry = [w \in Writers |-> NoEntry]
  /\ shift = [w \in Writers |-> 0]
  /\ next = 1 /\ ok = {} /\ err = {} /\ written = {}
  /\ faults = 0 /\ crashes = 0

\* OpenOptions::new().create(true).append(true).open(path)
OpenPath ==
  IF dir[0] # 0 THEN UNCHANGED disk
  ELSE /\ files' = Append(files, NewFile)
       /\ dir' = [dir EXCEPT ![0] = Len(files) + 1]

SizeAtOpenZero(f) == 0

SizeAtOpen(f) == files'[f].bytes

\* AuditLogger::new
Open(w) ==
  /\ pc[w] = "down" /\ OpenPath
  /\ handle' = [handle EXCEPT ![w] = dir'[0]]
  /\ size' = [size EXCEPT ![w] = SizeAtOpen(dir'[0])]
  /\ pc' = [pc EXCEPT ![w] = "idle"]
  /\ UNCHANGED <<entry, shift, history>>

\* log() up to its first I/O call.
MustRotate(w, s) == size[w] + s > MaxSize

Log(w, s) ==
  /\ pc[w] = "idle" /\ next <= MaxEntries
  /\ entry' = [entry EXCEPT ![w] = [id |-> next, size |-> s]]
  /\ next' = next + 1
  /\ IF MustRotate(w, s)
     THEN /\ handle' = [handle EXCEPT ![w] = 0]
          /\ shift' = [shift EXCEPT ![w] = MaxFiles - 1]
          /\ pc' = [pc EXCEPT ![w] = "rotating"]
          /\ UNCHANGED size
     ELSE /\ size' = [size EXCEPT ![w] = @ + s]
          /\ pc' = [pc EXCEPT ![w] = "writing"]
          /\ UNCHANGED <<handle, shift>>
  /\ UNCHANGED <<disk, ok, err, written, faults, crashes>>

-----------------------------------------------------------------------------
(* rotate() *)

Rename(from, to) == dir' = [dir EXCEPT ![to] = dir[from], ![from] = 0]

\* One iteration of the loop over the rotated files, oldest first.
ShiftOneKeepingOldest(i) ==
  IF dir[i] = 0 \/ i + 1 >= MaxFiles THEN UNCHANGED dir
  ELSE IF dir[i + 1] # 0 THEN dir' = [dir EXCEPT ![i] = 0]
  ELSE Rename(i, i + 1)

ShiftOne(i) ==
  IF dir[i] = 0 THEN UNCHANGED dir
  ELSE IF i + 1 >= MaxFiles THEN dir' = [dir EXCEPT ![i] = 0]
  ELSE Rename(i, i + 1)

ShiftRotated(w) ==
  /\ pc[w] = "rotating" /\ shift[w] > 0
  /\ ShiftOne(shift[w])
  /\ shift' = [shift EXCEPT ![w] = @ - 1]
  /\ UNCHANGED <<files, pc, handle, size, entry, history>>

\* rename(path, path.log.1) fails when another writer has just done it.
MoveCurrent(w) ==
  /\ pc[w] = "rotating" /\ shift[w] = 0 /\ dir[0] # 0
  /\ Rename(0, 1)
  /\ pc' = [pc EXCEPT ![w] = "reopening"]
  /\ UNCHANGED <<files, handle, size, entry, shift, history>>

Reopened == dir'[0]

Reopen(w) ==
  /\ pc[w] = "reopening" /\ OpenPath
  /\ handle' = [handle EXCEPT ![w] = Reopened]
  /\ size' = [size EXCEPT ![w] = 0]
  /\ pc' = [pc EXCEPT ![w] = "writing"]
  /\ UNCHANGED <<entry, shift, history>>

-----------------------------------------------------------------------------
\* A line, or a part of one, reaches the file the writer holds.
AppendLine(w, torn) ==
  LET f == files[handle[w]]
  IN  files' = [files EXCEPT ![handle[w]] =
        [lines |-> Append(f.lines, [id |-> entry[w].id, torn |-> torn]),
         bytes |-> f.bytes + entry[w].size,
         first |-> IF f.lines = <<>> THEN entry[w].size ELSE f.first]]

\* write_all and flush; without a file log() returns Ok all the same.
Write(w) ==
  /\ pc[w] = "writing"
  /\ IF handle[w] = 0 THEN UNCHANGED <<files, written>>
     ELSE AppendLine(w, FALSE) /\ written' = written \cup {entry[w].id}
  /\ ok' = ok \cup {entry[w].id}
  /\ pc' = [pc EXCEPT ![w] = "idle"]
  /\ UNCHANGED <<dir, handle, size, entry, shift, next, err, faults, crashes>>

ReturnErrRetryingWrite(w) ==
  /\ UNCHANGED err
  /\ pc' = [pc EXCEPT ![w] = IF @ = "writing" THEN "writing" ELSE "idle"]

ReturnErr(w) ==
  /\ err' = err \cup {entry[w].id}
  /\ pc' = [pc EXCEPT ![w] = "idle"]

\* An I/O call of rotate() returns an error: log() returns it, leaving no file
\* and the old size behind.
RotationFault(w) ==
  /\ \/ pc[w] = "rotating" /\ shift[w] > 0 /\ dir[shift[w]] # 0
     \/ pc[w] = "rotating" /\ shift[w] = 0
     \/ pc[w] = "reopening"
  /\ IF pc[w] = "rotating" /\ shift[w] = 0 /\ dir[0] = 0 THEN UNCHANGED faults
     ELSE faults < MaxFaults /\ faults' = faults + 1
  /\ ReturnErr(w)
  /\ UNCHANGED <<disk, handle, size, entry, shift, next, ok, written, crashes>>

\* write_all fails after some of the line, or before any of it, is written.
WriteFault(w) ==
  /\ pc[w] = "writing" /\ handle[w] # 0
  /\ faults < MaxFaults /\ faults' = faults + 1
  /\ UNCHANGED files \/ AppendLine(w, TRUE)
  /\ ReturnErr(w)
  /\ UNCHANGED <<dir, handle, size, entry, shift, next, ok, written, crashes>>

\* The process dies; a line being written may be left torn.
Crash(w) ==
  /\ pc[w] # "down" /\ crashes < MaxCrashes
  /\ crashes' = crashes + 1
  /\ \/ UNCHANGED files
     \/ pc[w] = "writing" /\ handle[w] # 0 /\ AppendLine(w, TRUE)
  /\ pc' = [pc EXCEPT ![w] = "down"]
  /\ handle' = [handle EXCEPT ![w] = 0]
  /\ size' = [size EXCEPT ![w] = 0]
  /\ entry' = [entry EXCEPT ![w] = NoEntry]
  /\ shift' = [shift EXCEPT ![w] = 0]
  /\ UNCHANGED <<dir, next, ok, err, written, faults>>

Step(w) ==
  \/ Open(w) \/ ShiftRotated(w) \/ MoveCurrent(w) \/ Reopen(w) \/ Write(w)
  \/ RotationFault(w) \/ WriteFault(w) \/ Crash(w)
  \/ \E s \in EntrySizes : Log(w, s)

Next == \E w \in Writers : Step(w)

Spec == Init /\ [][Next]_vars

-----------------------------------------------------------------------------
(* Reading. *)

Lines(n) == IF dir[n] = 0 THEN <<>> ELSE files[dir[n]].lines

\* read_last(n), in the order they were logged: of the active file alone.  A torn
\* line has no end, so that it and the line after it are read as one, which is no
\* entry; it counts among the n.  Where a line is torn matters no further: one that
\* lacks only its end would be read when it is the last, and one cut inside a
\* character makes the file no text, which is an error.
read_last(n) ==
  LET lines    == Lines(0)
      ends     == {i \in DOMAIN lines : ~lines[i].torn \/ i = Len(lines)}
      last     == {i \in ends : Cardinality({j \in ends : j > i}) < n}
      entry_at == {i \in last : ~lines[i].torn /\ (i > 1 => ~lines[i - 1].torn)}
  IN  [i \in entry_at |-> lines[i].id]

-----------------------------------------------------------------------------
(* Properties. *)

LineType == [id : 1..MaxEntries, torn : BOOLEAN]
FileType == [lines : Seq(LineType), bytes : Nat, first : Nat]

TypeOK ==
  /\ dir \in [Names -> 0..Len(files)]
  /\ files \in Seq(FileType)
  /\ pc \in [Writers -> {"down", "idle", "rotating", "reopening", "writing"}]
  /\ handle \in [Writers -> 0..Len(files)]
  /\ size \in [Writers -> Nat] /\ shift \in [Writers -> 0..MaxFiles]
  /\ next \in 1..(MaxEntries + 1)
  /\ entry \in [Writers -> [id : 0..MaxEntries, size : Nat]]
  /\ ok \subseteq 1..MaxEntries /\ err \subseteq 1..MaxEntries /\ written \subseteq 1..MaxEntries
  /\ faults \in 0..MaxFaults /\ crashes \in 0..MaxCrashes

Whole(n) == {Lines(n)[i].id : i \in {j \in DOMAIN Lines(n) : ~Lines(n)[j].torn}}

Visible == UNION {Whole(n) : n \in Names}

\* What read_last tells: entries in their order, each of them written, and the
\* more that are asked for, the further back.  As long as no I/O call fails and no
\* process dies, it tells all of the last n in the active file.
ReadsBack ==
  \A n \in 0..MaxEntries :
    LET told == read_last(n) IN
      /\ \A i \in DOMAIN told : told[i] \in written /\ \A j \in DOMAIN told : i < j => told[i] < told[j]
      /\ \A i \in DOMAIN read_last(n + 1) \ DOMAIN told : \A j \in DOMAIN told : i < j
      /\ faults = 0 /\ crashes = 0 => \A i \in DOMAIN Lines(0) : i > Len(Lines(0)) - n => i \in DOMAIN told

\* Read from the oldest rotated file to the active one, the entries are in the
\* order they were logged and none is there twice, also in the middle of a
\* rotation, after a failed one and after a crash in one; and what is read back
\* of the active file is its last entries.
FilesInOrder ==
  /\ TypeOK
  /\ ReadsBack
  /\ \A n \in Names : \A i, j \in DOMAIN Lines(n) : i < j => Lines(n)[i].id < Lines(n)[j].id
  /\ \A m, n \in Names : m > n => \A d \in Whole(m), e \in Whole(n) : d < e

\* What rotation drops is the oldest: no entry that was written is missing
\* between two that are still there.  And it is dropped only to make room: as long
\* as no I/O call fails and no process dies, whenever a rotation is over and an
\* entry is gone, all of the max_files - 1 rotated files are there.  An entry that
\* log() returned Ok for and wrote nowhere comes after one it returned Err for.
OnlyOldestDropped ==
  /\ \A d \in written \ Visible : \A e \in Visible : d < e
  /\ faults = 0 /\ crashes = 0 =>
       \A d \in ok \ Visible : \A n \in 1..(MaxFiles - 1) :
         dir[n] # 0 \/ \E w \in Writers : pc[w] \in {"rotating", "reopening"}
  /\ \A d \in ok \ written : \E e \in err : e < d

\* Rotation bounds the log: never more than max_files files, counting the active
\* one and allowing the one rotated file that max_files = 1 still makes; and the
\* active one, also when it was inherited from an earlier process, outgrows
\* max_size by at most its first line, the one that rotation does not count.
DiskBounded ==
  /\ \A n \in Names : n >= MaxFiles /\ n > 1 => dir[n] = 0
  /\ \A w \in Writers : handle[w] # 0 =>
       files[handle[w]].bytes - files[handle[w]].first <= MaxSize

-----------------------------------------------------------------------------
(* What the repository says and the code does not do. *)

\* "Every tool execution is written to a local, append-only JSONL log": after
\* a failed rotation log() returns Ok for entries it writes nowhere.
OkMeansWritten == ok \subseteq written
=============================================================================
