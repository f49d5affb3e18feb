--------------------------- MODULE AuditLog_proofs ---------------------------
(***************************************************************************)
(* Proofs about AuditLog, for one writer: the types, the bound on the      *)
(* files and their sizes, the order of the lines, what read_last tells and *)
(* that rotation drops the oldest entries only, for every MaxSize,         *)
(* MaxFiles, EntrySizes and every number of entries, failing I/O calls and *)
(* crashes.  With a second writer the properties are false: two processes  *)
(* rotate the files under each other's handles.                            *)
(***************************************************************************)
EXTENDS AuditLog, TLAPS, FiniteSetTheorems, SequenceTheorems

(***************************************************************************)
(* The inductive invariant of the writer w.                                *)
(***************************************************************************)

Busy(w) == pc[w] \in {"rotating", "reopening", "writing"}

\* Every entry that was given an id before the one log() is working on.
Before(w) == 1..((IF Busy(w) THEN entry[w].id ELSE next) - 1)

Entry(w) == Busy(w) => entry[w].id = next - 1 /\ entry[w].id > 0

\* What rotation and the names have in common: the slot it is about to rename
\* into is free, no file has two names, and the file held is the active one.
Directory(w) ==
  /\ \A n \in Names : n >= MaxFiles /\ n > 1 => dir[n] = 0
  /\ \A m, n \in Names : m # n /\ dir[m] # 0 => dir[m] # dir[n]
  /\ handle[w] # 0 => handle[w] = dir[0] /\ pc[w] \in {"idle", "writing"}
  /\ pc[w] = "rotating" => shift[w] < MaxFiles /\ (MaxFiles > 1 => dir[shift[w] + 1] = 0)
  /\ pc[w] = "reopening" => dir[0] = 0

Ids(f) == {files[f].lines[i].id : i \in DOMAIN files[f].lines}

\* What is in a file: entries in their order, the whole ones written.
InFile(w) ==
  \A f \in DOMAIN files :
    /\ Ids(f) \subseteq Before(w)
    /\ \A i, j \in DOMAIN files[f].lines : i < j => files[f].lines[i].id < files[f].lines[j].id
    /\ \A i \in DOMAIN files[f].lines : ~files[f].lines[i].torn => files[f].lines[i].id \in written
    /\ faults = 0 /\ crashes = 0 => \A i \in DOMAIN files[f].lines : ~files[f].lines[i].torn

AcrossFiles ==
  \A m, n \in Names : m > n /\ dir[m] # 0 /\ dir[n] # 0 =>
    \A d \in Ids(dir[m]), e \in Ids(dir[n]) : d < e

Answered(w) ==
  /\ written \subseteq Before(w) /\ ok \subseteq Before(w) /\ err \subseteq Before(w)
  /\ \A d \in ok \ written : \E e \in err : e < d
  /\ pc[w] \in {"idle", "writing"} /\ handle[w] = 0 => err # {}

\* The first line of a file is not counted in size, every other one is.
Sizes(w) ==
  /\ \A f \in DOMAIN files :
       /\ files[f].lines = <<>> => files[f].bytes = 0 /\ files[f].first = 0
       /\ files[f].bytes - files[f].first <= MaxSize
  /\ handle[w] # 0 =>
       LET counted == files[handle[w]].bytes - files[handle[w]].first IN
         /\ pc[w] = "idle" => counted <= size[w]
         /\ pc[w] = "writing" /\ files[handle[w]].lines # <<>> =>
              counted + entry[w].size <= size[w] /\ size[w] <= MaxSize

OldestDropped == \A d \in written \ Visible : \A e \in Visible : d < e

\* The slot rotation has emptied; outside of one there is none.
Hole(w, n) ==
  \/ pc[w] = "rotating" /\ n = shift[w] + 1
  \/ pc[w] = "reopening" /\ n = 0

\* As long as nothing fails, the rotated files fill the slots from the first
\* one on, all of them once an entry has been dropped, except for the hole.
NoGaps(w) ==
  faults = 0 /\ crashes = 0 =>
    /\ err = {} /\ ok \subseteq written
    /\ pc[w] = "rotating" => dir[0] # 0
    /\ \A m, n \in Names : m < n /\ dir[n] # 0 /\ ~Hole(w, m) => dir[m] # 0
    /\ ok \ Visible # {} => \A n \in 1..(MaxFiles - 1) : Hole(w, n) \/ dir[n] # 0

Inv(w) ==
  /\ TypeOK /\ Entry(w) /\ Directory(w) /\ InFile(w) /\ AcrossFiles
  /\ Answered(w) /\ Sizes(w) /\ OldestDropped /\ NoGaps(w)
-----------------------------------------------------------------------------
(* The types. *)

\* What opening the path does: nothing but when the file is not there.
LEMMA OpenEffect ==
  TypeOK /\ OpenPath =>
    \/ dir[0] # 0 /\ UNCHANGED disk
    \/ /\ dir[0] = 0
       /\ dir' = [dir EXCEPT ![0] = Len(files) + 1]
       /\ files' \in Seq(FileType) /\ Len(files') = Len(files) + 1
       /\ \A f \in 1..Len(files) : files'[f] = files[f]
       /\ files'[Len(files) + 1] = NewFile
<1> SUFFICES ASSUME TypeOK, OpenPath, dir[0] = 0
             PROVE  /\ dir' = [dir EXCEPT ![0] = Len(files) + 1]
                    /\ files' \in Seq(FileType) /\ Len(files') = Len(files) + 1
                    /\ \A f \in 1..Len(files) : files'[f] = files[f]
                    /\ files'[Len(files) + 1] = NewFile
  BY DEF OpenPath
<1>1. NewFile \in FileType
  BY EmptySeq DEF NewFile, FileType
<1>2. files \in Seq(FileType)
  BY DEF TypeOK
<1>3. dir' = [dir EXCEPT ![0] = Len(files) + 1] /\ files' = Append(files, NewFile)
  BY DEF OpenPath
<1> QED BY <1>1, <1>2, <1>3, AppendProperties

LEMMA OpenTypes ==
  TypeOK /\ OpenPath =>
    /\ dir' \in [Names -> 0..Len(files')] /\ dir'[0] \in 1..Len(files')
    /\ files' \in Seq(FileType) /\ Len(files') >= Len(files)
<1> SUFFICES ASSUME TypeOK, OpenPath
             PROVE  /\ dir' \in [Names -> 0..Len(files')] /\ dir'[0] \in 1..Len(files')
                    /\ files' \in Seq(FileType) /\ Len(files') >= Len(files)
  OBVIOUS
<1>1. 0 \in Names /\ Len(files) \in Nat /\ dir[0] \in 0..Len(files)
  BY AuditAssumption, LenProperties DEF TypeOK, Names
<1>2. CASE dir[0] # 0 /\ UNCHANGED disk
  BY <1>1, <1>2 DEF disk, TypeOK
<1>3. CASE /\ dir' = [dir EXCEPT ![0] = Len(files) + 1]
           /\ files' \in Seq(FileType) /\ Len(files') = Len(files) + 1
  BY <1>1, <1>3 DEF TypeOK
<1> QED BY <1>2, <1>3, OpenEffect

\* What appending a line does to the file the writer holds.
Appended(f, line, bytes) ==
  [lines |-> Append(f.lines, line), bytes |-> f.bytes + bytes,
   first |-> IF f.lines = <<>> THEN bytes ELSE f.first]

LEMMA AppendEffect ==
  ASSUME NEW w \in Writers, NEW torn \in BOOLEAN
  PROVE  TypeOK /\ Entry(w) /\ pc[w] = "writing" /\ handle[w] # 0 /\ AppendLine(w, torn) =>
           LET line == [id |-> entry[w].id, torn |-> torn] IN
           /\ line \in LineType
           /\ entry[w].size \in Nat
           /\ handle[w] \in 1..Len(files)
           /\ files' \in Seq(FileType) /\ Len(files') = Len(files)
           /\ \A f \in 1..Len(files) : f # handle[w] => files'[f] = files[f]
           /\ files'[handle[w]] = Appended(files[handle[w]], line, entry[w].size)
<1> SUFFICES ASSUME TypeOK, Entry(w), pc[w] = "writing", handle[w] # 0, AppendLine(w, torn)
             PROVE  LET line == [id |-> entry[w].id, torn |-> torn] IN
                    /\ line \in LineType
                    /\ entry[w].size \in Nat
                    /\ handle[w] \in 1..Len(files)
                    /\ files' \in Seq(FileType) /\ Len(files') = Len(files)
                    /\ \A f \in 1..Len(files) : f # handle[w] => files'[f] = files[f]
                    /\ files'[handle[w]] = Appended(files[handle[w]], line, entry[w].size)
  OBVIOUS
<1> DEFINE line == [id |-> entry[w].id, torn |-> torn]
           h == handle[w]
           new == Appended(files[h], line, entry[w].size)
<1>1. h \in 1..Len(files) /\ entry[w].size \in Nat /\ entry[w].id \in 0..MaxEntries
  BY DEF TypeOK
<1>2. files \in Seq(FileType) /\ files[h] \in FileType
  BY <1>1, ElementOfSeq DEF TypeOK
<1>3. line \in LineType
  BY <1>1 DEF Entry, Busy, LineType
<1>4. new \in FileType
  <2>1. Append(files[h].lines, line) \in Seq(LineType)
    <3> HIDE DEF line
    <3>1. files[h].lines \in Seq(LineType)
      BY <1>2 DEF FileType
    <3> QED BY <1>3, <3>1, AppendProperties
  <2>2. files[h].bytes \in Nat /\ files[h].first \in Nat
    BY <1>2 DEF FileType
  <2> HIDE DEF line, h
  <2> QED BY <1>1, <2>1, <2>2 DEF Appended, FileType
<1>5. files' = [files EXCEPT ![h] = new]
  BY DEF AppendLine, Appended
<1> HIDE DEF line, h, new
<1>6. /\ files' \in Seq(FileType) /\ Len(files') = Len(files)
      /\ \A f \in 1..Len(files) : files'[f] = IF f = h THEN new ELSE files[f]
  BY <1>1, <1>2, <1>4, <1>5, ExceptSeq
<1> QED BY <1>1, <1>3, <1>6 DEF line, h, new

LEMMA TypeOKInit == Init => TypeOK
BY AuditAssumption DEF Init, TypeOK, Names, NoEntry

LEMMA TypeOKStep ==
  ASSUME NEW w \in Writers
  PROVE  TypeOK /\ Entry(w) /\ Directory(w) /\ Step(w) => TypeOK'
<1> SUFFICES ASSUME TypeOK, Entry(w), Directory(w), Step(w) PROVE TypeOK'
  OBVIOUS
<1> USE AuditAssumption
<1>0. 0 \in Names /\ Len(files) \in Nat
  BY LenProperties DEF Names, TypeOK
<1>1. CASE Open(w)
  <2>1. /\ dir' \in [Names -> 0..Len(files')] /\ dir'[0] \in 1..Len(files')
        /\ files' \in Seq(FileType) /\ Len(files') >= Len(files)
    BY <1>0, <1>1, OpenTypes DEF Open
  <2>2. files'[dir'[0]].bytes \in Nat
    <3>1. files'[dir'[0]] \in FileType
      BY <2>1, ElementOfSeq
    <3> QED BY <3>1 DEF FileType
  <2>3. size' \in [Writers -> Nat]
    BY <1>1, <2>2 DEF Open, TypeOK, SizeAtOpen
  <2>4. handle' \in [Writers -> 0..Len(files')]
    BY <1>1, <2>1 DEF Open, TypeOK
  <2>5. pc' \in [Writers -> {"down", "idle", "rotating", "reopening", "writing"}]
    BY <1>1 DEF Open, TypeOK
  <2> QED BY <1>1, <2>1, <2>3, <2>4, <2>5 DEF Open, TypeOK, history
<1>2. ASSUME NEW s \in EntrySizes, Log(w, s) PROVE TypeOK'
  <2>1. next \in 1..MaxEntries /\ s \in Nat /\ MaxFiles - 1 \in 0..MaxFiles
    BY <1>2 DEF Log, TypeOK
  <2>2. entry' \in [Writers -> [id : 0..MaxEntries, size : Nat]]
    BY <1>2, <2>1 DEF Log, TypeOK
  <2>3. /\ handle' \in [Writers -> 0..Len(files)]
        /\ size' \in [Writers -> Nat] /\ shift' \in [Writers -> 0..MaxFiles]
    <3>1. /\ handle \in [Writers -> 0..Len(files)] /\ size \in [Writers -> Nat]
          /\ shift \in [Writers -> 0..MaxFiles] /\ size[w] + s \in Nat
      BY <2>1 DEF TypeOK
    <3>2. CASE MustRotate(w, s)
      <4>1. /\ handle' = [handle EXCEPT ![w] = 0] /\ size' = size
            /\ shift' = [shift EXCEPT ![w] = MaxFiles - 1]
        BY <1>2, <3>2 DEF Log
      <4> QED BY <1>0, <2>1, <3>1, <4>1
    <3>3. CASE ~MustRotate(w, s)
      BY <1>2, <3>1, <3>3 DEF Log
    <3> QED BY <3>2, <3>3
  <2>4. pc' \in [Writers -> {"down", "idle", "rotating", "reopening", "writing"}]
    BY <1>2 DEF Log, TypeOK
  <2>5. /\ next' = next + 1 /\ dir' = dir /\ files' = files /\ ok' = ok /\ err' = err
        /\ written' = written /\ faults' = faults /\ crashes' = crashes
    BY <1>2 DEF Log, disk
  <2>6. next' \in 1..(MaxEntries + 1)
    BY <2>1, <2>5
  <2>7. dir' \in [Names -> 0..Len(files')] /\ files' \in Seq(FileType) /\ handle' \in [Writers -> 0..Len(files')]
    BY <2>3, <2>5 DEF TypeOK
  <2>8. /\ ok' \subseteq 1..MaxEntries /\ err' \subseteq 1..MaxEntries /\ written' \subseteq 1..MaxEntries
        /\ faults' \in 0..MaxFaults /\ crashes' \in 0..MaxCrashes
    BY <2>5 DEF TypeOK
  <2> QED BY <2>2, <2>3, <2>4, <2>6, <2>7, <2>8 DEF TypeOK
<1>3. CASE ShiftRotated(w)
  <2>1. shift[w] \in Names /\ shift[w] + 1 \in Names
    BY <1>3 DEF ShiftRotated, TypeOK, Names, Directory
  <2>2. dir' \in [Names -> 0..Len(files)]
    <3>1. dir' = dir \/ dir' = [dir EXCEPT ![shift[w]] = 0] \/ Rename(shift[w], shift[w] + 1)
      BY <1>3 DEF ShiftRotated, ShiftOne
    <3>2. dir \in [Names -> 0..Len(files)] /\ dir[shift[w]] \in 0..Len(files)
      BY <2>1 DEF TypeOK
    <3> QED BY <1>0, <2>1, <3>1, <3>2 DEF Rename
  <2> QED BY <1>3, <2>2 DEF ShiftRotated, TypeOK, history
<1>4. CASE MoveCurrent(w)
  <2>1. 0 \in Names /\ 1 \in Names
    BY DEF Names
  <2>2. dir' \in [Names -> 0..Len(files)]
    BY <1>4, <2>1, LenProperties DEF MoveCurrent, Rename, TypeOK
  <2> QED BY <1>4, <2>2 DEF MoveCurrent, TypeOK, history
<1>5. CASE Reopen(w)
  <2>1. /\ dir' \in [Names -> 0..Len(files')] /\ dir'[0] \in 1..Len(files')
        /\ files' \in Seq(FileType) /\ Len(files') >= Len(files)
    BY <1>0, <1>5, OpenTypes DEF Reopen
  <2>2. handle' \in [Writers -> 0..Len(files')]
    BY <1>5, <2>1 DEF Reopen, Reopened, TypeOK
  <2>3. size' \in [Writers -> Nat]
    BY <1>5 DEF Reopen, TypeOK
  <2>4. pc' \in [Writers -> {"down", "idle", "rotating", "reopening", "writing"}]
    BY <1>5 DEF Reopen, TypeOK
  <2>5. UNCHANGED <<entry, shift, next, ok, err, written, faults, crashes>>
    BY <1>5 DEF Reopen, history
  <2> QED BY <2>1, <2>2, <2>3, <2>4, <2>5 DEF TypeOK
<1>6. CASE Write(w)
  <2>1. files' \in Seq(FileType) /\ Len(files') = Len(files)
    BY <1>6, AppendEffect DEF Write, TypeOK
  <2>2. entry[w].id \in 1..MaxEntries
    BY <1>6 DEF Write, Entry, Busy, TypeOK
  <2>3. pc' \in [Writers -> {"down", "idle", "rotating", "reopening", "writing"}]
    BY <1>6 DEF Write, TypeOK
  <2>4. ok' \subseteq 1..MaxEntries /\ written' \subseteq 1..MaxEntries
    BY <1>6, <2>2 DEF Write, TypeOK
  <2> QED BY <1>6, <2>1, <2>3, <2>4 DEF Write, TypeOK
<1>7. CASE RotationFault(w)
  <2>1. entry[w].id \in 1..MaxEntries
    BY <1>7 DEF RotationFault, Entry, Busy, TypeOK
  <2>2. /\ pc' \in [Writers -> {"down", "idle", "rotating", "reopening", "writing"}]
        /\ err' \subseteq 1..MaxEntries
    BY <1>7, <2>1 DEF RotationFault, ReturnErr, TypeOK
  <2>3. faults' \in 0..MaxFaults
    BY <1>7 DEF RotationFault, TypeOK
  <2> QED BY <1>7, <2>2, <2>3 DEF RotationFault, TypeOK, disk
<1>8. CASE WriteFault(w)
  <2>1. files' \in Seq(FileType) /\ Len(files') = Len(files)
    BY <1>8, AppendEffect DEF WriteFault, TypeOK
  <2>2. entry[w].id \in 1..MaxEntries
    BY <1>8 DEF WriteFault, Entry, Busy, TypeOK
  <2>3. /\ pc' \in [Writers -> {"down", "idle", "rotating", "reopening", "writing"}]
        /\ err' \subseteq 1..MaxEntries
    BY <1>8, <2>2 DEF WriteFault, ReturnErr, TypeOK
  <2>4. faults' \in 0..MaxFaults
    BY <1>8 DEF WriteFault, TypeOK
  <2> QED BY <1>8, <2>1, <2>3, <2>4 DEF WriteFault, TypeOK
<1>9. CASE Crash(w)
  <2>1. files' \in Seq(FileType) /\ Len(files') = Len(files)
    BY <1>9, AppendEffect DEF Crash, TypeOK
  <2>2. /\ handle' \in [Writers -> 0..Len(files)] /\ size' \in [Writers -> Nat]
        /\ shift' \in [Writers -> 0..MaxFiles]
    BY <1>0, <1>9 DEF Crash, TypeOK
  <2>3. entry' \in [Writers -> [id : 0..MaxEntries, size : Nat]]
    BY <1>9 DEF Crash, TypeOK, NoEntry
  <2>4. /\ pc' \in [Writers -> {"down", "idle", "rotating", "reopening", "writing"}]
        /\ crashes' \in 0..MaxCrashes
    BY <1>9 DEF Crash, TypeOK
  <2> QED BY <1>9, <2>1, <2>2, <2>3, <2>4 DEF Crash, TypeOK
<1> QED BY <1>1, <1>2, <1>3, <1>4, <1>5, <1>6, <1>7, <1>8, <1>9 DEF Step

-----------------------------------------------------------------------------
(* The names of the files. *)

LEMMA EntryStep ==
  ASSUME NEW w \in Writers
  PROVE  TypeOK /\ Entry(w) /\ Step(w) => Entry(w)'
<1> SUFFICES ASSUME TypeOK, Entry(w), Step(w), Busy(w)' PROVE entry'[w].id = next' - 1 /\ entry'[w].id > 0
  BY DEF Entry
<1>1. CASE \E s \in EntrySizes : Log(w, s)
  BY <1>1 DEF Log, TypeOK
<1>2. CASE UNCHANGED <<entry, next>> /\ Busy(w)
  BY <1>2 DEF Entry
<1>3. CASE UNCHANGED <<entry, next>> /\ pc'[w] \in {"idle", "down"}
  BY <1>3 DEF Busy
<1>4. CASE pc'[w] = "down"
  BY <1>4 DEF Busy
<1>5. CASE Open(w) \/ ShiftRotated(w) \/ MoveCurrent(w) \/ Reopen(w)
  BY <1>2, <1>3, <1>5 DEF Open, ShiftRotated, MoveCurrent, Reopen, Busy, TypeOK, history
<1>6. CASE Write(w) \/ RotationFault(w) \/ WriteFault(w)
  BY <1>3, <1>6 DEF Write, RotationFault, WriteFault, ReturnErr, TypeOK
<1>7. CASE Crash(w)
  BY <1>4, <1>7 DEF Crash, TypeOK
<1> QED BY <1>1, <1>5, <1>6, <1>7 DEF Step

\* The three ways a step of w changes the directory.
LEMMA DirectoryOfShift ==
  ASSUME NEW w \in Writers
  PROVE  TypeOK /\ Directory(w) /\ ShiftRotated(w) =>
           LET i == shift[w] IN
           /\ i \in 1..(MaxFiles - 1) /\ MaxFiles > 1
           /\ dir[i + 1] = 0
           /\ \/ dir[i] = 0 /\ dir' = dir
              \/ dir[i] # 0 /\ i + 1 = MaxFiles /\ dir' = [dir EXCEPT ![i] = 0]
              \/ dir[i] # 0 /\ i + 1 < MaxFiles /\ dir' = [dir EXCEPT ![i + 1] = dir[i], ![i] = 0]
<1> SUFFICES ASSUME TypeOK, Directory(w), ShiftRotated(w)
             PROVE  LET i == shift[w] IN
                    /\ i \in 1..(MaxFiles - 1) /\ MaxFiles > 1
                    /\ dir[i + 1] = 0
                    /\ \/ dir[i] = 0 /\ dir' = dir
                       \/ dir[i] # 0 /\ i + 1 = MaxFiles /\ dir' = [dir EXCEPT ![i] = 0]
                       \/ dir[i] # 0 /\ i + 1 < MaxFiles /\ dir' = [dir EXCEPT ![i + 1] = dir[i], ![i] = 0]
  OBVIOUS
<1> DEFINE i == shift[w]
<1>1. i \in 1..(MaxFiles - 1) /\ MaxFiles > 1 /\ dir[i + 1] = 0
  BY AuditAssumption DEF ShiftRotated, Directory, TypeOK
<1>2. ShiftOne(i)
  BY DEF ShiftRotated
<1> HIDE DEF i
<1>3. \/ dir[i] = 0 /\ dir' = dir
      \/ dir[i] # 0 /\ i + 1 = MaxFiles /\ dir' = [dir EXCEPT ![i] = 0]
      \/ dir[i] # 0 /\ i + 1 < MaxFiles /\ dir' = [dir EXCEPT ![i + 1] = dir[i], ![i] = 0]
  BY AuditAssumption, <1>1, <1>2 DEF ShiftOne, Rename
<1> QED BY <1>1, <1>3 DEF i

LEMMA DirectoryStep ==
  ASSUME NEW w \in Writers
  PROVE  TypeOK /\ Directory(w) /\ Step(w) => Directory(w)'
<1> SUFFICES ASSUME TypeOK, Directory(w), Step(w) PROVE Directory(w)'
  OBVIOUS
<1> USE AuditAssumption
<1>0. /\ 0 \in Names /\ 1 \in Names /\ Len(files) \in Nat /\ Names \subseteq Nat
      /\ \A n \in Names : dir[n] \in 0..Len(files)
  BY LenProperties DEF Names, TypeOK
<1>1. CASE Open(w) \/ Reopen(w)
  <2>1. OpenPath /\ handle'[w] = dir'[0] /\ pc'[w] \in {"idle", "writing"} /\ pc[w] \in {"down", "reopening"}
    BY <1>1 DEF Open, Reopen, Reopened, TypeOK
  <2>2. CASE UNCHANGED disk
    BY <2>1, <2>2 DEF Directory, disk
  <2>3. CASE dir[0] = 0 /\ dir' = [dir EXCEPT ![0] = Len(files) + 1]
    <3>1. \A n \in Names : dir'[n] = IF n = 0 THEN Len(files) + 1 ELSE dir[n]
      BY <2>3 DEF TypeOK
    <3>2. \A n \in Names : n >= MaxFiles /\ n > 1 => dir'[n] = 0
      BY <3>1 DEF Directory
    <3>3. \A m, n \in Names : m # n /\ dir'[m] # 0 => dir'[m] # dir'[n]
      BY <1>0, <3>1 DEF Directory
    <3> QED BY <2>1, <3>2, <3>3 DEF Directory
  <2> QED BY <2>1, <2>2, <2>3, OpenEffect
<1>2. ASSUME NEW s \in EntrySizes, Log(w, s) PROVE Directory(w)'
  <2>1. UNCHANGED dir
    BY <1>2 DEF Log, disk
  <2>2. CASE MustRotate(w, s)
    <3>1. handle'[w] = 0 /\ pc'[w] = "rotating" /\ shift'[w] = MaxFiles - 1
      BY <1>2, <2>2 DEF Log, TypeOK
    <3>2. MaxFiles > 1 => dir[(MaxFiles - 1) + 1] = 0
      BY DEF Directory, Names
    <3> QED BY <2>1, <3>1, <3>2 DEF Directory
  <2>3. CASE ~MustRotate(w, s)
    <3>1. handle' = handle /\ pc'[w] = "writing"
      BY <1>2, <2>3 DEF Log, TypeOK
    <3> QED BY <2>1, <3>1 DEF Directory
  <2> QED BY <2>2, <2>3
<1>3. CASE ShiftRotated(w)
  <2> DEFINE i == shift[w]
  <2>1. i \in 1..(MaxFiles - 1) /\ MaxFiles > 1 /\ dir[i + 1] = 0 /\ i \in Names /\ i + 1 \in Names
    BY <1>3, DirectoryOfShift DEF Names
  <2>2. pc' = pc /\ handle' = handle /\ shift'[w] = i - 1 /\ pc[w] = "rotating" /\ handle[w] = 0
    BY <1>3 DEF ShiftRotated, TypeOK, Directory
  <2>3. \/ dir[i] = 0 /\ dir' = dir
        \/ i + 1 = MaxFiles /\ dir' = [dir EXCEPT ![i] = 0]
        \/ i + 1 < MaxFiles /\ dir' = [dir EXCEPT ![i + 1] = dir[i], ![i] = 0]
    BY <1>3, DirectoryOfShift
  <2> HIDE DEF i
  <2>4. /\ \A n \in Names : n >= MaxFiles /\ n > 1 => dir'[n] = 0
        /\ \A m, n \in Names : m # n /\ dir'[m] # 0 => dir'[m] # dir'[n]
        /\ dir'[i] = 0
    <3>1. dir \in [Names -> 0..Len(files)]
      BY DEF TypeOK
    <3>2. /\ \A n \in Names : n >= MaxFiles /\ n > 1 => dir[n] = 0
          /\ \A m, n \in Names : m # n /\ dir[m] # 0 => dir[m] # dir[n]
      BY DEF Directory
    <3>3. CASE dir[i] = 0 /\ dir' = dir
      BY <3>2, <3>3
    <3>4. CASE dir' = [dir EXCEPT ![i] = 0]
      BY <1>0, <2>1, <3>1, <3>2, <3>4
    <3>5. CASE i + 1 < MaxFiles /\ dir' = [dir EXCEPT ![i + 1] = dir[i], ![i] = 0]
      <4>1. \A n \in Names : dir'[n] = IF n = i THEN 0 ELSE IF n = i + 1 THEN dir[i] ELSE dir[n]
        BY <2>1, <3>1, <3>5
      <4>2. \A n \in Names : n >= MaxFiles /\ n > 1 => dir'[n] = 0
        <5> SUFFICES ASSUME NEW n \in Names, n >= MaxFiles, n > 1 PROVE dir'[n] = 0
          OBVIOUS
        <5>1. n # i /\ n # i + 1 /\ dir[n] = 0
          <6>1. n \in Nat /\ i \in Nat /\ i + 1 < MaxFiles /\ MaxFiles \in Nat
            BY <1>0, <2>1, <3>5
          <6>2. n # i /\ n # i + 1
            BY <6>1
          <6> QED BY <3>2, <6>2
        <5> QED BY <4>1, <5>1
      <4>3. ASSUME NEW m \in Names, NEW n \in Names, m # n, dir'[m] # 0 PROVE dir'[m] # dir'[n]
        <5>1. m # i /\ dir[i + 1] = 0
          BY <2>1, <4>1, <4>3
        <5>2. CASE m = i + 1
          BY <2>1, <3>2, <4>1, <4>3, <5>1, <5>2
        <5>3. CASE m # i + 1
          BY <2>1, <3>2, <4>1, <4>3, <5>1, <5>3
        <5> QED BY <5>2, <5>3
      <4>4. dir'[i] = 0
        BY <2>1, <4>1
      <4> QED BY <4>2, <4>3, <4>4
    <3> QED BY <2>3, <3>3, <3>4, <3>5
  <2> QED BY <2>1, <2>2, <2>4 DEF Directory
<1>4. CASE MoveCurrent(w)
  <2>1. pc'[w] = "reopening" /\ handle' = handle /\ handle[w] = 0 /\ pc[w] = "rotating" /\ shift[w] = 0
    BY <1>4 DEF MoveCurrent, TypeOK, Directory
  <2>2. \A n \in Names : dir'[n] = IF n = 0 THEN 0 ELSE IF n = 1 THEN dir[0] ELSE dir[n]
    BY <1>0, <1>4 DEF MoveCurrent, Rename, TypeOK
  <2>3. /\ \A n \in Names : n >= MaxFiles /\ n > 1 => dir'[n] = 0
        /\ \A m, n \in Names : m # n /\ dir'[m] # 0 => dir'[m] # dir'[n]
    <3>1. \A n \in Names : n >= MaxFiles /\ n > 1 => dir'[n] = 0
      BY <2>2 DEF Directory
    <3>2. ASSUME NEW m \in Names, NEW n \in Names, m # n, dir'[m] # 0 PROVE dir'[m] # dir'[n]
      <4>1. m # 0 /\ (m # 1 => dir[m] # 0) /\ (m = 1 => dir[0] # 0)
        BY <1>0, <2>2, <3>2
      <4>2. \A a, b \in Names : a # b /\ dir[a] # 0 => dir[a] # dir[b]
        BY DEF Directory
      <4>3. CASE m = 1
        BY <1>0, <2>2, <3>2, <4>1, <4>2, <4>3
      <4>4. CASE m # 1
        BY <1>0, <2>2, <3>2, <4>1, <4>2, <4>4
      <4> QED BY <4>3, <4>4
    <3> QED BY <3>1, <3>2
  <2> QED BY <1>0, <2>1, <2>2, <2>3 DEF Directory
<1>5. CASE Write(w) \/ RotationFault(w) \/ WriteFault(w)
  <2>1. dir' = dir /\ handle' = handle /\ pc'[w] = "idle" /\ pc[w] \in {"rotating", "reopening", "writing"}
    BY <1>5 DEF Write, RotationFault, WriteFault, ReturnErr, TypeOK, disk
  <2> QED BY <2>1 DEF Directory
<1>6. CASE Crash(w)
  <2>1. dir' = dir /\ handle'[w] = 0 /\ pc'[w] = "down"
    BY <1>6 DEF Crash, TypeOK
  <2> QED BY <2>1 DEF Directory
<1> QED BY <1>1, <1>2, <1>3, <1>4, <1>5, <1>6 DEF Step

-----------------------------------------------------------------------------
(* The lines of the files. *)

LEMMA FileFacts ==
  TypeOK =>
    /\ DOMAIN files = 1..Len(files) /\ Len(files) \in Nat
    /\ \A f \in 1..Len(files) :
         /\ files[f] \in FileType
         /\ DOMAIN files[f].lines = 1..Len(files[f].lines) /\ Len(files[f].lines) \in Nat
         /\ \A i \in 1..Len(files[f].lines) : files[f].lines[i].id \in 1..MaxEntries
<1> SUFFICES ASSUME TypeOK
             PROVE  /\ DOMAIN files = 1..Len(files) /\ Len(files) \in Nat
                    /\ \A f \in 1..Len(files) :
                         /\ files[f] \in FileType
                         /\ DOMAIN files[f].lines = 1..Len(files[f].lines) /\ Len(files[f].lines) \in Nat
                         /\ \A i \in 1..Len(files[f].lines) : files[f].lines[i].id \in 1..MaxEntries
  OBVIOUS
<1>1. files \in Seq(FileType)
  BY DEF TypeOK
<1>2. DOMAIN files = 1..Len(files) /\ Len(files) \in Nat
  BY <1>1, LenProperties
<1>3. ASSUME NEW f \in 1..Len(files)
      PROVE  /\ files[f] \in FileType
             /\ DOMAIN files[f].lines = 1..Len(files[f].lines) /\ Len(files[f].lines) \in Nat
             /\ \A i \in 1..Len(files[f].lines) : files[f].lines[i].id \in 1..MaxEntries
  <2>1. files[f] \in FileType
    BY <1>1, ElementOfSeq
  <2>2. files[f].lines \in Seq(LineType)
    BY <2>1 DEF FileType
  <2>3. DOMAIN files[f].lines = 1..Len(files[f].lines) /\ Len(files[f].lines) \in Nat
    BY <2>2, LenProperties
  <2>4. ASSUME NEW i \in 1..Len(files[f].lines) PROVE files[f].lines[i].id \in 1..MaxEntries
    <3>1. files[f].lines[i] \in LineType
      BY <2>2, ElementOfSeq
    <3> QED BY <3>1 DEF LineType
  <2> QED BY <2>1, <2>3, <2>4
<1> QED BY <1>2, <1>3

LEMMA AppendedLines ==
  ASSUME NEW f \in FileType, NEW line \in LineType, NEW bytes
  PROVE  LET g == Appended(f, line, bytes) IN
         /\ Len(f.lines) \in Nat
         /\ DOMAIN g.lines = 1..(Len(f.lines) + 1)
         /\ \A i \in 1..Len(f.lines) : g.lines[i] = f.lines[i]
         /\ g.lines[Len(f.lines) + 1] = line
         /\ g.lines # <<>>
         /\ g.bytes = f.bytes + bytes
         /\ g.first = IF f.lines = <<>> THEN bytes ELSE f.first
<1>1. f.lines \in Seq(LineType)
  BY DEF FileType
<1>2. Appended(f, line, bytes).lines = Append(f.lines, line)
  BY DEF Appended
<1>3. /\ Append(f.lines, line) \in Seq(LineType)
      /\ Len(Append(f.lines, line)) = Len(f.lines) + 1
      /\ Append(f.lines, line) # <<>>
      /\ \A i \in 1..Len(f.lines) : Append(f.lines, line)[i] = f.lines[i]
      /\ Append(f.lines, line)[Len(f.lines) + 1] = line
  BY <1>1, AppendProperties
<1>4. DOMAIN Append(f.lines, line) = 1..(Len(f.lines) + 1) /\ Len(f.lines) \in Nat
  BY <1>1, <1>3, LenProperties
<1> QED BY <1>2, <1>3, <1>4 DEF Appended

\* The three things a step of w does to the files: nothing, a new one that has
\* the name of the active file, or a line more in the active one.
Created ==
  /\ dir[0] = 0 /\ dir' = [dir EXCEPT ![0] = Len(files) + 1]
  /\ Len(files') = Len(files) + 1
  /\ \A f \in 1..Len(files) : files'[f] = files[f]
  /\ files'[Len(files) + 1] = NewFile
  /\ UNCHANGED <<written, ok, err, faults, crashes>>

Grown(w, torn) ==
  /\ pc[w] = "writing" /\ pc'[w] \in {"idle", "down"}
  /\ handle[w] \in 1..Len(files) /\ handle[w] = dir[0] /\ dir' = dir
  /\ Len(files') = Len(files)
  /\ \A f \in 1..Len(files) : f # handle[w] => files'[f] = files[f]
  /\ files'[handle[w]] = Appended(files[handle[w]], [id |-> entry[w].id, torn |-> torn], entry[w].size)
  /\ [id |-> entry[w].id, torn |-> torn] \in LineType /\ entry[w].size \in Nat
  /\ IF torn THEN written' = written /\ (faults' > 0 \/ crashes' > 0)
     ELSE written' = written \cup {entry[w].id}

LEMMA FilesOfStep ==
  ASSUME NEW w \in Writers
  PROVE  TypeOK /\ Entry(w) /\ Directory(w) /\ Step(w) =>
           /\ (files' = files /\ written' = written) \/ Created \/ \E torn \in BOOLEAN : Grown(w, torn)
           /\ written \subseteq written'
           /\ faults' = 0 /\ crashes' = 0 => faults = 0 /\ crashes = 0
<1> SUFFICES ASSUME TypeOK, Entry(w), Directory(w), Step(w)
             PROVE  /\ (files' = files /\ written' = written) \/ Created \/ \E torn \in BOOLEAN : Grown(w, torn)
                    /\ written \subseteq written'
                    /\ faults' = 0 /\ crashes' = 0 => faults = 0 /\ crashes = 0
  OBVIOUS
<1>0. faults \in Nat /\ crashes \in Nat
  BY AuditAssumption DEF TypeOK
<1>1. CASE Open(w) \/ Reopen(w)
  <2>1. OpenPath /\ UNCHANGED history
    BY <1>1 DEF Open, Reopen
  <2>2. files' = files \/ Created
    BY <2>1, OpenEffect DEF Created, history, disk
  <2> QED BY <2>1, <2>2 DEF history
<1>2. CASE (\E s \in EntrySizes : Log(w, s)) \/ ShiftRotated(w) \/ MoveCurrent(w) \/ RotationFault(w)
  BY <1>0, <1>2 DEF Log, ShiftRotated, MoveCurrent, RotationFault, history, disk
<1>3. ASSUME NEW torn \in BOOLEAN, AppendLine(w, torn), handle[w] # 0, pc[w] = "writing",
             pc'[w] \in {"idle", "down"}, dir' = dir,
             IF torn THEN written' = written /\ (faults' > 0 \/ crashes' > 0)
             ELSE written' = written \cup {entry[w].id}
      PROVE  Grown(w, torn)
  <2>1. handle[w] = dir[0]
    BY <1>3 DEF Directory
  <2> QED BY <1>3, <2>1, AppendEffect DEF Grown
<1>4. CASE Write(w)
  <2>1. (files' = files /\ written' = written) \/ Grown(w, FALSE)
    <3>1. CASE handle[w] # 0
      <4>1. AppendLine(w, FALSE) /\ written' = written \cup {entry[w].id} /\ dir' = dir
            /\ pc[w] = "writing" /\ pc'[w] = "idle"
        BY <1>4, <3>1 DEF Write, TypeOK
      <4> QED BY <1>3, <3>1, <4>1
    <3> QED BY <1>4, <3>1 DEF Write
  <2> QED BY <1>4, <2>1 DEF Write
<1>5. CASE WriteFault(w)
  <2>1. files' = files \/ Grown(w, TRUE)
    <3>1. pc[w] = "writing" /\ pc'[w] = "idle" /\ handle[w] # 0 /\ dir' = dir /\ written' = written /\ faults' > 0
      BY <1>0, <1>5 DEF WriteFault, ReturnErr, TypeOK
    <3> QED BY <1>3, <1>5, <3>1 DEF WriteFault
  <2>2. written' = written /\ ~(faults' = 0 /\ crashes' = 0)
    BY <1>0, <1>5 DEF WriteFault
  <2> QED BY <2>1, <2>2
<1>6. CASE Crash(w)
  <2>1. files' = files \/ Grown(w, TRUE)
    <3>1. pc'[w] = "down" /\ dir' = dir /\ written' = written /\ crashes' > 0
      BY <1>0, <1>6 DEF Crash, TypeOK
    <3> QED BY <1>3, <1>6, <3>1 DEF Crash
  <2>2. written' = written /\ ~(faults' = 0 /\ crashes' = 0)
    BY <1>0, <1>6 DEF Crash
  <2> QED BY <2>1, <2>2
<1> QED BY <1>1, <1>2, <1>4, <1>5, <1>6 DEF Step

LEMMA BeforeStep ==
  ASSUME NEW w \in Writers
  PROVE  TypeOK /\ Entry(w) /\ Step(w) =>
           /\ Before(w) \subseteq Before(w)'
           /\ Busy(w) => Before(w) = 1..(entry[w].id - 1) /\ entry[w].id \in Nat
           /\ Busy(w) /\ pc'[w] \in {"idle", "down"} => entry[w].id \in Before(w)'
<1> SUFFICES ASSUME TypeOK, Entry(w), Step(w)
             PROVE  /\ Before(w) \subseteq Before(w)'
                    /\ Busy(w) => Before(w) = 1..(entry[w].id - 1) /\ entry[w].id \in Nat
                    /\ Busy(w) /\ pc'[w] \in {"idle", "down"} => entry[w].id \in Before(w)'
  OBVIOUS
<1>1. next' >= next /\ next \in Nat /\ next' \in Nat /\ entry[w].id \in Nat
  <2>1. next \in Nat /\ entry[w].id \in Nat
    BY DEF TypeOK
  <2>2. next' = next \/ next' = next + 1
    BY DEF Step, Open, Log, ShiftRotated, MoveCurrent, Reopen, Write, RotationFault, WriteFault, Crash, history
  <2> QED BY <2>1, <2>2
<1>2. Entry(w)'
  BY EntryStep
<1>3. Busy(w) => Before(w) = 1..(entry[w].id - 1) /\ entry[w].id = next - 1 /\ entry[w].id > 0
  BY DEF Before, Entry
<1>4. pc'[w] \in {"idle", "down"} => Before(w)' = 1..(next' - 1)
  BY DEF Before, Busy
<1>5. Busy(w)' => Before(w)' = 1..(next' - 2)
  BY <1>1, <1>2 DEF Before, Entry
<1>6. ~Busy(w) => Before(w) = 1..(next - 1)
  BY DEF Before
<1>7. ~Busy(w)' => Before(w)' = 1..(next' - 1)
  BY DEF Before
<1>8. ~Busy(w) /\ Busy(w)' => next' = next + 1
  <2>1. CASE \E s \in EntrySizes : Log(w, s)
    BY <2>1 DEF Log
  <2>2. CASE Open(w)
    BY <2>2 DEF Open, Busy, TypeOK
  <2>3. CASE ShiftRotated(w) \/ MoveCurrent(w) \/ Reopen(w) \/ Write(w) \/ RotationFault(w) \/ WriteFault(w)
    BY <2>3 DEF ShiftRotated, MoveCurrent, Reopen, Write, RotationFault, WriteFault, Busy
  <2>4. CASE Crash(w)
    BY <2>4 DEF Crash, Busy, TypeOK
  <2> QED BY <2>1, <2>2, <2>3, <2>4 DEF Step
<1>9. Before(w) \subseteq Before(w)'
  <2>1. CASE Busy(w)
    BY <1>1, <1>3, <1>5, <1>7, <2>1
  <2>2. CASE ~Busy(w)
    BY <1>1, <1>5, <1>6, <1>7, <1>8, <2>2
  <2> QED BY <2>1, <2>2
<1> QED BY <1>1, <1>3, <1>4, <1>9

LEMMA InFileStep ==
  ASSUME NEW w \in Writers
  PROVE  TypeOK /\ Entry(w) /\ Directory(w) /\ InFile(w) /\ Step(w) => InFile(w)'
<1> SUFFICES ASSUME TypeOK, Entry(w), Directory(w), InFile(w), Step(w) PROVE InFile(w)'
  OBVIOUS
<1> DEFINE Holds(lines, before, wrote, whole) ==
             /\ \A i \in DOMAIN lines : lines[i].id \in before
             /\ \A i, j \in DOMAIN lines : i < j => lines[i].id < lines[j].id
             /\ \A i \in DOMAIN lines : ~lines[i].torn => lines[i].id \in wrote
             /\ whole => \A i \in DOMAIN lines : ~lines[i].torn
           Then == InFile(w)'
<1>1. \A f \in 1..Len(files) : Holds(files[f].lines, Before(w), written, faults = 0 /\ crashes = 0)
  BY FileFacts DEF InFile, Ids
<1>2. TypeOK'
  BY TypeOKStep
<1>3. DOMAIN files' = 1..Len(files')
  BY <1>2, LenProperties DEF TypeOK
<1>4. /\ Before(w) \subseteq Before(w)' /\ written \subseteq written'
      /\ faults' = 0 /\ crashes' = 0 => faults = 0 /\ crashes = 0
  BY BeforeStep, FilesOfStep
<1>5. \A f \in 1..Len(files) : Holds(files[f].lines, Before(w)', written', faults' = 0 /\ crashes' = 0)
  BY <1>1, <1>4
<1>6. \A f \in 1..Len(files') : Holds(files'[f].lines, Before(w)', written', faults' = 0 /\ crashes' = 0)
  <2>1. CASE files' = files
    BY <1>5, <2>1
  <2>2. CASE Created
    <3>1. Holds(NewFile.lines, Before(w)', written', faults' = 0 /\ crashes' = 0)
      BY DEF NewFile
    <3>2. ASSUME NEW f \in 1..(Len(files) + 1)
          PROVE  (f \in 1..Len(files) /\ files'[f] = files[f]) \/ files'[f] = NewFile
      BY <2>2, FileFacts DEF Created
    <3>3. Len(files') = Len(files) + 1
      BY <2>2 DEF Created
    <3> HIDE DEF Holds
    <3> QED BY <1>5, <3>1, <3>2, <3>3
  <2>3. ASSUME NEW torn \in BOOLEAN, Grown(w, torn)
        PROVE  \A f \in 1..Len(files') : Holds(files'[f].lines, Before(w)', written', faults' = 0 /\ crashes' = 0)
    <3> DEFINE h == handle[w]
               line == [id |-> entry[w].id, torn |-> torn]
               n == Len(files[h].lines)
               new == files'[h].lines
    <3>1. /\ h \in 1..Len(files) /\ Len(files') = Len(files) /\ files[h] \in FileType /\ line \in LineType
          /\ files'[h] = Appended(files[h], line, entry[w].size)
          /\ \A f \in 1..Len(files) : f # h => files'[f] = files[f]
      BY <2>3, FileFacts DEF Grown
    <3>2. Busy(w) /\ pc'[w] \in {"idle", "down"}
      BY <2>3 DEF Grown, Busy
    <3>3. entry[w].id \in Before(w)' /\ entry[w].id \in Nat /\ Before(w) = 1..(entry[w].id - 1)
      BY <3>2, BeforeStep
    <3>4. /\ n \in Nat /\ DOMAIN new = 1..(n + 1) /\ DOMAIN files[h].lines = 1..n
          /\ \A i \in 1..n : new[i] = files[h].lines[i]
          /\ new[n + 1] = line
      <4> HIDE DEF h, line
      <4> QED BY <3>1, FileFacts, AppendedLines
    <3>5. \A i \in 1..n : files[h].lines[i].id \in Nat /\ files[h].lines[i].id < entry[w].id
      <4> HIDE DEF h, n
      <4>1. \A i \in 1..n : files[h].lines[i].id \in 1..(entry[w].id - 1)
        BY <1>1, <3>1, <3>3, <3>4
      <4> QED BY <3>3, <4>1
    <3>6. line.id = entry[w].id /\ line.torn = torn
      OBVIOUS
    <3>7. torn => ~(faults' = 0 /\ crashes' = 0)
      BY <1>2, <2>3, AuditAssumption DEF Grown, TypeOK
    <3>8. ~torn => entry[w].id \in written'
      BY <2>3 DEF Grown
    <3>9. Holds(files[h].lines, Before(w)', written', faults' = 0 /\ crashes' = 0)
      BY <1>5, <3>1
    <3>10. Holds(new, Before(w)', written', faults' = 0 /\ crashes' = 0)
      <4> HIDE DEF h, line, n, new
      <4>1. \A i \in 1..(n + 1) : i \in 1..n \/ i = n + 1
        BY <3>4
      <4>2. \A i \in DOMAIN new : new[i].id \in Before(w)'
        BY <3>3, <3>4, <3>6, <3>9, <4>1
      <4>3. ASSUME NEW i \in 1..(n + 1), NEW j \in 1..(n + 1), i < j PROVE new[i].id < new[j].id
        BY <3>4, <3>5, <3>6, <3>9, <4>1, <4>3
      <4>4. \A i \in DOMAIN new : ~new[i].torn => new[i].id \in written'
        BY <3>4, <3>6, <3>8, <3>9, <4>1
      <4>5. faults' = 0 /\ crashes' = 0 => \A i \in DOMAIN new : ~new[i].torn
        BY <3>4, <3>6, <3>7, <3>9, <4>1
      <4> QED BY <3>4, <4>2, <4>3, <4>4, <4>5
    <3> HIDE DEF Holds, h, line, n
    <3> QED BY <1>5, <3>1, <3>10
  <2> QED BY <2>1, <2>2, <2>3, FilesOfStep
<1> QED BY <1>3, <1>6 DEF InFile, Ids

-----------------------------------------------------------------------------
(* What the names show of the entries. *)

WholeOf(f) == {files[f].lines[i].id : i \in {j \in DOMAIN files[f].lines : ~files[f].lines[j].torn}}

LEMMA WholeIs ==
  \A n \in Names : Whole(n) = IF dir[n] = 0 THEN {} ELSE WholeOf(dir[n])
BY DEF Whole, Lines, WholeOf

LEMMA VisibleIs ==
  \A d : d \in Visible <=> \E n \in Names : dir[n] # 0 /\ d \in WholeOf(dir[n])
BY WholeIs DEF Visible

LEMMA WholeAreIds ==
  \A f : WholeOf(f) \subseteq Ids(f)
BY DEF WholeOf, Ids

LEMMA IdsOfCreated ==
  TypeOK /\ Created =>
    /\ \A f \in 1..Len(files) : Ids(f)' = Ids(f) /\ WholeOf(f)' = WholeOf(f)
    /\ \A f : f = Len(files) + 1 => Ids(f)' = {} /\ WholeOf(f)' = {}
BY DEF Created, NewFile, Ids, WholeOf

LEMMA IdsOfGrown ==
  ASSUME NEW w \in Writers, NEW torn \in BOOLEAN
  PROVE  TypeOK /\ Grown(w, torn) =>
           /\ \A f \in 1..Len(files) : f # handle[w] => Ids(f)' = Ids(f) /\ WholeOf(f)' = WholeOf(f)
           /\ \A f : f = handle[w] =>
                /\ Ids(f)' = Ids(f) \cup {entry[w].id}
                /\ WholeOf(f)' = WholeOf(f) \cup (IF torn THEN {} ELSE {entry[w].id})
<1> SUFFICES ASSUME TypeOK, Grown(w, torn)
             PROVE  /\ \A f \in 1..Len(files) : f # handle[w] => Ids(f)' = Ids(f) /\ WholeOf(f)' = WholeOf(f)
                    /\ \A f : f = handle[w] =>
                         /\ Ids(f)' = Ids(f) \cup {entry[w].id}
                         /\ WholeOf(f)' = WholeOf(f) \cup (IF torn THEN {} ELSE {entry[w].id})
  OBVIOUS
<1>1. \A f \in 1..Len(files) : f # handle[w] => Ids(f)' = Ids(f) /\ WholeOf(f)' = WholeOf(f)
  BY DEF Grown, Ids, WholeOf
<1>2. ASSUME NEW f, f = handle[w]
      PROVE  /\ Ids(f)' = Ids(f) \cup {entry[w].id}
             /\ WholeOf(f)' = WholeOf(f) \cup (IF torn THEN {} ELSE {entry[w].id})
  <2> DEFINE line == [id |-> entry[w].id, torn |-> torn]
             n == Len(files[f].lines)
             old == files[f].lines
             new == files'[f].lines
  <2>1. files[f] \in FileType /\ line \in LineType /\ files'[f] = Appended(files[f], line, entry[w].size)
    BY <1>2, FileFacts DEF Grown
  <2>2. /\ n \in Nat /\ DOMAIN new = 1..(n + 1) /\ DOMAIN old = 1..n
        /\ \A i \in 1..n : new[i] = old[i]
        /\ new[n + 1] = line
    <3>1. f \in 1..Len(files)
      BY <1>2 DEF Grown
    <3>2. n \in Nat /\ DOMAIN old = 1..n
      BY <3>1, FileFacts
    <3> HIDE DEF line
    <3> QED BY <2>1, <3>2, AppendedLines
  <2>3. line.id = entry[w].id /\ line.torn = torn
    OBVIOUS
  <2>4. \A i : i \in DOMAIN new <=> i \in DOMAIN old \/ i = n + 1
    BY <2>2
  <2> HIDE DEF line, n, old, new
  <2>5. {new[i].id : i \in DOMAIN new} = {old[i].id : i \in DOMAIN old} \cup {entry[w].id}
    <3>1. \A i \in DOMAIN old : new[i] = old[i]
      BY <2>2
    <3> QED BY <2>2, <2>3, <2>4, <3>1
  <2>6. {new[i].id : i \in {j \in DOMAIN new : ~new[j].torn}}
          = {old[i].id : i \in {j \in DOMAIN old : ~old[j].torn}} \cup (IF torn THEN {} ELSE {entry[w].id})
    <3>1. \A i \in DOMAIN old : new[i] = old[i]
      BY <2>2
    <3> QED BY <2>2, <2>3, <2>4, <3>1
  <2> QED BY <2>5, <2>6 DEF Ids, WholeOf, new, old
<1> QED BY <1>1, <1>2

\* What a step of w that leaves the files alone does to their names.
Moved(i) ==
  /\ i + 1 \in Names /\ dir[i] # 0
  /\ dir[i + 1] = 0 \/ (i = 0 /\ MaxFiles = 1)
  /\ dir' = [dir EXCEPT ![i + 1] = dir[i], ![i] = 0]

Removed(i) == i + 1 = MaxFiles /\ i > 0 /\ dir' = [dir EXCEPT ![i] = 0]

LEMMA NamesOfStep ==
  ASSUME NEW w \in Writers
  PROVE  TypeOK /\ Directory(w) /\ Step(w) =>
           dir' = dir \/ Created \/ \E i \in Names : files' = files /\ written' = written /\ (Moved(i) \/ Removed(i))
<1> SUFFICES ASSUME TypeOK, Directory(w), Step(w)
             PROVE  dir' = dir \/ Created
                    \/ \E i \in Names : files' = files /\ written' = written /\ (Moved(i) \/ Removed(i))
  OBVIOUS
<1>1. CASE Open(w) \/ Reopen(w)
  <2>1. OpenPath /\ UNCHANGED history
    BY <1>1 DEF Open, Reopen
  <2> QED BY <2>1, OpenEffect DEF Created, history, disk
<1>2. CASE ShiftRotated(w)
  <2>1. files' = files /\ written' = written
    BY <1>2 DEF ShiftRotated, history
  <2>2. shift[w] \in Names /\ shift[w] > 0 /\ (shift[w] + 1 <= MaxFiles => shift[w] + 1 \in Names)
    BY <1>2 DEF ShiftRotated, TypeOK, Names
  <2>3. dir' = dir \/ Moved(shift[w]) \/ Removed(shift[w])
    <3> DEFINE i == shift[w]
    <3>1. i \in Names /\ i > 0 /\ (i + 1 <= MaxFiles => i + 1 \in Names) /\ MaxFiles \in Nat
      BY <2>2, AuditAssumption
    <3>2. /\ dir[i + 1] = 0 
          /\ \/ dir' = dir
             \/ i + 1 = MaxFiles /\ dir' = [dir EXCEPT ![i] = 0]
             \/ dir[i] # 0 /\ i + 1 < MaxFiles /\ dir' = [dir EXCEPT ![i + 1] = dir[i], ![i] = 0]
      BY <1>2, DirectoryOfShift
    <3> HIDE DEF i
    <3>3. i + 1 < MaxFiles => i + 1 \in Names
      BY <3>1 DEF Names
    <3>4. dir' = dir \/ Moved(i) \/ Removed(i)
      BY <3>1, <3>2, <3>3 DEF Moved, Removed
    <3> QED BY <3>4 DEF i
  <2> QED BY <2>1, <2>2, <2>3
<1>3. CASE MoveCurrent(w)
  <2>1. /\ files' = files /\ written' = written /\ dir[0] # 0
        /\ dir' = [dir EXCEPT ![1] = dir[0], ![0] = 0]
        /\ pc[w] = "rotating" /\ shift[w] = 0
    BY <1>3 DEF MoveCurrent, history, Rename
  <2>2. 0 \in Names /\ 0 + 1 = 1 /\ 1 \in Names
    BY AuditAssumption DEF Names
  <2>3. dir[1] = 0 \/ MaxFiles = 1
    BY <2>1, AuditAssumption DEF Directory
  <2>4. Moved(0)
    <3>1. dir' = [dir EXCEPT ![0 + 1] = dir[0], ![0] = 0]
      BY <2>1, <2>2
    <3>2. 0 + 1 \in Names /\ (dir[0 + 1] = 0 \/ MaxFiles = 1)
      BY <2>2, <2>3
    <3> QED BY <2>1, <3>1, <3>2 DEF Moved
  <2> QED BY <2>1, <2>2, <2>4
<1>4. CASE (\E s \in EntrySizes : Log(w, s)) \/ Write(w) \/ RotationFault(w) \/ WriteFault(w) \/ Crash(w)
  BY <1>4 DEF Log, Write, RotationFault, WriteFault, Crash, disk
<1> QED BY <1>1, <1>2, <1>3, <1>4 DEF Step

\* After a step that moves names, a name has the file it had or the one before had.
LEMMA NamesMoved ==
  TypeOK =>
    \A i \in Names : Moved(i) \/ Removed(i) =>
      \A n \in Names : dir'[n] # 0 =>
        /\ n # i
        /\ dir'[n] = IF Moved(i) /\ n = i + 1 THEN dir[i] ELSE dir[n]
<1> SUFFICES ASSUME TypeOK, NEW i \in Names, Moved(i) \/ Removed(i), NEW n \in Names, dir'[n] # 0
             PROVE  n # i /\ dir'[n] = IF Moved(i) /\ n = i + 1 THEN dir[i] ELSE dir[n]
  OBVIOUS
<1>1. dir \in [Names -> 0..Len(files)]
  BY DEF TypeOK
<1>2. i + 1 # i
  BY DEF Names
<1>3. CASE Moved(i)
  BY <1>1, <1>2, <1>3 DEF Moved
<1>4. CASE ~Moved(i) /\ Removed(i)
  BY <1>1, <1>4 DEF Removed
<1> QED BY <1>3, <1>4

LEMMA AcrossFilesStep ==
  ASSUME NEW w \in Writers
  PROVE  TypeOK /\ Entry(w) /\ Directory(w) /\ InFile(w) /\ AcrossFiles /\ Step(w) => AcrossFiles'
<1> SUFFICES ASSUME TypeOK, Entry(w), Directory(w), InFile(w), AcrossFiles, Step(w),
                    NEW m \in Names, NEW n \in Names, m > n, dir'[m] # 0, dir'[n] # 0,
                    NEW f, NEW g, f = dir'[m], g = dir'[n]
             PROVE  \A d \in Ids(f)', e \in Ids(g)' : d < e
  BY DEF AcrossFiles, Ids
<1>0. Names \subseteq Nat /\ 0 \in Names /\ \A k \in Names : dir[k] \in 0..Len(files)
  BY AuditAssumption DEF Names, TypeOK
<1>1. CASE \E i \in Names : files' = files /\ (Moved(i) \/ Removed(i))
  <2>1. PICK i \in Names : files' = files /\ (Moved(i) \/ Removed(i))
    BY <1>1
  <2>2. /\ m # i /\ f = IF Moved(i) /\ m = i + 1 THEN dir[i] ELSE dir[m]
        /\ n # i /\ g = IF Moved(i) /\ n = i + 1 THEN dir[i] ELSE dir[n]
    BY <2>1, NamesMoved
  <2>3. Ids(f)' = Ids(f) /\ Ids(g)' = Ids(g)
    BY <2>1 DEF Ids
  <2>4. \E a, b \in Names : a > b /\ f = dir[a] /\ g = dir[b]
    BY <1>0, <2>1, <2>2 DEF Moved
  <2> QED BY <2>3, <2>4 DEF AcrossFiles
<1>2. CASE dir' = dir /\ files' = files
  BY <1>2 DEF AcrossFiles, Ids
<1>3. CASE Created
  <2>1. dir' = [dir EXCEPT ![0] = Len(files) + 1] /\ m # 0 /\ f = dir[m] /\ f \in 1..Len(files)
    BY <1>0, <1>3 DEF Created, TypeOK
  <2>2. CASE n = 0
    <3>1. g = Len(files) + 1
      BY <1>0, <2>1, <2>2 DEF TypeOK
    <3> QED BY <1>3, <3>1, IdsOfCreated
  <2>3. CASE n # 0
    <3>1. g = dir[n] /\ g \in 1..Len(files)
      BY <1>0, <2>1, <2>3 DEF TypeOK
    <3>2. Ids(f)' = Ids(f) /\ Ids(g)' = Ids(g)
      BY <1>3, <2>1, <3>1, IdsOfCreated
    <3> QED BY <2>1, <3>1, <3>2 DEF AcrossFiles
  <2> QED BY <2>2, <2>3
<1>4. ASSUME NEW torn \in BOOLEAN, Grown(w, torn) PROVE \A d \in Ids(f)', e \in Ids(g)' : d < e
  <2>1. dir' = dir /\ f = dir[m] /\ g = dir[n] /\ m # 0 /\ handle[w] = dir[0] /\ handle[w] # 0
    BY <1>0, <1>4, FileFacts DEF Grown
  <2>2. f # handle[w] /\ f \in 1..Len(files) /\ g \in 1..Len(files)
    BY <1>0, <2>1 DEF Directory
  <2>3. Ids(f)' = Ids(f) /\ \A d \in Ids(f), e \in Ids(g) : d < e
    BY <1>4, <2>1, <2>2, IdsOfGrown DEF AcrossFiles
  <2>4. Ids(g)' \subseteq Ids(g) \cup {entry[w].id}
    BY <1>4, <2>2, IdsOfGrown
  <2>5. \A d \in Ids(f) : d < entry[w].id
    <3>1. Busy(w)
      BY <1>4 DEF Grown, Busy
    <3>2. Before(w) = 1..(entry[w].id - 1) /\ entry[w].id \in Nat
      BY <3>1, BeforeStep
    <3>3. Ids(f) \subseteq Before(w)
      BY <2>2, FileFacts DEF InFile
    <3> QED BY <3>2, <3>3
  <2> QED BY <2>3, <2>4, <2>5
<1> QED BY <1>1, <1>2, <1>3, <1>4, FilesOfStep, NamesOfStep DEF Grown

-----------------------------------------------------------------------------
(* What log() has answered, and the sizes. *)

LEMMA AnsweredStep ==
  ASSUME NEW w \in Writers
  PROVE  TypeOK /\ Entry(w) /\ Directory(w) /\ Answered(w) /\ Step(w) => Answered(w)'
<1> SUFFICES ASSUME TypeOK, Entry(w), Directory(w), Answered(w), Step(w) PROVE Answered(w)'
  OBVIOUS
<1> DEFINE id == entry[w].id
<1>1. /\ Before(w) \subseteq Before(w)'
      /\ Busy(w) => Before(w) = 1..(id - 1) /\ id \in Nat
      /\ Busy(w) /\ pc'[w] \in {"idle", "down"} => id \in Before(w)'
  BY BeforeStep
<1>2. /\ written \subseteq Before(w)' /\ ok \subseteq Before(w)' /\ err \subseteq Before(w)'
      /\ \A d \in ok \ written : \E e \in err : e < d
  BY <1>1 DEF Answered
<1>3. CASE Open(w) \/ Reopen(w)
  <2>1. handle'[w] = dir'[0] /\ UNCHANGED <<written, ok, err>>
    BY <1>3 DEF Open, Reopen, Reopened, TypeOK, history
  <2>2. dir'[0] # 0
    BY <1>3, OpenTypes DEF Open, Reopen
  <2> QED BY <1>2, <2>1, <2>2 DEF Answered
<1>4. ASSUME NEW s \in EntrySizes, Log(w, s) PROVE Answered(w)'
  <2>1. UNCHANGED <<written, ok, err>> /\ pc[w] = "idle"
    BY <1>4 DEF Log
  <2>2. pc'[w] = "rotating" \/ handle' = handle
    BY <1>4 DEF Log, TypeOK
  <2>3. pc'[w] \in {"idle", "writing"} /\ handle'[w] = 0 => err # {}
    BY <2>1, <2>2 DEF Answered
  <2> QED BY <1>2, <2>1, <2>3 DEF Answered
<1>5. CASE ShiftRotated(w) \/ MoveCurrent(w)
  <2>1. UNCHANGED <<written, ok, err>> /\ pc'[w] \in {"rotating", "reopening"}
    BY <1>5 DEF ShiftRotated, MoveCurrent, TypeOK, history
  <2> QED BY <1>2, <2>1 DEF Answered
<1>6. CASE Write(w)
  <2>1. /\ ok' = ok \cup {id} /\ err' = err /\ handle' = handle
        /\ Busy(w) /\ pc[w] = "writing" /\ pc'[w] = "idle"
        /\ IF handle[w] = 0 THEN written' = written ELSE written' = written \cup {id}
    BY <1>6 DEF Write, Busy, TypeOK
  <2>2. id \in Before(w)' /\ Before(w) = 1..(id - 1) /\ id \in Nat
    BY <1>1, <2>1
  <2>3. handle[w] = 0 => \E e \in err : e < id
    BY <2>1, <2>2 DEF Answered
  <2>4. \A d \in ok' \ written' : \E e \in err' : e < d
    BY <1>2, <2>1, <2>3
  <2>5. handle'[w] = 0 => err' # {}
    BY <2>1 DEF Answered
  <2>6. written' \subseteq Before(w)' /\ ok' \subseteq Before(w)' /\ err' \subseteq Before(w)'
    BY <1>2, <2>1, <2>2
  <2> QED BY <2>4, <2>5, <2>6 DEF Answered
<1>7. CASE RotationFault(w) \/ WriteFault(w)
  <2>1. /\ UNCHANGED <<written, ok>> /\ err' = err \cup {id} /\ Busy(w) /\ pc'[w] = "idle"
    BY <1>7 DEF RotationFault, WriteFault, ReturnErr, Busy, TypeOK
  <2>2. id \in Before(w)'
    BY <1>1, <2>1
  <2> QED BY <1>2, <2>1, <2>2 DEF Answered
<1>8. CASE Crash(w)
  <2>1. UNCHANGED <<written, ok, err>> /\ pc'[w] = "down"
    BY <1>8 DEF Crash, TypeOK
  <2> QED BY <1>2, <2>1 DEF Answered
<1> QED BY <1>3, <1>4, <1>5, <1>6, <1>7, <1>8 DEF Step

\* The part of a file that counts.
Counted(f) == files[f].bytes - files[f].first

FileSizes ==
  \A f \in 1..Len(files) :
    /\ files[f].lines = <<>> => files[f].bytes = 0 /\ files[f].first = 0
    /\ Counted(f) <= MaxSize

HeldSize(w) ==
  \A h : h = handle[w] /\ h # 0 =>
    /\ pc[w] = "idle" => Counted(h) <= size[w]
    /\ pc[w] = "writing" /\ files[h].lines # <<>> =>
         Counted(h) + entry[w].size <= size[w] /\ size[w] <= MaxSize

LEMMA SizesAre ==
  ASSUME NEW w \in Writers
  PROVE  TypeOK => (Sizes(w) <=> FileSizes /\ HeldSize(w))
BY FileFacts DEF Sizes, FileSizes, HeldSize, Counted

LEMMA NumbersOfFiles ==
  TypeOK =>
    \A f \in 1..Len(files) : files[f].bytes \in Nat /\ files[f].first \in Nat /\ Counted(f) \in Int
BY FileFacts DEF FileType, Counted

LEMMA GrownSizes ==
  ASSUME NEW w \in Writers, NEW torn \in BOOLEAN
  PROVE  TypeOK /\ FileSizes /\ HeldSize(w) /\ Grown(w, torn) =>
           \A h : h = handle[w] =>
             /\ files'[h].lines # <<>> /\ Counted(h)' <= MaxSize /\ Counted(h)' <= size[w]
<1> SUFFICES ASSUME TypeOK, FileSizes, HeldSize(w), Grown(w, torn), NEW h, h = handle[w]
             PROVE  files'[h].lines # <<>> /\ Counted(h)' <= MaxSize /\ Counted(h)' <= size[w]
  OBVIOUS
<1> DEFINE line == [id |-> entry[w].id, torn |-> torn]
           s == entry[w].size
<1>1. /\ h \in 1..Len(files) /\ pc[w] = "writing" /\ line \in LineType /\ s \in Nat
      /\ files'[h] = Appended(files[h], line, s) /\ files[h] \in FileType
      /\ size[w] \in Nat /\ MaxSize \in Nat
  BY FileFacts, AuditAssumption DEF Grown, TypeOK
<1>2. /\ files'[h].lines # <<>> /\ files'[h].bytes = files[h].bytes + s
      /\ files'[h].first = IF files[h].lines = <<>> THEN s ELSE files[h].first
  <2> HIDE DEF line, s
  <2> QED BY <1>1, AppendedLines
<1>3. files[h].bytes \in Nat /\ files[h].first \in Nat
  BY <1>1, NumbersOfFiles
<1>4. Counted(h)' = IF files[h].lines = <<>> THEN files[h].bytes ELSE Counted(h) + s
  BY <1>1, <1>2, <1>3 DEF Counted
<1>5. CASE files[h].lines = <<>>
  <2>1. Counted(h)' = 0
    BY <1>1, <1>4, <1>5 DEF FileSizes
  <2> QED BY <1>1, <1>2, <2>1
<1>6. CASE files[h].lines # <<>>
  <2>1. h # 0 /\ Counted(h) + s <= size[w] /\ size[w] <= MaxSize
    BY <1>1, <1>6, FileFacts DEF HeldSize
  <2>2. Counted(h) \in Int
    BY <1>1, NumbersOfFiles
  <2> QED BY <1>1, <1>2, <1>4, <1>6, <2>1, <2>2
<1> QED BY <1>5, <1>6

LEMMA SizesStep ==
  ASSUME NEW w \in Writers
  PROVE  TypeOK /\ Entry(w) /\ Directory(w) /\ Sizes(w) /\ Step(w) => Sizes(w)'
<1> SUFFICES ASSUME TypeOK, Entry(w), Directory(w), Sizes(w), Step(w) PROVE Sizes(w)'
  OBVIOUS
<1>0. FileSizes /\ HeldSize(w) /\ MaxSize \in Nat /\ size[w] \in Nat /\ entry[w].size \in Nat
  BY SizesAre, AuditAssumption DEF TypeOK
<1>1. FileSizes'
  <2> SUFFICES ASSUME NEW f \in 1..Len(files')
               PROVE  /\ files'[f].lines = <<>> => files'[f].bytes = 0 /\ files'[f].first = 0
                      /\ Counted(f)' <= MaxSize
    BY DEF FileSizes
  <2>1. CASE files' = files
    BY <1>0, <2>1 DEF FileSizes, Counted
  <2>2. CASE Created
    <3>1. (f \in 1..Len(files) /\ files'[f] = files[f]) \/ files'[f] = NewFile
      BY <2>2, FileFacts DEF Created
    <3> QED BY <1>0, <3>1 DEF FileSizes, Counted, NewFile
  <2>3. ASSUME NEW torn \in BOOLEAN, Grown(w, torn)
        PROVE  /\ files'[f].lines = <<>> => files'[f].bytes = 0 /\ files'[f].first = 0
               /\ Counted(f)' <= MaxSize
    <3>1. f \in 1..Len(files) /\ (f # handle[w] => files'[f] = files[f])
      BY <2>3 DEF Grown
    <3>2. CASE f # handle[w]
      BY <1>0, <3>1, <3>2 DEF FileSizes, Counted
    <3>3. CASE f = handle[w]
      BY <1>0, <2>3, <3>3, GrownSizes
    <3> QED BY <3>2, <3>3
  <2> QED BY <2>1, <2>2, <2>3, FilesOfStep
<1>2. HeldSize(w)'
  <2> SUFFICES ASSUME NEW h, h = handle'[w], h # 0
               PROVE  /\ pc'[w] = "idle" => Counted(h)' <= size'[w]
                      /\ pc'[w] = "writing" /\ files'[h].lines # <<>> =>
                           Counted(h)' + entry'[w].size <= size'[w] /\ size'[w] <= MaxSize
    BY DEF HeldSize
  <2>0. TypeOK'
    BY TypeOKStep
  <2>1. CASE Open(w)
    <3>1. h = dir'[0] /\ pc'[w] = "idle" /\ size'[w] = files'[h].bytes
      BY <2>1 DEF Open, SizeAtOpen, TypeOK
    <3>2. files'[h] \in FileType
      BY <2>1, <3>1, OpenTypes, ElementOfSeq DEF Open
    <3> QED BY <3>1, <3>2 DEF Counted, FileType
  <2>2. CASE Reopen(w)
    <3>1. h = dir'[0] /\ pc'[w] = "writing" /\ pc[w] = "reopening" /\ OpenPath
      BY <2>2 DEF Reopen, Reopened, TypeOK
    <3>2. dir[0] = 0 /\ 0 \in Names
      BY <3>1, AuditAssumption DEF Directory, Names
    <3>3. h = Len(files) + 1 /\ files'[h] = NewFile
      BY <3>1, <3>2, OpenEffect DEF TypeOK
    <3> QED BY <3>1, <3>3 DEF NewFile
  <2>3. ASSUME NEW s \in EntrySizes, Log(w, s)
        PROVE  /\ pc'[w] = "idle" => Counted(h)' <= size'[w]
               /\ pc'[w] = "writing" /\ files'[h].lines # <<>> =>
                    Counted(h)' + entry'[w].size <= size'[w] /\ size'[w] <= MaxSize
    <3>1. ~MustRotate(w, s)
      BY <2>3 DEF Log, TypeOK
    <3>2. /\ pc[w] = "idle" /\ pc'[w] = "writing" /\ h = handle[w] /\ files' = files
          /\ size'[w] = size[w] + s /\ entry'[w].size = s
      BY <2>3, <3>1 DEF Log, TypeOK, disk
    <3>3. s \in Nat /\ size[w] + s <= MaxSize /\ Counted(h) <= size[w]
      BY <1>0, <2>3, <3>1, <3>2, AuditAssumption DEF MustRotate, HeldSize
    <3>4. Counted(h)' = Counted(h) /\ Counted(h) \in Int
      <4>1. h \in 1..Len(files)
        BY <3>2 DEF TypeOK
      <4> QED BY <3>2, <4>1, NumbersOfFiles DEF Counted
    <3> QED BY <1>0, <3>2, <3>3, <3>4
  <2>4. CASE ShiftRotated(w) \/ MoveCurrent(w) \/ Crash(w)
    <3>1. pc'[w] \in {"rotating", "reopening", "down"}
      BY <2>4 DEF ShiftRotated, MoveCurrent, Crash, TypeOK
    <3> QED BY <3>1
  <2>5. CASE RotationFault(w)
    <3>1. handle' = handle /\ pc[w] \in {"rotating", "reopening"}
      BY <2>5 DEF RotationFault
    <3> QED BY <3>1 DEF Directory
  <2>6. CASE Write(w) \/ WriteFault(w)
    <3>1. handle' = handle /\ size' = size /\ pc[w] = "writing" /\ pc'[w] = "idle" /\ h = handle[w]
      BY <2>6 DEF Write, WriteFault, ReturnErr, TypeOK
    <3>2. ~Created
      <4>1. dir' = dir
        BY <2>6 DEF Write, WriteFault
      <4>2. 0 \in Names /\ Len(files) \in Nat
        BY FileFacts, AuditAssumption DEF Names
      <4> QED BY <4>1, <4>2 DEF Created, TypeOK
    <3>3. CASE files' = files
      <4>1. Counted(h)' = Counted(h) /\ h \in 1..Len(files)
        BY <3>1, <3>3, FileFacts DEF Counted, TypeOK
      <4>2. Counted(h) \in Int /\ files[h].bytes \in Nat /\ files[h].first \in Nat
        BY <4>1, NumbersOfFiles
      <4>3. CASE files[h].lines = <<>>
        <5>1. Counted(h) = 0
          BY <1>0, <4>1, <4>3 DEF FileSizes, Counted
        <5> QED BY <1>0, <3>1, <4>1, <5>1
      <4>4. CASE files[h].lines # <<>>
        <5>1. Counted(h) + entry[w].size <= size[w]
          BY <1>0, <3>1, <4>4 DEF HeldSize
        <5> QED BY <1>0, <3>1, <4>1, <4>2, <5>1
      <4> QED BY <4>3, <4>4
    <3>4. CASE \E torn \in BOOLEAN : Grown(w, torn)
      BY <1>0, <3>1, <3>4, GrownSizes
    <3> QED BY <3>2, <3>3, <3>4, FilesOfStep
  <2> QED BY <2>1, <2>2, <2>3, <2>4, <2>5, <2>6 DEF Step
<1>3. TypeOK' => (Sizes(w)' <=> FileSizes' /\ HeldSize(w)')
  BY SizesAre, PTL
<1> QED BY <1>1, <1>2, <1>3, TypeOKStep

-----------------------------------------------------------------------------
(* What rotation drops. *)

LEMMA VisibleThen ==
  \A d : d \in Visible' <=> \E n \in Names : dir'[n] # 0 /\ \E f : f = dir'[n] /\ d \in WholeOf(f)'
<1>1. \A n \in Names : Whole(n)' = IF dir'[n] = 0 THEN {} ELSE WholeOf(dir[n])'
  BY DEF Whole, Lines, WholeOf
<1> QED BY <1>1 DEF Visible, WholeOf

LEMMA NamedFiles ==
  TypeOK =>
    /\ Names = 0..MaxFiles /\ Names \subseteq Nat /\ 0 \in Names /\ MaxFiles \in Nat \ {0}
    /\ \A k \in Names : dir[k] \in 0..Len(files)
BY AuditAssumption DEF Names, TypeOK

LEMMA VisibleSame ==
  files' = files /\ dir' = dir => Visible' = Visible
BY DEF Visible, Whole, Lines

LEMMA VisibleCreated ==
  TypeOK /\ Created => Visible' = Visible
<1> SUFFICES ASSUME TypeOK, Created PROVE Visible' = Visible
  OBVIOUS
<1>1. /\ \A k \in Names : dir'[k] = IF k = 0 THEN Len(files) + 1 ELSE dir[k]
      /\ dir[0] = 0
  BY DEF Created, TypeOK
<1>2. \A k \in Names : dir[k] # 0 => dir'[k] = dir[k] /\ dir[k] \in 1..Len(files)
  BY <1>1, NamedFiles
<1>3. ASSUME NEW a, a \in Visible PROVE a \in Visible'
  BY <1>2, <1>3, IdsOfCreated, VisibleIs, VisibleThen
<1>4. ASSUME NEW a, a \in Visible' PROVE a \in Visible
  <2>1. PICK k \in Names : dir'[k] # 0 /\ \E f : f = dir'[k] /\ a \in WholeOf(f)'
    BY <1>4, VisibleThen
  <2>2. PICK f : f = dir'[k] /\ a \in WholeOf(f)'
    BY <2>1
  <2>3. k # 0
    BY <1>1, <2>2, IdsOfCreated
  <2>4. dir[k] # 0 /\ f = dir[k] /\ f \in 1..Len(files)
    BY <1>1, <1>2, <2>1, <2>2, <2>3
  <2> QED BY <2>2, <2>4, IdsOfCreated, VisibleIs
<1> QED BY <1>3, <1>4

LEMMA VisibleGrown ==
  ASSUME NEW w \in Writers, NEW torn \in BOOLEAN
  PROVE  TypeOK /\ Grown(w, torn) =>
           Visible' = Visible \cup (IF torn THEN {} ELSE {entry[w].id})
<1> SUFFICES ASSUME TypeOK, Grown(w, torn)
             PROVE  Visible' = Visible \cup (IF torn THEN {} ELSE {entry[w].id})
  OBVIOUS
<1> DEFINE h == dir[0]
           new == IF torn THEN {} ELSE {entry[w].id}
<1>1. dir' = dir /\ h = handle[w] /\ h \in 1..Len(files)
  BY DEF Grown
<1>2. \A f \in 1..Len(files) : WholeOf(f)' = WholeOf(f) \cup (IF f = h THEN new ELSE {})
  BY <1>1, IdsOfGrown
<1>3. \A k \in Names : dir[k] # 0 => dir[k] \in 1..Len(files)
  BY NamedFiles
<1>4. ASSUME NEW a, a \in Visible' PROVE a \in Visible \/ a \in new
  <2>1. PICK k \in Names : dir[k] # 0 /\ \E f : f = dir[k] /\ a \in WholeOf(f)'
    BY <1>1, <1>4, VisibleThen
  <2> QED BY <1>2, <1>3, <2>1, VisibleIs
<1>5. ASSUME NEW a, a \in Visible PROVE a \in Visible'
  <2>1. PICK k \in Names : dir[k] # 0 /\ a \in WholeOf(dir[k])
    BY <1>5, VisibleIs
  <2> QED BY <1>1, <1>2, <1>3, <2>1, VisibleThen
<1>6. ASSUME NEW a \in new PROVE a \in Visible'
  <2>1. a \in WholeOf(h)' \/ \A f : f = h => a \in WholeOf(f)'
    BY <1>1, <1>2
  <2> HIDE DEF new
  <2>2. \A f : f = h => a \in WholeOf(f)'
    BY <1>1, <1>2
  <2> QED BY <1>1, <2>2, NamedFiles, VisibleThen
<1> QED BY <1>4, <1>5, <1>6

\* Renaming into a free slot loses nothing.
LEMMA VisibleMoved ==
  TypeOK =>
    \A i \in Names : Moved(i) /\ files' = files =>
      /\ \A k \in Names : dir'[k] = IF k = i THEN 0 ELSE IF k = i + 1 THEN dir[i] ELSE dir[k]
      /\ dir[i + 1] = 0 => Visible' = Visible
<1> SUFFICES ASSUME TypeOK, NEW i \in Names, Moved(i), files' = files
             PROVE  /\ \A k \in Names : dir'[k] = IF k = i THEN 0 ELSE IF k = i + 1 THEN dir[i] ELSE dir[k]
                    /\ dir[i + 1] = 0 => Visible' = Visible
  OBVIOUS
<1>1. /\ i + 1 \in Names /\ i + 1 # i /\ dir[i] # 0
      /\ \A k \in Names : dir'[k] = IF k = i THEN 0 ELSE IF k = i + 1 THEN dir[i] ELSE dir[k]
  <2>1. /\ i + 1 \in Names /\ dir[i] # 0 /\ i \in Nat
        /\ dir' = [dir EXCEPT ![i + 1] = dir[i], ![i] = 0]
    BY NamedFiles DEF Moved
  <2>2. dir \in [Names -> 0..Len(files)] /\ i + 1 # i
    BY <2>1 DEF TypeOK
  <2> QED BY <2>1, <2>2
<1>2. \A f : WholeOf(f)' = WholeOf(f)
  BY DEF WholeOf
<1>3. ASSUME dir[i + 1] = 0 PROVE Visible' = Visible
  <2>1. ASSUME NEW a, a \in Visible PROVE a \in Visible'
    <3>1. PICK k \in Names : dir[k] # 0 /\ a \in WholeOf(dir[k])
      BY <2>1, VisibleIs
    <3>2. \E n \in Names : dir'[n] = dir[k]
      BY <1>1, <1>3, <3>1
    <3> QED BY <1>2, <3>1, <3>2, VisibleThen
  <2>2. ASSUME NEW a, a \in Visible' PROVE a \in Visible
    <3>1. PICK k \in Names : dir'[k] # 0 /\ a \in WholeOf(dir'[k])
      BY <1>2, <2>2, VisibleThen
    <3>2. \E n \in Names : dir'[k] = dir[n]
      BY <1>1, <3>1
    <3> QED BY <3>1, <3>2, VisibleIs
  <2> QED BY <2>1, <2>2
<1> QED BY <1>1, <1>3

LEMMA OldestDroppedStep ==
  ASSUME NEW w \in Writers
  PROVE  /\ TypeOK /\ Entry(w) /\ Directory(w) /\ AcrossFiles /\ Answered(w)
         /\ OldestDropped /\ Step(w)
         => OldestDropped'
<1> SUFFICES ASSUME TypeOK, Entry(w), Directory(w), AcrossFiles, Answered(w), OldestDropped, Step(w),
                    NEW d \in written' \ Visible', NEW e \in Visible'
             PROVE  d < e
  BY DEF OldestDropped
<1>1. CASE files' = files /\ written' = written /\ Visible' = Visible
  BY <1>1 DEF OldestDropped
<1>2. ASSUME NEW torn \in BOOLEAN, Grown(w, torn) PROVE d < e
  <2> DEFINE new == IF torn THEN {} ELSE {entry[w].id}
  <2>1. Visible' = Visible \cup new /\ written' = written \cup new
    BY <1>2, VisibleGrown DEF Grown
  <2>2. Busy(w)
    BY <1>2 DEF Grown, Busy
  <2>3. written \subseteq 1..(entry[w].id - 1) /\ entry[w].id \in Nat
    BY <2>2, BeforeStep DEF Answered
  <2>4. \A a \in new : a = entry[w].id
    OBVIOUS
  <2> HIDE DEF new
  <2> QED BY <2>1, <2>3, <2>4 DEF OldestDropped
<1>3. ASSUME NEW i \in Names, files' = files, written' = written, Moved(i) \/ Removed(i) PROVE d < e
  <2>1. \A f : WholeOf(f)' = WholeOf(f)
    BY <1>3 DEF WholeOf
  <2>2. PICK n \in Names : dir'[n] # 0 /\ e \in WholeOf(dir'[n])
    BY <2>1, VisibleThen
  <2>3. e \in Visible
    BY <1>3, <2>2, NamesMoved, VisibleIs
  <2>4. CASE d \notin Visible
    BY <1>3, <2>3, <2>4 DEF OldestDropped
  <2>5. CASE d \in Visible
    <3>1. PICK m \in Names : dir[m] # 0 /\ d \in WholeOf(dir[m])
      BY <2>5, VisibleIs
    <3>2. dir'[m] # dir[m]
      BY <2>1, <3>1, VisibleThen
    <3>3. CASE Moved(i)
      <4>1. \A k \in Names : dir'[k] = IF k = i THEN 0 ELSE IF k = i + 1 THEN dir[i] ELSE dir[k]
        BY <1>3, <3>3, VisibleMoved
      <4>2. dir[i + 1] # 0
        BY <1>3, <2>5, <3>3, VisibleMoved
      <4>3. i = 0 /\ MaxFiles = 1 /\ 1 \in Names
        BY <3>3, <4>2 DEF Moved
      <4>4. m # 0
        <5>1. m = 0 => dir'[1] = dir[m]
          BY <4>1, <4>3
        <5> QED BY <2>1, <3>1, <4>3, <5>1, VisibleThen
      <4>5. m = 1
        BY <3>2, <4>1, <4>3, <4>4
      <4>6. n = 1 /\ dir'[1] = dir[0]
        BY <2>2, <4>1, <4>3, NamedFiles
      <4> QED BY <2>2, <3>1, <4>5, <4>6, NamedFiles, WholeAreIds DEF AcrossFiles
    <3>4. CASE ~Moved(i)
      <4>1. i + 1 = MaxFiles /\ i > 0 /\ \A k \in Names : dir'[k] = IF k = i THEN 0 ELSE dir[k]
        BY <1>3, <3>4 DEF Removed, TypeOK
      <4>2. m = i
        BY <3>1, <3>2, <4>1
      <4>3. n # i /\ dir[n] # 0 /\ e \in WholeOf(dir[n])
        BY <2>2, <4>1
      <4>4. n < i
        <5>1. n \in Nat /\ n <= MaxFiles /\ i \in Nat /\ MaxFiles \in Nat
          BY NamedFiles
        <5>2. ~(n >= MaxFiles /\ n > 1)
          BY <4>3 DEF Directory
        <5> QED BY <4>1, <4>3, <5>1, <5>2
      <4> QED BY <3>1, <4>2, <4>3, <4>4, WholeAreIds DEF AcrossFiles
    <3> QED BY <3>3, <3>4
  <2> QED BY <2>4, <2>5
<1>4. CASE Created
  BY <1>4, VisibleCreated DEF OldestDropped, Created
<1>5. CASE files' = files /\ written' = written /\ dir' = dir
  BY <1>1, <1>5, VisibleSame
<1> QED BY <1>2, <1>3, <1>4, <1>5, FilesOfStep, NamesOfStep

LEMMA NoGapsStep ==
  ASSUME NEW w \in Writers
  PROVE  TypeOK /\ Entry(w) /\ Directory(w) /\ Answered(w) /\ NoGaps(w) /\ Step(w) => NoGaps(w)'
<1> SUFFICES ASSUME TypeOK, Entry(w), Directory(w), Answered(w), NoGaps(w), Step(w),
                    faults' = 0, crashes' = 0
             PROVE  /\ err' = {} /\ ok' \subseteq written'
                    /\ pc'[w] = "rotating" => dir'[0] # 0
                    /\ \A m, n \in Names : m < n /\ dir'[n] # 0 /\ ~Hole(w, m)' => dir'[m] # 0
                    /\ ok' \ Visible' # {} => \A n \in 1..(MaxFiles - 1) : Hole(w, n)' \/ dir'[n] # 0
  BY DEF NoGaps, Hole
<1>0. /\ faults = 0 /\ crashes = 0 /\ err = {} /\ ok \subseteq written
      /\ Names = 0..MaxFiles /\ Names \subseteq Nat /\ 0 \in Names /\ MaxFiles \in Nat \ {0}
      /\ \A n \in 1..(MaxFiles - 1) : n \in Names /\ n # 0
  BY FilesOfStep, NamedFiles DEF NoGaps
<1>1. /\ pc[w] = "rotating" => dir[0] # 0
      /\ \A m, n \in Names : m < n /\ dir[n] # 0 /\ ~Hole(w, m) => dir[m] # 0
      /\ ok \ Visible # {} => \A n \in 1..(MaxFiles - 1) : Hole(w, n) \/ dir[n] # 0
  BY <1>0 DEF NoGaps
<1>2. CASE Open(w) \/ Reopen(w)
  <2>1. /\ OpenPath /\ err' = err /\ ok' = ok /\ written' = written
        /\ pc'[w] \in {"idle", "writing"} /\ pc[w] \in {"down", "reopening"}
    BY <1>2 DEF Open, Reopen, TypeOK, history
  <2>2. \A n : ~Hole(w, n)' /\ (Hole(w, n) => n = 0)
    BY <2>1 DEF Hole
  <2>3. /\ dir'[0] # 0 /\ Visible' = Visible
        /\ \A n \in Names : n # 0 => dir'[n] = dir[n]
    <3>1. CASE dir[0] # 0 /\ UNCHANGED disk
      BY <3>1, VisibleSame DEF disk
    <3>2. CASE Created
      <4>1. dir' = [dir EXCEPT ![0] = Len(files) + 1] /\ dir \in [Names -> 0..Len(files)]
        BY <3>2 DEF Created, TypeOK
      <4>2. Len(files) + 1 # 0
        BY FileFacts
      <4> QED BY <1>0, <3>2, <4>1, <4>2, VisibleCreated
    <3> QED BY <2>1, <3>1, <3>2, OpenEffect, <1>2 DEF Created, Open, Reopen, history
  <2>4. \A m, n \in Names : m < n /\ dir'[n] # 0 => dir'[m] # 0
    BY <1>0, <1>1, <2>2, <2>3
  <2> QED BY <1>0, <1>1, <2>1, <2>2, <2>3, <2>4
<1>3. ASSUME NEW s \in EntrySizes, Log(w, s)
      PROVE  /\ err' = {} /\ ok' \subseteq written'
             /\ pc'[w] = "rotating" => dir'[0] # 0
             /\ \A m, n \in Names : m < n /\ dir'[n] # 0 /\ ~Hole(w, m)' => dir'[m] # 0
             /\ ok' \ Visible' # {} => \A n \in 1..(MaxFiles - 1) : Hole(w, n)' \/ dir'[n] # 0
  <2>1. pc[w] = "idle" /\ dir' = dir /\ files' = files /\ err' = err /\ ok' = ok /\ written' = written
    BY <1>3 DEF Log, disk
  <2>2. Visible' = Visible /\ \A n : ~Hole(w, n)
    BY <2>1, VisibleSame DEF Hole
  <2>3. dir[0] # 0
    BY <1>0, <2>1 DEF Answered, Directory
  <2> QED BY <1>0, <1>1, <2>1, <2>2, <2>3
<1>4. CASE ShiftRotated(w)
  <2> DEFINE i == shift[w]
  <2>1. /\ err' = err /\ ok' = ok /\ written' = written /\ files' = files
        /\ pc[w] = "rotating" /\ pc'[w] = "rotating" /\ shift'[w] = i - 1 /\ i \in Nat
    BY <1>4 DEF ShiftRotated, TypeOK, history
  <2>2. \A n \in Names : (Hole(w, n) <=> n = i + 1) /\ (Hole(w, n)' <=> n = i)
    BY <2>1 DEF Hole
  <2>3. /\ i \in 1..(MaxFiles - 1) /\ MaxFiles > 1 /\ i \in Names /\ i + 1 \in Names /\ dir[i + 1] = 0
        /\ \/ dir[i] = 0 /\ dir' = dir
           \/ dir[i] # 0 /\ i + 1 = MaxFiles /\ dir' = [dir EXCEPT ![i] = 0]
           \/ dir[i] # 0 /\ i + 1 < MaxFiles /\ dir' = [dir EXCEPT ![i + 1] = dir[i], ![i] = 0]
    BY <1>0, <1>4, DirectoryOfShift
  <2>4. dir \in [Names -> 0..Len(files)] /\ dir[0] # 0
    BY <1>1, <2>1 DEF TypeOK
  <2> HIDE DEF i
  <2>5. dir'[0] # 0
    BY <1>0, <2>3, <2>4
  <2>6. /\ \A m, n \in Names : m < n /\ dir'[n] # 0 /\ m # i => dir'[m] # 0
        /\ ok' \ Visible' # {} => \A n \in 1..(MaxFiles - 1) : n = i \/ dir'[n] # 0
    <3>1. CASE dir[i] = 0 /\ dir' = dir
      <4>1. \A n \in Names : n > i + 1 => dir[n] = 0
        BY <1>0, <1>1, <2>2, <2>3, <3>1
      <4>2. Visible' = Visible
        BY <2>1, <3>1, VisibleSame
      <4>3. ok \ Visible = {}
        BY <1>0, <1>1, <2>2, <2>3, <3>1
      <4>4. ASSUME NEW m \in Names, NEW n \in Names, m < n, dir[n] # 0, m # i PROVE dir[m] # 0
        <5>1. m # i + 1
          BY <1>0, <2>3, <4>1, <4>4
        <5> QED BY <1>1, <2>2, <4>4, <5>1
      <4> QED BY <2>1, <3>1, <4>2, <4>3, <4>4
    <3>2. CASE dir[i] # 0 /\ i + 1 = MaxFiles /\ dir' = [dir EXCEPT ![i] = 0]
      <4>1. \A n \in Names : dir'[n] = IF n = i THEN 0 ELSE dir[n]
        BY <2>3, <2>4, <3>2
      <4>2. \A n \in Names : n < i => dir[n] # 0
        BY <1>0, <1>1, <2>2, <2>3, <3>2
      <4>3. \A n \in Names : n < i \/ n = i \/ n = i + 1
        BY <1>0, <2>3, <3>2
      <4>4. \A n \in 1..(MaxFiles - 1) : n = i \/ dir'[n] # 0
        BY <1>0, <2>3, <3>2, <4>1, <4>2
      <4>5. ASSUME NEW m \in Names, NEW n \in Names, m < n, dir'[n] # 0, m # i PROVE dir'[m] # 0
        <5>1. n < i
          BY <1>0, <2>3, <4>1, <4>3, <4>5
        <5>2. m < i
          BY <1>0, <2>3, <4>5, <5>1
        <5> QED BY <4>1, <4>2, <4>5, <5>2
      <4> QED BY <4>4, <4>5
    <3>3. CASE dir[i] # 0 /\ i + 1 < MaxFiles /\ dir' = [dir EXCEPT ![i + 1] = dir[i], ![i] = 0]
      <4>1. Moved(i)
        BY <2>3, <3>3 DEF Moved
      <4>2. Visible' = Visible /\ \A k \in Names : dir'[k] = IF k = i THEN 0 ELSE IF k = i + 1 THEN dir[i] ELSE dir[k]
        BY <2>1, <2>3, <4>1, VisibleMoved
      <4>3. ASSUME NEW m \in Names, NEW n \in Names, m < n, dir'[n] # 0, m # i PROVE dir'[m] # 0
        <5>1. m \in Nat /\ n \in Nat /\ i \in Nat /\ n # i
          BY <1>0, <2>3, <4>2, <4>3
        <5>2. CASE m = i + 1
          BY <2>3, <3>3, <4>2, <5>1, <5>2
        <5>3. CASE m # i + 1 /\ n = i + 1
          <6>1. m < i
            BY <4>3, <5>1, <5>3
          <6>2. dir[m] # 0
            BY <1>1, <2>2, <2>3, <3>3, <5>3, <6>1
          <6> QED BY <4>2, <4>3, <5>3, <6>2
        <5>4. CASE m # i + 1 /\ n # i + 1
          <6>1. dir[n] # 0
            BY <4>2, <4>3, <5>1, <5>4
          <6>2. dir[m] # 0
            BY <1>1, <2>2, <4>3, <5>4, <6>1
          <6> QED BY <4>2, <4>3, <5>4, <6>2
        <5> QED BY <5>2, <5>3, <5>4
      <4>4. ASSUME ok' \ Visible' # {}, NEW n \in 1..(MaxFiles - 1) PROVE n = i \/ dir'[n] # 0
        <5>1. n \in Names /\ (n = i + 1 \/ dir[n] # 0)
          BY <1>0, <1>1, <2>1, <2>2, <4>2, <4>4
        <5> QED BY <2>3, <3>3, <4>2, <5>1
      <4> QED BY <4>3, <4>4
    <3> QED BY <2>3, <3>1, <3>2, <3>3
  <2> QED BY <1>0, <2>1, <2>2, <2>5, <2>6
<1>5. CASE MoveCurrent(w)
  <2>1. /\ err' = err /\ ok' = ok /\ written' = written /\ files' = files
        /\ pc[w] = "rotating" /\ pc'[w] = "reopening" /\ shift[w] = 0 /\ dir[0] # 0
        /\ dir' = [dir EXCEPT ![1] = dir[0], ![0] = 0]
    BY <1>5 DEF MoveCurrent, TypeOK, history, Rename
  <2>2. \A n \in Names : (Hole(w, n) <=> n = 1) /\ (Hole(w, n)' <=> n = 0)
    BY <2>1 DEF Hole
  <2>3. 1 \in Names /\ \A k \in Names : dir'[k] = IF k = 0 THEN 0 ELSE IF k = 1 THEN dir[0] ELSE dir[k]
    BY <1>0, <2>1 DEF TypeOK
  <2>4. ASSUME NEW m \in Names, NEW n \in Names, m < n, dir'[n] # 0, m # 0 PROVE dir'[m] # 0
    <3>1. m \in Nat /\ n \in Nat /\ n # 0 /\ n # 1
      BY <1>0, <2>4
    <3> QED BY <1>1, <2>1, <2>2, <2>3, <2>4, <3>1
  <2>5. ASSUME ok' \ Visible' # {}, NEW n \in 1..(MaxFiles - 1) PROVE dir'[n] # 0
    <3>1. MaxFiles > 1 /\ dir[1] = 0
      BY <1>0, <2>1 DEF Directory
    <3>2. Moved(0)
      <4>1. 0 + 1 = 1
        OBVIOUS
      <4> QED BY <2>1, <2>3, <3>1, <4>1 DEF Moved
    <3>3. Visible' = Visible
      <4>1. dir[0 + 1] = 0
        BY <3>1
      <4> QED BY <1>0, <2>1, <3>2, <4>1, VisibleMoved
    <3>4. n \in Names /\ n # 0 /\ (n = 1 \/ dir[n] # 0)
      BY <1>0, <1>1, <2>1, <2>2, <2>5, <3>3
    <3> QED BY <2>1, <2>3, <3>4
  <2> QED BY <1>0, <2>1, <2>2, <2>4, <2>5
<1>6. CASE Write(w)
  <2>1. /\ err' = err /\ dir' = dir /\ ok' = ok \cup {entry[w].id}
        /\ pc[w] = "writing" /\ pc'[w] = "idle"
    BY <1>6 DEF Write, TypeOK
  <2>2. handle[w] # 0
    BY <1>0, <2>1 DEF Answered
  <2>3. AppendLine(w, FALSE) /\ written' = written \cup {entry[w].id}
    BY <1>6, <2>2 DEF Write
  <2>4. Grown(w, FALSE)
    <3>1. handle[w] = dir[0]
      BY <2>2 DEF Directory
    <3> QED BY <2>1, <2>2, <2>3, <3>1, AppendEffect DEF Grown
  <2>5. Visible' = Visible \cup {entry[w].id}
    BY <2>4, VisibleGrown
  <2>6. \A n : ~Hole(w, n) /\ ~Hole(w, n)'
    BY <2>1 DEF Hole
  <2> QED BY <1>0, <1>1, <2>1, <2>3, <2>5, <2>6
<1>7. CASE RotationFault(w)
  <2>1. faults' = faults + 1 \/ (pc[w] = "rotating" /\ dir[0] = 0)
    BY <1>7 DEF RotationFault
  <2> QED BY <1>0, <1>1, <2>1
<1>8. CASE WriteFault(w) \/ Crash(w)
  BY <1>0, <1>8 DEF WriteFault, Crash
<1> QED BY <1>2, <1>3, <1>4, <1>5, <1>6, <1>7, <1>8 DEF Step

-----------------------------------------------------------------------------
(* The invariant. *)

LEMMA InvInit ==
  ASSUME NEW w \in Writers
  PROVE  Init => Inv(w)
<1> SUFFICES ASSUME Init PROVE Inv(w)
  OBVIOUS
<1>1. TypeOK
  BY TypeOKInit
<1>2. /\ \A n \in Names : dir[n] = 0 /\ Whole(n) = {}
      /\ pc[w] = "down" /\ handle[w] = 0
      /\ files = <<>> /\ DOMAIN files = {}
      /\ ok = {} /\ err = {} /\ written = {}
  BY DEF Init, Whole, Lines
<1>3. Visible = {}
  BY <1>2 DEF Visible
<1>4. Entry(w) /\ Directory(w) /\ InFile(w) /\ AcrossFiles
  BY <1>2 DEF Entry, Busy, Directory, InFile, AcrossFiles
<1>5. Answered(w) /\ Sizes(w) /\ OldestDropped /\ NoGaps(w)
  BY <1>2, <1>3 DEF Answered, Sizes, OldestDropped, NoGaps
<1> QED BY <1>1, <1>4, <1>5 DEF Inv

LEMMA InvStep ==
  ASSUME NEW w \in Writers
  PROVE  Inv(w) /\ Step(w) => Inv(w)'
<1> SUFFICES ASSUME Inv(w), Step(w) PROVE Inv(w)'
  OBVIOUS
<1>1. /\ TypeOK /\ Entry(w) /\ Directory(w) /\ InFile(w) /\ AcrossFiles
      /\ Answered(w) /\ Sizes(w) /\ OldestDropped /\ NoGaps(w)
  BY DEF Inv
<1>2. TypeOK' /\ Entry(w)' /\ Directory(w)'
  BY <1>1, TypeOKStep, EntryStep, DirectoryStep
<1>3. InFile(w)' /\ AcrossFiles'
  BY <1>1, InFileStep, AcrossFilesStep
<1>4. Answered(w)' /\ Sizes(w)'
  BY <1>1, AnsweredStep, SizesStep
<1>5. OldestDropped' /\ NoGaps(w)'
  BY <1>1, OldestDroppedStep, NoGapsStep
<1> QED BY <1>2, <1>3, <1>4, <1>5 DEF Inv

LEMMA InvStutter ==
  ASSUME NEW w \in Writers
  PROVE  Inv(w) /\ UNCHANGED vars => Inv(w)'
<1> SUFFICES ASSUME Inv(w), UNCHANGED vars PROVE Inv(w)'
  OBVIOUS
<1>1. /\ TypeOK /\ Entry(w) /\ Directory(w) /\ InFile(w) /\ AcrossFiles
      /\ Answered(w) /\ Sizes(w) /\ OldestDropped /\ NoGaps(w)
  BY DEF Inv
<1>2. TypeOK' /\ Entry(w)' /\ Directory(w)'
  BY <1>1 DEF vars, TypeOK, Entry, Busy, Directory
<1>3. InFile(w)' /\ AcrossFiles'
  BY <1>1 DEF vars, InFile, AcrossFiles, Ids, Before, Busy
<1>4. Answered(w)' /\ Sizes(w)'
  BY <1>1 DEF vars, Answered, Sizes, Before, Busy
<1>5. Visible' = Visible
  BY VisibleSame DEF vars
<1>6. OldestDropped' /\ NoGaps(w)'
  BY <1>1, <1>5 DEF vars, OldestDropped, NoGaps, Hole
<1> QED BY <1>2, <1>3, <1>4, <1>6 DEF Inv

\* The invariant of the one writer, from which the three properties follow.
THEOREM Invariance ==
  ASSUME NEW w, Writers = {w}
  PROVE  Spec => []Inv(w)
<1>1. w \in Writers
  OBVIOUS
<1>2. Init => Inv(w)
  BY <1>1, InvInit
<1>3. Inv(w) /\ [Next]_vars => Inv(w)'
  BY <1>1, InvStep, InvStutter DEF Next
<1> QED BY <1>2, <1>3, PTL DEF Spec

-----------------------------------------------------------------------------
(* The properties. *)

\* The lines of a file that is read, as read_last selects them.
Ends          == {i \in DOMAIN Lines(0) : ~Lines(0)[i].torn \/ i = Len(Lines(0))}
After(i)      == {j \in Ends : j > i}
IsEntry(i)    == ~Lines(0)[i].torn /\ (i > 1 => ~Lines(0)[i - 1].torn)

LEMMA ReadLastIs ==
  ASSUME NEW n
  PROVE  /\ DOMAIN read_last(n) = {i \in Ends : Cardinality(After(i)) < n /\ IsEntry(i)}
         /\ \A i \in DOMAIN read_last(n) : read_last(n)[i] = Lines(0)[i].id
BY DEF read_last, Ends, After, IsEntry

\* What the invariant says of the active file.
LEMMA ActiveFile ==
  ASSUME NEW w \in Writers
  PROVE  Inv(w) =>
           LET lines == Lines(0) IN
           /\ Len(lines) \in Nat /\ DOMAIN lines = 1..Len(lines)
           /\ \A i, j \in DOMAIN lines : i < j => lines[i].id < lines[j].id
           /\ \A i \in DOMAIN lines : ~lines[i].torn => lines[i].id \in written
           /\ faults = 0 /\ crashes = 0 => \A i \in DOMAIN lines : ~lines[i].torn
<1> SUFFICES ASSUME Inv(w)
             PROVE  LET lines == Lines(0) IN
                    /\ Len(lines) \in Nat /\ DOMAIN lines = 1..Len(lines)
                    /\ \A i, j \in DOMAIN lines : i < j => lines[i].id < lines[j].id
                    /\ \A i \in DOMAIN lines : ~lines[i].torn => lines[i].id \in written
                    /\ faults = 0 /\ crashes = 0 => \A i \in DOMAIN lines : ~lines[i].torn
  OBVIOUS
<1>1. TypeOK /\ InFile(w)
  BY DEF Inv
<1>2. CASE dir[0] = 0
  <2>1. Lines(0) = <<>> /\ Len(<<>>) = 0 /\ DOMAIN <<>> = {} /\ 1..0 = {}
    BY <1>2 DEF Lines
  <2> QED BY <2>1
<1>3. CASE dir[0] # 0
  <2>1. dir[0] \in 1..Len(files) /\ Lines(0) = files[dir[0]].lines
    BY <1>1, <1>3, NamedFiles DEF Lines
  <2> QED BY <1>1, <2>1, FileFacts DEF InFile
<1> QED BY <1>2, <1>3

LEMMA ReadsBackHolds ==
  ASSUME NEW w \in Writers
  PROVE  Inv(w) => ReadsBack
<1> SUFFICES ASSUME Inv(w), NEW n \in 0..MaxEntries
             PROVE  /\ \A i \in DOMAIN read_last(n) :
                         /\ read_last(n)[i] \in written
                         /\ \A j \in DOMAIN read_last(n) : i < j => read_last(n)[i] < read_last(n)[j]
                    /\ \A i \in DOMAIN read_last(n + 1) \ DOMAIN read_last(n) :
                         \A j \in DOMAIN read_last(n) : i < j
                    /\ faults = 0 /\ crashes = 0 =>
                         \A i \in DOMAIN Lines(0) : i > Len(Lines(0)) - n => i \in DOMAIN read_last(n)
  BY DEF ReadsBack
<1> DEFINE lines == Lines(0)
           L == Len(lines)
<1>1. /\ L \in Nat /\ DOMAIN lines = 1..L /\ n \in Nat
      /\ \A i, j \in DOMAIN lines : i < j => lines[i].id < lines[j].id
      /\ \A i \in DOMAIN lines : ~lines[i].torn => lines[i].id \in written
      /\ faults = 0 /\ crashes = 0 => \A i \in DOMAIN lines : ~lines[i].torn
  BY ActiveFile, AuditAssumption
<1>2. \A k \in {n, n + 1} :
        /\ DOMAIN read_last(k) = {i \in Ends : Cardinality(After(i)) < k /\ IsEntry(i)}
        /\ \A i \in DOMAIN read_last(k) : read_last(k)[i] = lines[i].id
  BY ReadLastIs
<1>3. Ends \subseteq 1..L
  BY <1>1 DEF Ends
<1>4. ASSUME NEW i \in 1..L
      PROVE  /\ IsFiniteSet(After(i)) /\ Cardinality(After(i)) \in Nat
             /\ Cardinality(After(i)) <= L - i
  <2>1. After(i) \in SUBSET ((i + 1)..L)
    <3>1. ASSUME NEW k \in After(i) PROVE k \in (i + 1)..L
      <4>1. k \in 1..L /\ k > i
        BY <1>3 DEF After
      <4> HIDE DEF L
      <4> QED BY <1>1, <4>1
    <3> QED BY <3>1
  <2>2. IsFiniteSet((i + 1)..L) /\ Cardinality((i + 1)..L) = L - i
    BY <1>1, FS_Interval
  <2> QED BY <2>1, <2>2, FS_Subset, FS_CardinalityType
<1> HIDE DEF lines, L
<1>5. \A i \in DOMAIN read_last(n) :
        /\ read_last(n)[i] \in written
        /\ \A j \in DOMAIN read_last(n) : i < j => read_last(n)[i] < read_last(n)[j]
  <2>1. \A i \in DOMAIN read_last(n) : i \in DOMAIN lines /\ ~lines[i].torn /\ read_last(n)[i] = lines[i].id
    BY <1>1, <1>2, <1>3 DEF IsEntry, lines
  <2> QED BY <1>1, <2>1
<1>6. ASSUME NEW i \in DOMAIN read_last(n + 1) \ DOMAIN read_last(n), NEW j \in DOMAIN read_last(n)
      PROVE  i < j
  <2>1. /\ i \in Ends /\ ~(Cardinality(After(i)) < n)
        /\ j \in Ends /\ Cardinality(After(j)) < n
    BY <1>2
  <2>2. i \in 1..L /\ j \in 1..L /\ i \in Nat /\ j \in Nat
    BY <1>3, <2>1
  <2>3. SUFFICES ASSUME j <= i PROVE FALSE
    BY <2>2
  <2>4. After(i) \in SUBSET After(j)
    <3>1. ASSUME NEW k \in After(i) PROVE k \in After(j)
      <4>1. k \in Ends /\ k \in 1..L /\ k > i
        BY <1>3 DEF After
      <4>2. k > j
        BY <1>1, <2>2, <2>3, <4>1
      <4> QED BY <4>1, <4>2 DEF After
    <3> QED BY <3>1
  <2>5. Cardinality(After(i)) <= Cardinality(After(j))
    BY <1>4, <2>2, <2>4, FS_Subset
  <2> QED BY <1>1, <1>4, <2>1, <2>2, <2>5
<1>7. ASSUME faults = 0 /\ crashes = 0, NEW i \in DOMAIN lines, i > L - n
      PROVE  i \in DOMAIN read_last(n)
  <2>1. i \in Ends /\ IsEntry(i)
    BY <1>1, <1>7 DEF Ends, IsEntry, lines
  <2>2. Cardinality(After(i)) < n
    BY <1>1, <1>4, <1>7
  <2> QED BY <1>2, <2>1, <2>2
<1> QED BY <1>5, <1>6, <1>7 DEF lines, L

\* From the oldest rotated file to the active one the entries are in the order
\* they were logged, through every rotation, failed call and crash, and what
\* read_last tells of the active file is its last entries.
THEOREM FilesStayInOrder ==
  ASSUME NEW w, Writers = {w}
  PROVE  Spec => []FilesInOrder
<1>1. Inv(w) => FilesInOrder
  <2> SUFFICES ASSUME Inv(w) PROVE FilesInOrder
    OBVIOUS
  <2>1. TypeOK /\ InFile(w) /\ AcrossFiles /\ ReadsBack
    BY ReadsBackHolds DEF Inv
  <2>2. ASSUME NEW n \in Names, NEW i \in DOMAIN Lines(n), NEW j \in DOMAIN Lines(n), i < j
        PROVE  Lines(n)[i].id < Lines(n)[j].id
    <3>1. CASE dir[n] = 0
      BY <2>2, <3>1 DEF Lines
    <3>2. CASE dir[n] # 0
      <4>1. dir[n] \in 1..Len(files) /\ Lines(n) = files[dir[n]].lines
        BY <2>1, <3>2, NamedFiles DEF Lines
      <4> QED BY <2>1, <2>2, <4>1, FileFacts DEF InFile
    <3> QED BY <3>1, <3>2
  <2>3. ASSUME NEW m \in Names, NEW n \in Names, m > n PROVE \A d \in Whole(m), e \in Whole(n) : d < e
    BY <2>1, <2>3, WholeIs, WholeAreIds DEF AcrossFiles
  <2> QED BY <2>1, <2>2, <2>3 DEF FilesInOrder
<1> QED BY <1>1, Invariance, PTL

\* What rotation drops is the oldest, and only to make room; and no entry that
\* log() answered with Ok is missing unless an earlier one was answered with Err.
THEOREM RotationDropsOldest ==
  ASSUME NEW w, Writers = {w}
  PROVE  Spec => []OnlyOldestDropped
<1>1. Inv(w) => OnlyOldestDropped
  <2> SUFFICES ASSUME Inv(w) PROVE OnlyOldestDropped
    OBVIOUS
  <2>1. OldestDropped /\ Answered(w) /\ NoGaps(w)
    BY DEF Inv
  <2>2. ASSUME faults = 0, crashes = 0, NEW d \in ok \ Visible, NEW n \in 1..(MaxFiles - 1)
        PROVE  dir[n] # 0 \/ \E v \in Writers : pc[v] \in {"rotating", "reopening"}
    <3>1. Hole(w, n) \/ dir[n] # 0
      BY <2>1, <2>2 DEF NoGaps
    <3> QED BY <3>1 DEF Hole
  <2> QED BY <2>1, <2>2 DEF OnlyOldestDropped, OldestDropped, Answered
<1> QED BY <1>1, Invariance, PTL

\* Never more than max_files files, and the active one outgrows max_size by at
\* most its first line, also when an earlier process left it behind.
THEOREM LogIsBounded ==
  ASSUME NEW w, Writers = {w}
  PROVE  Spec => []DiskBounded
<1>1. Inv(w) => DiskBounded
  <2> SUFFICES ASSUME Inv(w) PROVE DiskBounded
    OBVIOUS
  <2>1. TypeOK /\ Directory(w) /\ Sizes(w)
    BY DEF Inv
  <2>2. ASSUME NEW v \in Writers, handle[v] # 0
        PROVE  files[handle[v]].bytes - files[handle[v]].first <= MaxSize
    <3>1. handle[v] \in DOMAIN files
      BY <2>1, <2>2, FileFacts DEF TypeOK
    <3> QED BY <2>1, <3>1 DEF Sizes
  <2> QED BY <2>1, <2>2 DEF DiskBounded, Directory
<1> QED BY <1>1, Invariance, PTL

=============================================================================
