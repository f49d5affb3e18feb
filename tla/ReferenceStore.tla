--------------------------- MODULE ReferenceStore ---------------------------
(***************************************************************************)
(* ReferenceMemoryStore (crates/sc-memory/src/reference.rs): a map kept in *)
(* memory and an append-only log from which it is rebuilt.                 *)
(*                                                                         *)
(* The log is a sequence of lines [text, ended]: text is a record or       *)
(* Garbage, and a line that is not ended is continued by the next write.   *)
(* A write that an I/O error or a crash interrupts leaves nothing, a part  *)
(* of the record, or all of it but the line break; TornTails names which.  *)
(* The mutex makes every operation one step: there is no await under it.   *)
(***************************************************************************)
EXTENDS Naturals, SequencesExt

CONSTANTS Ids, Entries,
          Storable,              \* the entries whose JSON can be read back
          SCHEMA_VERSION,
          TornTails,             \* what a cut write leaves, out of "part" and "unended"
          MaxOps, MaxFaults, MaxCrashes   \* bounds

ASSUME ReferenceAssumption ==
  /\ Storable \subseteq Entries /\ SCHEMA_VERSION \in Nat
  /\ TornTails \subseteq {"part", "unended"}
  /\ MaxOps \in Nat /\ MaxFaults \in Nat /\ MaxCrashes \in Nat

VARIABLES
  file,      \* the log, on disk
  phase,     \* "closed" or "open"
  entries,   \* the map in memory
  error,     \* the error of the last open(), or "None"
  \* history
  acked,     \* the map as the operations that returned Ok left it
  doubtful,  \* ids with an operation that failed or was cut since the last open()
  ops, faults, crashes

bounds == <<ops, faults, crashes>>
vars   == <<file, phase, entries, error, acked, doubtful, bounds>>

Garbage == [kind |-> "garbage"]
Header(version)        == [kind |-> "header", schema_version |-> version]
AddRecord(id, entry)   == [kind |-> "add", id |-> id, entry |-> entry]
UpdateRecord(id, entry) == [kind |-> "update", id |-> id, entry |-> entry]
DeleteRecord(id)       == [kind |-> "delete", id |-> id]

Put(map, id, entry) == [i \in DOMAIN map \cup {id} |-> IF i = id THEN entry ELSE map[i]]
Without(map, id)    == [i \in DOMAIN map \ {id} |-> map[i]]

Init ==
  /\ file \in {<<>>, <<[text |-> Header(SCHEMA_VERSION + 1), ended |-> TRUE]>>}
  /\ phase = "closed" /\ entries = <<>> /\ error = "None"
  /\ acked = <<>> /\ doubtful = {} /\ ops = 0 /\ faults = 0 /\ crashes = 0

-----------------------------------------------------------------------------
\* The log with text appended, a line break following or not.
Appended(text, ended) ==
  IF file = <<>> \/ Last(file).ended
  THEN Append(file, [text |-> text, ended |-> ended])
  ELSE Append(Front(file), [text |-> Garbage, ended |-> ended])

\* What a write that is cut may leave.
Cut(record) ==
  {file} \cup {Appended(Garbage, FALSE) : t \in TornTails \cap {"part"}}
         \cup {Appended(record, FALSE) : t \in TornTails \cap {"unended"}}

\* f32 values that JSON cannot express are written as null and not read back.
Parses(text) ==
  /\ text # Garbage
  /\ text.kind \in {"add", "update"} => text.entry \in Storable

ApplySkippingUpdates(map, line) ==
  CASE line.text.kind = "add"               -> Put(map, line.text.id, line.text.entry)
    [] line.text.kind = "delete"            -> Without(map, line.text.id)
    [] line.text.kind \in {"header", "update"} -> map

ApplyRecord(map, line) ==
  CASE line.text.kind \in {"add", "update"} -> Put(map, line.text.id, line.text.entry)
    [] line.text.kind = "delete"            -> Without(map, line.text.id)
    [] line.text.kind = "header"            -> map

Apply(map, line) == ApplyRecord(map, line)

\* The log fails to load as a whole if any of its lines does.  A part that ends
\* inside a character is reported as Io, before any line is looked at.
replay_error(log) ==
  IF log = <<>> THEN "None"
  ELSE IF ~Parses(log[1].text) \/ log[1].text.kind # "header" THEN "Corrupt"
  ELSE IF log[1].text.schema_version # SCHEMA_VERSION THEN "UnsupportedSchemaVersion"
  ELSE IF \E i \in 2..Len(log) : ~Parses(log[i].text) \/ log[i].text.kind = "header" THEN "Corrupt"
  ELSE "None"

replay(log) ==
  LET map[n \in 0..Len(log)] == IF n = 0 THEN <<>> ELSE Apply(map[n - 1], log[n])
  IN  map[Len(log)]

-----------------------------------------------------------------------------
Open ==
  /\ phase = "closed" /\ replay_error(file) = "None"
  /\ phase' = "open" /\ entries' = replay(file) /\ error' = "None"
  /\ file' = IF file = <<>> THEN Appended(Header(SCHEMA_VERSION), TRUE) ELSE file
  /\ acked' = entries' /\ doubtful' = {}
  /\ UNCHANGED bounds

OpenRefused ==
  /\ phase = "closed" /\ replay_error(file) # "None"
  /\ error' = replay_error(file)
  /\ UNCHANGED <<file, phase, entries, acked, doubtful, bounds>>

\* The header cannot be written whole.
OpenFault ==
  /\ phase = "closed" /\ file = <<>> /\ faults < MaxFaults
  /\ faults' = faults + 1
  /\ file' \in Cut(Header(SCHEMA_VERSION))
  /\ error' = "Io"
  /\ UNCHANGED <<phase, entries, acked, doubtful, ops, crashes>>

\* An operation: written and then applied to the map, failed, or cut by a crash.
Written(record, map) ==
  /\ file' = Appended(record, TRUE)
  /\ entries' = map /\ acked' = map
  /\ UNCHANGED <<phase, doubtful, faults, crashes>>

AppliedAnyway(record, map) ==
  /\ faults < MaxFaults /\ faults' = faults + 1
  /\ file' \in Cut(record)
  /\ entries' = map
  /\ doubtful' = doubtful \cup {record.id}
  /\ UNCHANGED <<phase, acked, crashes>>

NotWritten(record, map) ==
  /\ faults < MaxFaults /\ faults' = faults + 1
  /\ file' \in Cut(record)
  /\ doubtful' = doubtful \cup {record.id}
  /\ UNCHANGED <<phase, entries, acked, crashes>>

CutByCrash(record) ==
  /\ crashes < MaxCrashes /\ crashes' = crashes + 1
  /\ file' \in Cut(record) \cup {Appended(record, TRUE)}
  /\ phase' = "closed" /\ entries' = <<>>
  /\ doubtful' = doubtful \cup {record.id}
  /\ UNCHANGED <<acked, faults>>

Mutate(record, map) ==
  /\ phase = "open" /\ ops < MaxOps
  /\ ops' = ops + 1
  /\ Written(record, map) \/ NotWritten(record, map) \/ CutByCrash(record)
  /\ UNCHANGED error

\* AlreadyExists, NotFound and a delete of nothing change nothing.
add(id, entry)    == id \notin DOMAIN entries /\ Mutate(AddRecord(id, entry), Put(entries, id, entry))
update(id, entry) == id \in DOMAIN entries /\ Mutate(UpdateRecord(id, entry), Put(entries, id, entry))
delete(id)        == id \in DOMAIN entries /\ Mutate(DeleteRecord(id), Without(entries, id))

\* The process ends between two operations.
Restart ==
  /\ phase = "open" /\ crashes < MaxCrashes
  /\ crashes' = crashes + 1
  /\ phase' = "closed" /\ entries' = <<>>
  /\ UNCHANGED <<file, error, acked, doubtful, ops, faults>>

Operation ==
  \E id \in Ids : delete(id) \/ \E entry \in Entries : add(id, entry) \/ update(id, entry)

Next == Open \/ OpenRefused \/ OpenFault \/ Operation \/ Restart

Spec == Init /\ [][Next]_vars

-----------------------------------------------------------------------------
(* Properties. *)

Maps == UNION {[ids -> Entries] : ids \in SUBSET Ids}

\* Types; among them, that a log starts with a header or an attempt at one.
TypeOK ==
  /\ file # <<>> => file[1].text.kind \in {"header", "garbage"}
  /\ phase \in {"closed", "open"}
  /\ entries \in Maps /\ acked \in Maps /\ doubtful \subseteq Ids
  /\ error \in {"None", "Io", "Corrupt", "UnsupportedSchemaVersion"}
  /\ ops \in 0..MaxOps /\ faults \in 0..MaxFaults /\ crashes \in 0..MaxCrashes

Intact == \A i \in DOMAIN file : file[i].ended /\ Parses(file[i].text)

Same(map1, map2, id) ==
  /\ id \in DOMAIN map1 <=> id \in DOMAIN map2
  /\ id \in DOMAIN map1 => map1[id] = map2[id]

\* While the log is intact the map in memory is the one it would be replayed to,
\* through failed operations too.  And a log that open() would accept, intact or
\* with a torn end, has for every id what the operations that returned Ok left
\* there; only an operation that failed or was cut may or may not show.
LogMirrorsMap ==
  /\ TypeOK
  /\ phase = "open" /\ Intact => replay(file) = entries
  /\ replay_error(file) = "None" => \A id \in Ids \ doubtful : Same(replay(file), acked, id)

\* A restarted store is the map it was: the log implements MemoryMap, through
\* failed and cut writes.  While the store is closed the map is what open() would
\* make of the log, or, for a log that open() refuses, what was acknowledged.
kept ==
  CASE phase = "open"                                  -> entries
    [] phase = "closed" /\ replay_error(file) = "None" -> replay(file)
    [] OTHER                                           -> acked

Map == INSTANCE MemoryMap WITH store <- kept

ImplementsMap == Map!Spec

-----------------------------------------------------------------------------
(* What the repository says and the code does not do. *)

\* "Safe to reopen after a process restart": a log with entries whose operations
\* returned Ok is refused as a whole.
SafeToReopen == error = "Corrupt" => acked = <<>>
=============================================================================
