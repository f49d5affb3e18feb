--------------------------- MODULE TurboVecStore ----------------------------
(***************************************************************************)
(* TurboVecMemoryStore (crates/sc-memory/src/turbovec_backend.rs): a       *)
(* reference store, and an index over its embeddings behind a lock of its  *)
(* own.  Tasks call it concurrently: a mutation first changes the          *)
(* reference store and then, in a step of its own, the index.              *)
(*                                                                         *)
(* An entry is [workspace, vector].  The index library is external: a      *)
(* search is refused if the allowlist names a slot it does not hold, and   *)
(* otherwise yields as many allowed slots as were asked for and are there. *)
(* The ranking is abstracted: any of them may be the best.                 *)
(***************************************************************************)
EXTENDS Naturals, FiniteSets

CONSTANTS Procs, Ids, Entries,
          Configured,       \* vectors of the configured dim, model and version
          Comparable,       \* vectors of the same dim, whatever their model or version
          SlotIds,          \* the ways in which ids may be given their slots
          Limits,
          MaxDrops          \* bound: operations whose future is dropped half-way

ASSUME TurboVecAssumption ==
  /\ Configured \subseteq Comparable /\ \A slots \in SlotIds : DOMAIN slots = Ids
  /\ Limits \subseteq Nat /\ MaxDrops \in Nat

VARIABLES
  slot_id,   \* the 64 bits of each id that the index knows it by; never changes
  entries,   \* the reference store
  index,     \* Unavailable, or a map from slots to [id, vector]: IdMapIndex and id_map
  op,        \* what each task is doing: Idle, an operation half-way, or what it found
  \* history
  missing,   \* an update did not find its entry in the index
  raced,     \* mutations of one id overlapped, or one was dropped half-way
  drops

vars == <<slot_id, entries, index, op, missing, raced, drops>>

Idle        == [kind |-> "idle"]
Unavailable == [ready |-> FALSE]
Ready(map)  == [ready |-> TRUE, map |-> map]

Workspaces == {entry.workspace : entry \in Entries}
Put(map, key, value) == [k \in DOMAIN map \cup {key} |-> IF k = key THEN value ELSE map[k]]
Without(map, key)    == [k \in DOMAIN map \ {key} |-> map[k]]
Slot(id) == [id |-> id, vector |-> entries[id].vector]

Collision(ids) == \E i, j \in ids : i # j /\ slot_id[i] = slot_id[j]

\* The index of every entry, if all match the configuration and none collide.
build_index(map) ==
  IF (\A id \in DOMAIN map : map[id].vector \in Configured) /\ ~Collision(DOMAIN map)
  THEN Ready([slot \in {slot_id[id] : id \in DOMAIN map} |->
                LET id == CHOOSE i \in DOMAIN map : slot_id[i] = slot
                IN  [id |-> id, vector |-> map[id].vector]])
  ELSE Unavailable

NoEntries == [id \in {} |-> CHOOSE entry \in Entries : TRUE]

Init ==
  /\ slot_id \in SlotIds
  /\ entries = NoEntries /\ index = build_index(NoEntries)
  /\ op = [p \in Procs |-> Idle]
  /\ missing = FALSE /\ raced = FALSE /\ drops = 0

-----------------------------------------------------------------------------
Mutating(p) == op[p].kind \in {"add", "update", "delete"}

\* The first half of a mutation, in the reference store.
Begin(p, kind, id, entry, map) ==
  /\ op[p] = Idle
  /\ entries' = map
  /\ op' = [op EXCEPT ![p] = [kind |-> kind, id |-> id, entry |-> entry]]
  /\ raced' = (raced \/ \E q \in Procs : Mutating(q) /\ op[q].id = id)
  /\ UNCHANGED <<slot_id, index, missing, drops>>

add(p, id, entry) ==
  id \notin DOMAIN entries /\ Begin(p, "add", id, entry, Put(entries, id, entry))

update(p, id, entry) ==
  id \in DOMAIN entries /\ Begin(p, "update", id, entry, Put(entries, id, entry))

delete(p, id) ==
  id \in DOMAIN entries /\ Begin(p, "delete", id, entries[id], Without(entries, id))

\* The second half, in the index.
End(p) == op' = [op EXCEPT ![p] = Idle] /\ UNCHANGED <<slot_id, entries, raced, drops>>

Indexed(o) == Ready(Put(index.map, slot_id[o.id], [id |-> o.id, vector |-> o.entry.vector]))

IndexAddOverwriting(p) ==
  /\ op[p].kind = "add" /\ index.ready
  /\ index' = IF op[p].entry.vector \in Configured THEN Indexed(op[p]) ELSE Unavailable
  /\ End(p) /\ UNCHANGED missing

\* What the index itself may refuse is a vector that is not as configured, or a
\* slot it holds.
IndexAdd(p) ==
  /\ op[p].kind = "add" /\ index.ready
  /\ index' = IF op[p].entry.vector \in Configured /\ slot_id[op[p].id] \notin DOMAIN index.map
              THEN Indexed(op[p]) ELSE Unavailable
  /\ End(p) /\ UNCHANGED missing

IndexUpdateKeepingOld(p) ==
  LET present == slot_id[op[p].id] \in DOMAIN index.map
  IN  /\ op[p].kind = "update" /\ index.ready
      /\ index' = IF present /\ op[p].entry.vector \in Configured THEN index ELSE Unavailable
      /\ missing' = (missing \/ ~present)
      /\ End(p)

\* An entry that is not in the index makes it unavailable.
IndexUpdate(p) ==
  LET present == slot_id[op[p].id] \in DOMAIN index.map
  IN  /\ op[p].kind = "update" /\ index.ready
      /\ index' = IF present /\ op[p].entry.vector \in Configured THEN Indexed(op[p]) ELSE Unavailable
      /\ missing' = (missing \/ ~present)
      /\ End(p)

IndexDelete(p) ==
  /\ op[p].kind = "delete" /\ index.ready
  /\ index' = Ready(Without(index.map, slot_id[op[p].id]))
  /\ End(p) /\ UNCHANGED missing

IndexUnavailable(p) ==
  /\ Mutating(p) /\ ~index.ready
  /\ End(p) /\ UNCHANGED <<index, missing>>

\* The caller drops the future while it waits for a lock.
Drop(p) ==
  /\ op[p].kind \in {"add", "update", "delete", "fallback"} /\ drops < MaxDrops
  /\ drops' = drops + 1
  /\ raced' = (raced \/ Mutating(p))
  /\ op' = [op EXCEPT ![p] = Idle]
  /\ UNCHANGED <<slot_id, entries, index, missing>>

-----------------------------------------------------------------------------
InWorkspace(workspace) == {id \in DOMAIN entries : entries[id].workspace = workspace}

Result(id, vector) == [id |-> id, entry |-> entries[id], vector |-> vector]

Least(a, b) == IF a < b THEN a ELSE b

AllowedEverywhere(workspace) == {slot_id[id] : id \in DOMAIN entries}

AllowedIfHeld(workspace) == {slot_id[id] : id \in InWorkspace(workspace)} \cap DOMAIN index.map

Allowed(workspace) == {slot_id[id] : id \in InWorkspace(workspace)}

Accepts(allowed) == allowed \subseteq DOMAIN index.map

\* search_with_allowlist and the lookup of the slots it yields, both under the
\* lock of the index.
IndexSearch(p, workspace, limit) ==
  LET held == Allowed(workspace) \cap DOMAIN index.map
  IN  /\ op[p] = Idle /\ index.ready /\ Accepts(Allowed(workspace))
      /\ \E slots \in SUBSET held :
           LET live == {s \in slots : index.map[s].id \in DOMAIN entries}
           IN  /\ Cardinality(slots) = Least(limit, Cardinality(held))
               /\ op' = [op EXCEPT ![p] =
                     [kind |-> "searched", workspace |-> workspace, limit |-> limit, plain |-> TRUE,
                      found |-> {Result(index.map[s].id, index.map[s].vector) : s \in live}]]
      /\ UNCHANGED <<slot_id, entries, index, missing, raced, drops>>

\* A query with filters or of another dimension (not plain), an unavailable index
\* and a refused allowlist release the lock and search the reference store.
FallBack(p, workspace, limit, plain) ==
  /\ op[p] = Idle
  /\ plain => ~(index.ready /\ Accepts(Allowed(workspace)))
  /\ op' = [op EXCEPT ![p] =
        [kind |-> "fallback", workspace |-> workspace, limit |-> limit, plain |-> plain]]
  /\ UNCHANGED <<slot_id, entries, index, missing, raced, drops>>

Candidates(workspace) == {id \in InWorkspace(workspace) : entries[id].vector \in Comparable}

\* Filters are abstracted: they leave any of the entries of the workspace.
ReferenceSearch(p) ==
  /\ op[p].kind = "fallback"
  /\ \E matching \in SUBSET InWorkspace(op[p].workspace) : \E ids \in SUBSET matching :
       /\ op[p].plain => matching = Candidates(op[p].workspace)
       /\ Cardinality(ids) = Least(op[p].limit, Cardinality(matching))
       /\ op' = [op EXCEPT ![p] =
             [kind |-> "searched", workspace |-> @.workspace, limit |-> @.limit, plain |-> @.plain,
              found |-> {Result(id, entries[id].vector) : id \in ids}]]
  /\ UNCHANGED <<slot_id, entries, index, missing, raced, drops>>

Return(p) ==
  /\ op[p].kind = "searched"
  /\ op' = [op EXCEPT ![p] = Idle]
  /\ UNCHANGED <<slot_id, entries, index, missing, raced, drops>>

\* The store is dropped and opened again.
open ==
  /\ \A p \in Procs : op[p] = Idle
  /\ index' = build_index(entries)
  /\ UNCHANGED <<slot_id, entries, op, missing, raced, drops>>

Mutation(p) ==
  \E id \in Ids : delete(p, id) \/ \E entry \in Entries : add(p, id, entry) \/ update(p, id, entry)

Indexing(p) == IndexAdd(p) \/ IndexUpdate(p) \/ IndexDelete(p) \/ IndexUnavailable(p) \/ Drop(p)

Search(p) ==
  \/ \E workspace \in Workspaces, limit \in Limits :
       \/ IndexSearch(p, workspace, limit)
       \/ \E plain \in BOOLEAN : FallBack(p, workspace, limit, plain)
  \/ ReferenceSearch(p) \/ Return(p)

Next == open \/ \E p \in Procs : Mutation(p) \/ Indexing(p) \/ Search(p)

Spec == Init /\ [][Next]_vars

-----------------------------------------------------------------------------
(* Properties. *)

Searched(p) == op[p].kind # "searched" /\ op'[p].kind = "searched"

\* Whatever mutations are half-way, a search without filters returns as many
\* entries as it was asked for and as there are: an entry that is not yet in the
\* index is found by the fallback.
SearchMissesNothing ==
  [][~Collision(Ids) =>
       \A p \in Procs : Searched(p) /\ op'[p].plain =>
         Cardinality(op'[p].found) >= Least(op'[p].limit, Cardinality(Candidates(op'[p].workspace)))]_vars

\* No search returns an entry of another workspace, unless its slot is shared.
WorkspaceRespected ==
  [][\A p \in Procs : Searched(p) =>
       \A result \in op'[p].found :
         \/ result.entry.workspace = op'[p].workspace
         \/ \E id \in Ids \ {result.id} : slot_id[id] = slot_id[result.id]]_vars

\* A result is scored by the vector of the entry it is returned with, unless a
\* mutation of that entry is half-way.
ScoredByOwnVector ==
  [][~raced =>
       \A p \in Procs : Searched(p) => \A result \in op'[p].found :
         \/ result.vector = result.entry.vector
         \/ \E q \in Procs : Mutating(q) /\ op[q].id = result.id]_vars

\* Mutations of different ids may overlap in any way, also when their slots are
\* the same: an update always finds its entry in a ready index, and once none is
\* half-way a ready index "exactly mirrors every entry in the reference store".
MirrorsWithoutRaces ==
  ~raced =>
    /\ ~missing
    /\ index.ready /\ (\A p \in Procs : ~Mutating(p)) => index = build_index(entries)

-----------------------------------------------------------------------------
(* What the repository says and the code does not do. *)

\* "The index exactly mirrors every entry in the reference store", whatever
\* operations came before: two mutations of one id may reach the index in the
\* other order.
ReadyMirrors ==
  index.ready /\ (\A p \in Procs : op[p] = Idle) => index = build_index(entries)
=============================================================================
