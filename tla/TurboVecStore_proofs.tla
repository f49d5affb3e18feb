------------------------ MODULE TurboVecStore_proofs ------------------------
(***************************************************************************)
(* Proofs about TurboVecStore for every set of tasks, ids, entries, vectors *)
(* and assignment of slots, colliding ones included.  MirrorInv relates the *)
(* index to the store while mutations are half-way; it is inductive.        *)
(***************************************************************************)
EXTENDS TurboVecStore, FiniteSetTheorems, TLAPS

Adding(id)   == \E q \in Procs : op[q].kind = "add" /\ op[q].id = id
Deleting(id) == \E q \in Procs : op[q].kind = "delete" /\ op[q].id = id
Settled(id)  == \A q \in Procs : Mutating(q) => op[q].id # id

\* The ids that a ready index holds when no two mutations of one id overlap.
InIndex(id) == (id \in DOMAIN entries /\ ~Adding(id)) \/ Deleting(id)

Shape ==
  /\ op = [p \in Procs |-> op[p]]
  /\ DOMAIN entries \subseteq Ids
  /\ raced \in BOOLEAN /\ missing \in BOOLEAN

KeyedBySlot ==
  index.ready =>
    /\ index = Ready([s \in DOMAIN index.map |->
                        [id |-> index.map[s].id, vector |-> index.map[s].vector]])
    /\ \A s \in DOMAIN index.map : slot_id[index.map[s].id] = s

\* No two tasks mutate one entry.
Exclusive ==
  \A q, r \in Procs : Mutating(q) /\ Mutating(r) /\ op[q].id = op[r].id => q = r

\* What a half-way mutation is about to tell the index is what the store holds.
HalfDone ==
  \A q \in Procs :
    /\ op[q].kind \in {"add", "update"} =>
         op[q].id \in DOMAIN entries /\ op[q].entry = entries[op[q].id]
    /\ op[q].kind = "delete" => op[q].id \notin DOMAIN entries

HoldsInIndex ==
  /\ \A s \in DOMAIN index.map :
       /\ InIndex(index.map[s].id)
       /\ Settled(index.map[s].id) =>
            /\ index.map[s].vector = entries[index.map[s].id].vector
            /\ index.map[s].vector \in Configured
  /\ \A id : InIndex(id) =>
       slot_id[id] \in DOMAIN index.map /\ index.map[slot_id[id]].id = id

MirrorInv ==
  /\ Shape
  /\ KeyedBySlot
  /\ ~raced => ~missing /\ Exclusive /\ HalfDone /\ (index.ready => HoldsInIndex)

-----------------------------------------------------------------------------
\* An index that is built is keyed by the slots of its entries.
LEMMA BuildKeyed ==
  ASSUME NEW map, NEW built, build_index(map) = Ready(built)
  PROVE  /\ built = [s \in DOMAIN built |-> [id |-> built[s].id, vector |-> built[s].vector]]
         /\ DOMAIN built = {slot_id[id] : id \in DOMAIN map}
         /\ \A s \in DOMAIN built :
              /\ built[s].id \in DOMAIN map
              /\ slot_id[built[s].id] = s
              /\ built[s].vector = map[built[s].id].vector
              /\ built[s].vector \in Configured
         /\ ~Collision(DOMAIN map)
  <1> DEFINE Found(s) == CHOOSE i \in DOMAIN map : slot_id[i] = s
             Slots == {slot_id[id] : id \in DOMAIN map}
  <1>1. /\ Ready(built) = Ready([s \in Slots |-> [id |-> Found(s), vector |-> map[Found(s)].vector]])
        /\ \A id \in DOMAIN map : map[id].vector \in Configured
        /\ ~Collision(DOMAIN map)
    BY DEF build_index, Ready, Unavailable
  <1>2. \A s \in Slots : Found(s) \in DOMAIN map /\ slot_id[Found(s)] = s
    OBVIOUS
  <1> HIDE DEF Found, Slots
  <1>3. built = [s \in Slots |-> [id |-> Found(s), vector |-> map[Found(s)].vector]]
    BY <1>1 DEF Ready
  <1>4. DOMAIN built = Slots
    BY <1>3
  <1>5. \A s \in Slots : built[s].id = Found(s) /\ built[s].vector = map[Found(s)].vector
    BY <1>3
  <1>6. [s \in Slots |-> [id |-> Found(s), vector |-> map[Found(s)].vector]]
          = [s \in Slots |-> [id |-> built[s].id, vector |-> built[s].vector]]
    BY <1>5
  <1>7. built = [s \in DOMAIN built |-> [id |-> built[s].id, vector |-> built[s].vector]]
    BY <1>3, <1>4, <1>6
  <1>8. QED
    BY <1>1, <1>2, <1>4, <1>5, <1>7 DEF Slots

\* What an index that opening has built is Ready with.
LEMMA BuildReady ==
  ASSUME NEW map, build_index(map).ready
  PROVE  build_index(map) = Ready(build_index(map).map)
  BY DEF build_index, Ready, Unavailable

\* With nothing half-way, opening yields an index that holds what it should.
LEMMA BuiltHolds ==
  (\A q \in Procs : op[q] = Idle) /\ index = build_index(entries) /\ index.ready
    => KeyedBySlot /\ HoldsInIndex
  <1> SUFFICES ASSUME \A q \in Procs : op[q] = Idle, index = build_index(entries), index.ready
               PROVE  KeyedBySlot /\ HoldsInIndex
    OBVIOUS
  <1> DEFINE map == index.map
  <1>1. build_index(entries) = Ready(map)
    BY BuildReady
  <1>2. \A id : InIndex(id) <=> id \in DOMAIN entries
    BY DEF InIndex, Adding, Deleting, Idle
  <1> HIDE DEF map
  <1>3. /\ map = [s \in DOMAIN map |-> [id |-> map[s].id, vector |-> map[s].vector]]
        /\ DOMAIN map = {slot_id[id] : id \in DOMAIN entries}
        /\ \A s \in DOMAIN map :
             /\ map[s].id \in DOMAIN entries
             /\ slot_id[map[s].id] = s
             /\ map[s].vector = entries[map[s].id].vector
             /\ map[s].vector \in Configured
        /\ ~Collision(DOMAIN entries)
    BY <1>1, BuildKeyed
  <1>4. index = Ready([s \in DOMAIN map |-> [id |-> map[s].id, vector |-> map[s].vector]])
    BY <1>1, <1>3
  <1>5. KeyedBySlot
    BY <1>3, <1>4 DEF KeyedBySlot, map
  <1>6. ASSUME NEW id, InIndex(id)
        PROVE  slot_id[id] \in DOMAIN map /\ map[slot_id[id]].id = id
    <2>1. id \in DOMAIN entries /\ slot_id[id] \in DOMAIN map
      BY <1>2, <1>3, <1>6
    <2>2. map[slot_id[id]].id \in DOMAIN entries /\ slot_id[map[slot_id[id]].id] = slot_id[id]
      BY <1>3, <2>1
    <2>3. QED
      BY <1>3, <2>1, <2>2 DEF Collision
  <1>7. QED
    BY <1>2, <1>3, <1>5, <1>6 DEF HoldsInIndex, map

\* And the other way: an index that holds what it should is the one opening would build.
LEMMA HoldsIsBuilt ==
  ASSUME \A q \in Procs : ~Mutating(q), index.ready, KeyedBySlot, HoldsInIndex
  PROVE  index = build_index(entries)
  <1>1. \A id : InIndex(id) <=> id \in DOMAIN entries
    BY DEF InIndex, Adding, Deleting, Mutating
  <1>2. \A id : Settled(id)
    BY DEF Settled
  <1>3. \A id \in DOMAIN entries :
          slot_id[id] \in DOMAIN index.map /\ index.map[slot_id[id]].id = id
    BY <1>1 DEF HoldsInIndex
  <1>4. \A s \in DOMAIN index.map :
          /\ index.map[s].id \in DOMAIN entries
          /\ slot_id[index.map[s].id] = s
          /\ index.map[s].vector = entries[index.map[s].id].vector
          /\ index.map[s].vector \in Configured
    BY <1>1, <1>2 DEF HoldsInIndex, KeyedBySlot
  <1>5. ~Collision(DOMAIN entries)
    BY <1>3 DEF Collision
  <1>6. \A id \in DOMAIN entries : entries[id].vector \in Configured
    BY <1>3, <1>4
  <1>7. DOMAIN index.map = {slot_id[id] : id \in DOMAIN entries}
    BY <1>3, <1>4
  <1> DEFINE Found(s) == CHOOSE i \in DOMAIN entries : slot_id[i] = s
  <1>8. \A s \in DOMAIN index.map : Found(s) = index.map[s].id
    <2> TAKE s \in DOMAIN index.map
    <2>1. Found(s) \in DOMAIN entries /\ slot_id[Found(s)] = s
      BY <1>4
    <2>2. QED
      BY <2>1, <1>3
  <1>9. build_index(entries) = Ready([s \in DOMAIN index.map |->
           [id |-> Found(s), vector |-> entries[Found(s)].vector]])
    BY <1>5, <1>6, <1>7 DEF build_index
  <1> HIDE DEF Found
  <1>10. [s \in DOMAIN index.map |-> [id |-> Found(s), vector |-> entries[Found(s)].vector]]
           = [s \in DOMAIN index.map |-> [id |-> index.map[s].id, vector |-> index.map[s].vector]]
    BY <1>4, <1>8
  <1>11. QED
    BY <1>9, <1>10 DEF KeyedBySlot

-----------------------------------------------------------------------------
LEMMA MirrorInit == Init => MirrorInv
  <1> SUFFICES ASSUME Init PROVE MirrorInv
    OBVIOUS
  <1>1. \A q \in Procs : op[q] = Idle /\ ~Mutating(q)
    BY DEF Init, Mutating, Idle
  <1>2. Shape
    BY DEF Init, Shape, NoEntries
  <1>3. index = build_index(entries)
    BY DEF Init
  <1>4. index.ready => KeyedBySlot /\ HoldsInIndex
    BY <1>1, <1>3, BuiltHolds
  <1>5. ~missing /\ Exclusive /\ HalfDone
    BY <1>1 DEF Init, Exclusive, HalfDone, Mutating
  <1>6. KeyedBySlot
    BY <1>4 DEF KeyedBySlot
  <1>7. QED
    BY <1>2, <1>4, <1>5, <1>6 DEF MirrorInv

\* The first half of a mutation.  If no other mutation of the entry is half-way,
\* what the index should hold is unchanged.
LEMMA BeginKeepsMirror ==
  ASSUME MirrorInv, NEW p \in Procs, NEW kind \in {"add", "update", "delete"},
         NEW id \in Ids, NEW entry, NEW map, Begin(p, kind, id, entry, map),
         DOMAIN map \subseteq Ids,
         \A i \in Ids \ {id} : i \in DOMAIN map <=> i \in DOMAIN entries,
         \A i \in DOMAIN entries \ {id} : map[i] = entries[i],
         kind \in {"add", "update"} => id \in DOMAIN map /\ map[id] = entry,
         kind = "delete" => id \notin DOMAIN map,
         kind = "add" <=> id \notin DOMAIN entries
  PROVE  MirrorInv'
  <1>1. /\ op[p] = Idle /\ entries' = map
        /\ op' = [op EXCEPT ![p] = [kind |-> kind, id |-> id, entry |-> entry]]
        /\ raced' = (raced \/ \E q \in Procs : Mutating(q) /\ op[q].id = id)
        /\ UNCHANGED <<slot_id, index, missing>>
    BY DEF Begin
  <1>2. /\ op'[p].kind = kind /\ op'[p].id = id /\ op'[p].entry = entry
        /\ \A q \in Procs \ {p} : op'[q] = op[q]
        /\ op' = [q \in Procs |-> op'[q]]
        /\ op[p].kind = "idle"
    BY <1>1 DEF MirrorInv, Shape, Idle
  <1>3. Shape'
    BY <1>1, <1>2 DEF MirrorInv, Shape
  <1>4. KeyedBySlot'
    BY <1>1 DEF MirrorInv, KeyedBySlot
  <1>5. CASE raced'
    BY <1>3, <1>4, <1>5 DEF MirrorInv
  <1>6. CASE ~raced'
    <2>1. ~raced /\ \A q \in Procs : Mutating(q) => op[q].id # id
      BY <1>1, <1>6 DEF MirrorInv, Shape
    <2>2. ~missing /\ Exclusive /\ HalfDone /\ (index.ready => HoldsInIndex)
      BY <2>1 DEF MirrorInv
    <2>3. Exclusive'
      BY <1>2, <2>1, <2>2 DEF Exclusive, Mutating
    <2>4. HalfDone'
      <3>1. ASSUME NEW q \in Procs
            PROVE  /\ op'[q].kind \in {"add", "update"} =>
                        op'[q].id \in DOMAIN map /\ op'[q].entry = map[op'[q].id]
                   /\ op'[q].kind = "delete" => op'[q].id \notin DOMAIN map
        <4>1. CASE q = p
          BY <4>1, <1>2
        <4>2. CASE q # p
          <5>1. op'[q] = op[q]
            BY <4>2, <1>2
          <5>2. Mutating(q) => op[q].id # id
            BY <2>1
          <5>3. DOMAIN entries \subseteq Ids
            BY DEF MirrorInv, Shape
          <5>4. QED
            BY <2>2, <5>1, <5>2, <5>3 DEF HalfDone, Mutating
        <4>3. QED
          BY <4>1, <4>2
      <3>2. QED
        BY <1>1, <3>1 DEF HalfDone
    <2>5. \A i : InIndex(i)' <=> InIndex(i)
      <3> TAKE i
      <3>1. CASE i = id
        <4>1. ~Adding(i) /\ ~Deleting(i)
          BY <2>1, <3>1 DEF Adding, Deleting, Mutating
        <4>2. Adding(i)' <=> kind = "add"
          BY <1>2, <2>1, <3>1 DEF Adding, Mutating
        <4>3. Deleting(i)' <=> kind = "delete"
          BY <1>2, <2>1, <3>1 DEF Deleting, Mutating
        <4>4. QED
          BY <1>1, <3>1, <4>1, <4>2, <4>3 DEF InIndex
      <3>2. CASE i # id
        <4>1. (Adding(i)' <=> Adding(i)) /\ (Deleting(i)' <=> Deleting(i))
          BY <1>2, <3>2 DEF Adding, Deleting
        <4>2. i \in DOMAIN map <=> i \in DOMAIN entries
          BY <3>2 DEF MirrorInv, Shape
        <4>3. QED
          BY <1>1, <4>1, <4>2 DEF InIndex
      <3>3. QED
        BY <3>1, <3>2
    <2>6. ASSUME NEW i, Settled(i)'
          PROVE  Settled(i) /\ i # id
      BY <1>2, <2>6 DEF Settled, Mutating
    <2>7. ASSUME index.ready, NEW s \in DOMAIN index.map, Settled(index.map[s].id)'
          PROVE  entries'[index.map[s].id] = entries[index.map[s].id]
      <3> DEFINE i == index.map[s].id
      <3>1. Settled(i) /\ i # id
        BY <1>1, <1>2, <2>7 DEF Settled, Mutating
      <3>2. InIndex(i)
        BY <2>2, <2>7 DEF HoldsInIndex
      <3>3. i \in DOMAIN entries
        BY <3>1, <3>2 DEF InIndex, Settled, Deleting, Mutating
      <3>4. QED
        BY <1>1, <3>1, <3>3 DEF MirrorInv, Shape
    <2>8. index.ready => HoldsInIndex'
      BY <1>1, <2>2, <2>5, <2>6, <2>7 DEF HoldsInIndex
    <2>9. QED
      BY <1>1, <1>3, <1>4, <2>2, <2>3, <2>4, <2>8 DEF MirrorInv
  <1>7. QED
    BY <1>5, <1>6

\* The task of a mutation is done; what changed is in the index only.
LEMMA EndKeepsShape ==
  ASSUME MirrorInv, NEW p \in Procs, End(p), missing' \in BOOLEAN
  PROVE  /\ Shape'
         /\ op'[p] = Idle /\ \A q \in Procs \ {p} : op'[q] = op[q]
         /\ ~raced' => Exclusive' /\ HalfDone'
  <1>1. /\ op' = [op EXCEPT ![p] = Idle] /\ UNCHANGED <<slot_id, entries, raced>>
        /\ op = [q \in Procs |-> op[q]]
    BY DEF End, MirrorInv, Shape
  <1>2. op'[p] = Idle /\ \A q \in Procs \ {p} : op'[q] = op[q]
    BY <1>1
  <1>3. op'[p].kind = "idle"
    BY <1>2 DEF Idle
  <1>4. Shape'
    BY <1>1 DEF MirrorInv, Shape
  <1>5. ASSUME ~raced'
        PROVE  Exclusive' /\ HalfDone'
    BY <1>1, <1>2, <1>3, <1>5 DEF MirrorInv, Exclusive, HalfDone, Mutating
  <1>6. QED
    BY <1>2, <1>4, <1>5

\* An index that has become unavailable promises nothing.
LEMMA UnavailableKeepsMirror ==
  ASSUME MirrorInv, NEW p \in Procs, End(p), index' = Unavailable,
         missing' \in BOOLEAN, ~raced => ~missing'
  PROVE  MirrorInv'
  <1>1. ~index'.ready
    BY DEF Unavailable
  <1>2. raced' = raced
    BY DEF End
  <1>3. QED
    BY <1>1, <1>2, EndKeepsShape DEF MirrorInv, KeyedBySlot

\* An index in which one entry was put stays keyed by slots.
LEMMA IndexedKeepsKeys ==
  ASSUME KeyedBySlot, index.ready, NEW o, index' = Indexed(o), slot_id' = slot_id
  PROVE  /\ KeyedBySlot'
         /\ index'.ready
         /\ DOMAIN index'.map = DOMAIN index.map \cup {slot_id[o.id]}
         /\ index'.map[slot_id[o.id]].id = o.id
         /\ index'.map[slot_id[o.id]].vector = o.entry.vector
         /\ \A s \in DOMAIN index.map \ {slot_id[o.id]} : index'.map[s] = index.map[s]
  <1> DEFINE slot == slot_id[o.id]
             new == [id |-> o.id, vector |-> o.entry.vector]
             map == index.map
             later == Put(map, slot, new)
  <1>1. index' = Ready(later)
    BY DEF Indexed
  <1>2. index'.ready /\ index'.map = later
    BY <1>1 DEF Ready
  <1>3. /\ DOMAIN later = DOMAIN map \cup {slot}
        /\ later[slot] = new
        /\ \A s \in DOMAIN map \ {slot} : later[s] = map[s]
        /\ later = [s \in DOMAIN later |-> later[s]]
    BY DEF Put
  <1>4. \A s \in DOMAIN map : map[s] = [id |-> map[s].id, vector |-> map[s].vector]
    BY DEF KeyedBySlot, Ready
  <1>5. new.id = o.id /\ new.vector = o.entry.vector
    OBVIOUS
  <1>6. new = [id |-> new.id, vector |-> new.vector]
    BY <1>5
  <1> HIDE DEF later, new
  <1>7. \A s \in DOMAIN later : later[s] = [id |-> later[s].id, vector |-> later[s].vector]
    BY <1>3, <1>4, <1>6
  <1>8. later = [s \in DOMAIN later |-> [id |-> later[s].id, vector |-> later[s].vector]]
    BY <1>3, <1>7
  <1>9. \A s \in DOMAIN later : slot_id[later[s].id] = s
    BY <1>3, <1>5 DEF KeyedBySlot
  <1>10. KeyedBySlot'
    BY <1>1, <1>2, <1>8, <1>9 DEF KeyedBySlot
  <1>11. QED
    BY <1>2, <1>3, <1>5, <1>10

\* The second half of an add or of an update that the index takes.
LEMMA IndexedKeepsMirror ==
  ASSUME MirrorInv, NEW p \in Procs, End(p), op[p].kind \in {"add", "update"}, index.ready,
         index' = Indexed(op[p]), op[p].entry.vector \in Configured,
         op[p].kind = "add" => slot_id[op[p].id] \notin DOMAIN index.map,
         missing' \in BOOLEAN, ~raced => ~missing'
  PROVE  MirrorInv'
  <1> DEFINE id == op[p].id
             slot == slot_id[id]
             AddingThen(i)   == \E q \in Procs : op'[q].kind = "add" /\ op'[q].id = i
             DeletingThen(i) == \E q \in Procs : op'[q].kind = "delete" /\ op'[q].id = i
             InIndexThen(i)  == (i \in DOMAIN entries' /\ ~AddingThen(i)) \/ DeletingThen(i)
  <1>1. /\ Shape' /\ op'[p] = Idle /\ \A q \in Procs \ {p} : op'[q] = op[q]
        /\ ~raced' => Exclusive' /\ HalfDone'
    BY EndKeepsShape
  <1>2. UNCHANGED <<slot_id, entries, raced>> /\ op'[p].kind = "idle"
    BY <1>1 DEF End, Idle
  <1>3. /\ KeyedBySlot' /\ index'.ready
        /\ DOMAIN index'.map = DOMAIN index.map \cup {slot}
        /\ index'.map[slot].id = id /\ index'.map[slot].vector = op[p].entry.vector
        /\ \A s \in DOMAIN index.map \ {slot} : index'.map[s] = index.map[s]
    BY <1>2, IndexedKeepsKeys DEF MirrorInv
  <1>4. ASSUME ~raced
        PROVE  HoldsInIndex'
    <2>1. Exclusive /\ HalfDone /\ HoldsInIndex
      BY <1>4 DEF MirrorInv
    <2>2. id \in DOMAIN entries /\ op[p].entry = entries[id]
      BY <2>1 DEF HalfDone
    <2>3. \A q \in Procs \ {p} : Mutating(q) => op[q].id # id
      BY <2>1 DEF Exclusive, Mutating
    <2>4. \A i : i # id => (InIndexThen(i) <=> InIndex(i))
      BY <1>1, <1>2 DEF Adding, Deleting, InIndex
    <2>5. InIndexThen(id)
      <3>1. ~AddingThen(id)
        BY <1>1, <1>2, <2>3 DEF Mutating
      <3>2. QED
        BY <1>2, <2>2, <3>1
    <2>6. ASSUME NEW i, i # id, InIndex(i)
          PROVE  slot_id[i] \in DOMAIN index.map /\ index.map[slot_id[i]].id = i
                 /\ slot_id[i] # slot
      <3>1. slot_id[i] \in DOMAIN index.map /\ index.map[slot_id[i]].id = i
        BY <2>1, <2>6 DEF HoldsInIndex
      <3>2. CASE op[p].kind = "add"
        BY <3>1, <3>2
      <3>3. CASE op[p].kind = "update"
        <4>1. InIndex(id)
          BY <2>2, <2>3, <3>3 DEF InIndex, Adding, Mutating
        <4>2. index.map[slot].id = id
          BY <2>1, <4>1 DEF HoldsInIndex
        <4>3. QED
          BY <2>6, <3>1, <4>2
      <3>4. QED
        BY <3>1, <3>2, <3>3
    <2>7. ASSUME NEW i, InIndexThen(i)
          PROVE  slot_id[i] \in DOMAIN index'.map /\ index'.map[slot_id[i]].id = i
      BY <1>3, <2>4, <2>6, <2>7
    <2>8. ASSUME NEW s \in DOMAIN index'.map
          PROVE  /\ InIndexThen(index'.map[s].id)
                 /\ (\A q \in Procs : Mutating(q)' => op'[q].id # index'.map[s].id) =>
                      /\ index'.map[s].vector = entries[index'.map[s].id].vector
                      /\ index'.map[s].vector \in Configured
      <3>1. CASE s = slot
        BY <1>3, <2>2, <2>5, <3>1
      <3>2. CASE s # slot
        <4>1. s \in DOMAIN index.map /\ index'.map[s] = index.map[s]
          BY <1>3, <2>8, <3>2
        <4>2. slot_id[index.map[s].id] = s
          BY <4>1 DEF MirrorInv, KeyedBySlot
        <4>3. index.map[s].id # id
          BY <3>2, <4>2
        <4>4. InIndex(index.map[s].id)
          BY <2>1, <4>1 DEF HoldsInIndex
        <4>5. InIndexThen(index'.map[s].id)
          BY <2>4, <4>1, <4>3, <4>4
        <4>6. ASSUME \A q \in Procs : Mutating(q)' => op'[q].id # index'.map[s].id
              PROVE  Settled(index.map[s].id)
          BY <1>1, <4>1, <4>3, <4>6 DEF Settled, Mutating
        <4>7. QED
          BY <2>1, <4>1, <4>5, <4>6 DEF HoldsInIndex
      <3>3. QED
        BY <3>1, <3>2
    <2>9. (\A i : InIndex(i) => slot_id[i] \in DOMAIN index.map /\ index.map[slot_id[i]].id = i)'
      BY <1>2, <2>7 DEF InIndex, Adding, Deleting
    <2>10. (\A s \in DOMAIN index.map :
              /\ InIndex(index.map[s].id)
              /\ Settled(index.map[s].id) =>
                   /\ index.map[s].vector = entries[index.map[s].id].vector
                   /\ index.map[s].vector \in Configured)'
      BY <1>2, <2>8 DEF InIndex, Adding, Deleting, Settled
    <2>11. QED
      BY <2>9, <2>10 DEF HoldsInIndex
  <1>5. QED
    BY <1>1, <1>2, <1>3, <1>4 DEF MirrorInv

\* The second half of a delete: the slot is the entry's own, so that no other
\* entry loses its place.
LEMMA IndexDeleteKeepsMirror ==
  ASSUME MirrorInv, NEW p \in Procs, IndexDelete(p)
  PROVE  MirrorInv'
  <1> DEFINE id == op[p].id
             slot == slot_id[id]
             AddingThen(i)   == \E q \in Procs : op'[q].kind = "add" /\ op'[q].id = i
             DeletingThen(i) == \E q \in Procs : op'[q].kind = "delete" /\ op'[q].id = i
             InIndexThen(i)  == (i \in DOMAIN entries' /\ ~AddingThen(i)) \/ DeletingThen(i)
             later == Without(index.map, slot)
  <1>1. /\ op[p].kind = "delete" /\ index.ready /\ index' = Ready(later)
        /\ End(p) /\ UNCHANGED missing
    BY DEF IndexDelete
  <1>2. /\ Shape' /\ op'[p] = Idle /\ \A q \in Procs \ {p} : op'[q] = op[q]
        /\ ~raced' => Exclusive' /\ HalfDone'
    BY <1>1, EndKeepsShape DEF MirrorInv, Shape
  <1>3. UNCHANGED <<slot_id, entries, raced>> /\ op'[p].kind = "idle"
    BY <1>1, <1>2 DEF End, Idle
  <1>4. index'.ready /\ index'.map = later
    BY <1>1 DEF Ready
  <1>5. /\ DOMAIN later = DOMAIN index.map \ {slot}
        /\ \A s \in DOMAIN later : later[s] = index.map[s]
        /\ later = [s \in DOMAIN later |-> later[s]]
    BY DEF Without
  <1>6. KeyedBySlot'
    <2>1. /\ \A s \in DOMAIN index.map :
               /\ index.map[s] = [id |-> index.map[s].id, vector |-> index.map[s].vector]
               /\ slot_id[index.map[s].id] = s
      BY <1>1 DEF MirrorInv, KeyedBySlot, Ready
    <2> HIDE DEF later
    <2>2. \A s \in DOMAIN later : later[s] = [id |-> later[s].id, vector |-> later[s].vector]
      BY <1>5, <2>1
    <2>3. later = [s \in DOMAIN later |-> [id |-> later[s].id, vector |-> later[s].vector]]
      BY <1>5, <2>2
    <2>4. \A s \in DOMAIN later : slot_id[later[s].id] = s
      BY <1>5, <2>1
    <2>5. QED
      BY <1>1, <1>3, <1>4, <2>3, <2>4 DEF KeyedBySlot
  <1>7. ASSUME ~raced
        PROVE  HoldsInIndex'
    <2>1. Exclusive /\ HalfDone /\ HoldsInIndex
      BY <1>1, <1>7 DEF MirrorInv
    <2>2. id \notin DOMAIN entries
      BY <1>1, <2>1 DEF HalfDone
    <2>3. \A q \in Procs \ {p} : Mutating(q) => op[q].id # id
      BY <1>1, <2>1 DEF Exclusive, Mutating
    <2>4. \A i : i # id => (InIndexThen(i) <=> InIndex(i))
      BY <1>2, <1>3 DEF Adding, Deleting, InIndex
    <2>5. ~InIndexThen(id)
      <3>1. ~DeletingThen(id)
        BY <1>2, <1>3, <2>3 DEF Mutating
      <3>2. QED
        BY <1>3, <2>2, <3>1
    <2>6. index.map[slot].id = id
      <3>1. InIndex(id)
        BY <1>1 DEF InIndex, Deleting
      <3>2. QED
        BY <2>1, <3>1 DEF HoldsInIndex
    <2> HIDE DEF later
    <2>7. ASSUME NEW i, InIndexThen(i)
          PROVE  slot_id[i] \in DOMAIN later /\ later[slot_id[i]].id = i
      <3>1. i # id /\ InIndex(i)
        BY <2>4, <2>5, <2>7
      <3>2. slot_id[i] \in DOMAIN index.map /\ index.map[slot_id[i]].id = i
        BY <2>1, <3>1 DEF HoldsInIndex
      <3>3. QED
        BY <1>5, <2>6, <3>1, <3>2
    <2>8. ASSUME NEW s \in DOMAIN later
          PROVE  /\ InIndexThen(later[s].id)
                 /\ (\A q \in Procs : Mutating(q)' => op'[q].id # later[s].id) =>
                      /\ later[s].vector = entries[later[s].id].vector
                      /\ later[s].vector \in Configured
      <3>1. s \in DOMAIN index.map /\ s # slot /\ later[s] = index.map[s]
        BY <1>5, <2>8
      <3>2. index.map[s].id # id
        BY <1>1, <3>1 DEF MirrorInv, KeyedBySlot
      <3>3. InIndexThen(later[s].id)
        BY <2>1, <2>4, <3>1, <3>2 DEF HoldsInIndex
      <3>4. ASSUME \A q \in Procs : Mutating(q)' => op'[q].id # later[s].id
            PROVE  Settled(index.map[s].id)
        BY <1>2, <3>1, <3>2, <3>4 DEF Settled, Mutating
      <3>5. QED
        BY <2>1, <3>1, <3>3, <3>4 DEF HoldsInIndex
    <2>9. (\A i : InIndex(i) => slot_id[i] \in DOMAIN index.map /\ index.map[slot_id[i]].id = i)'
      BY <1>3, <1>4, <2>7 DEF InIndex, Adding, Deleting
    <2>10. (\A s \in DOMAIN index.map :
              /\ InIndex(index.map[s].id)
              /\ Settled(index.map[s].id) =>
                   /\ index.map[s].vector = entries[index.map[s].id].vector
                   /\ index.map[s].vector \in Configured)'
      BY <1>3, <1>4, <2>8 DEF InIndex, Adding, Deleting, Settled
    <2>11. QED
      BY <2>9, <2>10 DEF HoldsInIndex
  <1>8. QED
    BY <1>1, <1>2, <1>3, <1>6, <1>7 DEF MirrorInv

\* A task that was not mutating and is not now says nothing about the index.
LEMMA SearchKeepsMirror ==
  ASSUME MirrorInv, NEW p \in Procs, op' = [op EXCEPT ![p] = op'[p]],
         ~Mutating(p), ~Mutating(p)',
         UNCHANGED <<slot_id, entries, index, missing, raced>>
  PROVE  MirrorInv'
  <1>1. op' = [q \in Procs |-> op'[q]] /\ \A q \in Procs \ {p} : op'[q] = op[q]
    BY DEF MirrorInv, Shape
  <1>2. Shape' /\ KeyedBySlot'
    BY <1>1 DEF MirrorInv, Shape, KeyedBySlot
  <1>3. \A q \in Procs : /\ Mutating(q)' <=> Mutating(q)
                         /\ Mutating(q) => op'[q] = op[q]
                         /\ op'[q].kind = "add" <=> op[q].kind = "add"
                         /\ op'[q].kind = "delete" <=> op[q].kind = "delete"
    BY <1>1 DEF Mutating
  <1>4. ASSUME ~raced
        PROVE  Exclusive' /\ HalfDone'
    BY <1>1, <1>3, <1>4 DEF MirrorInv, Exclusive, HalfDone, Mutating
  <1>5. \A i : (InIndex(i)' <=> InIndex(i)) /\ (Settled(i)' <=> Settled(i))
    BY <1>1, <1>3 DEF InIndex, Adding, Deleting, Settled, Mutating
  <1>6. ASSUME HoldsInIndex
        PROVE  HoldsInIndex'
    <2>1. (\A i : InIndex(i) => slot_id[i] \in DOMAIN index.map /\ index.map[slot_id[i]].id = i)'
      BY <1>5, <1>6 DEF HoldsInIndex
    <2>2. (\A s \in DOMAIN index.map : InIndex(index.map[s].id))'
      BY <1>5, <1>6 DEF HoldsInIndex, InIndex, Adding, Deleting
    <2>3. (\A s \in DOMAIN index.map : Settled(index.map[s].id) =>
             /\ index.map[s].vector = entries[index.map[s].id].vector
             /\ index.map[s].vector \in Configured)'
      BY <1>3, <1>6 DEF HoldsInIndex, Settled
    <2>4. QED
      BY <2>1, <2>2, <2>3 DEF HoldsInIndex
  <1>7. QED
    BY <1>2, <1>4, <1>6 DEF MirrorInv

-----------------------------------------------------------------------------
LEMMA MutationKeepsMirror ==
  ASSUME MirrorInv, NEW p \in Procs, Mutation(p)
  PROVE  MirrorInv'
  <1>1. PICK id \in Ids : delete(p, id) \/ \E entry \in Entries : add(p, id, entry) \/ update(p, id, entry)
    BY DEF Mutation
  <1>2. DOMAIN entries \subseteq Ids
    BY DEF MirrorInv, Shape
  <1>3. CASE delete(p, id)
    <2> DEFINE map == Without(entries, id)
    <2>1. id \in DOMAIN entries /\ Begin(p, "delete", id, entries[id], map)
      BY <1>3 DEF delete
    <2>2. DOMAIN map = DOMAIN entries \ {id} /\ \A i \in DOMAIN map : map[i] = entries[i]
      BY DEF Without
    <2>3. \A i \in Ids \ {id} : i \in DOMAIN map <=> i \in DOMAIN entries
      BY <2>2
    <2> HIDE DEF map
    <2>4. QED
      BY <1>2, <2>1, <2>2, <2>3, BeginKeepsMirror
  <1>4. ASSUME NEW entry \in Entries, add(p, id, entry) \/ update(p, id, entry)
        PROVE  MirrorInv'
    <2> DEFINE map == Put(entries, id, entry)
    <2>1. DOMAIN map = DOMAIN entries \cup {id} /\ map[id] = entry
          /\ \A i \in DOMAIN entries \ {id} : map[i] = entries[i]
      BY DEF Put
    <2>2. \A i \in Ids \ {id} : i \in DOMAIN map <=> i \in DOMAIN entries
      BY <2>1
    <2>3. CASE add(p, id, entry)
      <3>1. id \notin DOMAIN entries /\ Begin(p, "add", id, entry, map)
        BY <2>3 DEF add
      <3> HIDE DEF map
      <3>2. QED
        BY <1>2, <2>1, <2>2, <3>1, BeginKeepsMirror
    <2>4. CASE update(p, id, entry)
      <3>1. id \in DOMAIN entries /\ Begin(p, "update", id, entry, map)
        BY <2>4 DEF update
      <3> HIDE DEF map
      <3>2. QED
        BY <1>2, <2>1, <2>2, <3>1, BeginKeepsMirror
    <2>5. QED
      BY <1>4, <2>3, <2>4
  <1>5. QED
    BY <1>1, <1>3, <1>4

LEMMA IndexingKeepsMirror ==
  ASSUME MirrorInv, NEW p \in Procs, Indexing(p)
  PROVE  MirrorInv'
  <1>1. missing \in BOOLEAN /\ raced \in BOOLEAN /\ (~raced => ~missing)
    BY DEF MirrorInv, Shape
  <1>2. CASE IndexAdd(p)
    <2>1. op[p].kind = "add" /\ index.ready /\ End(p) /\ UNCHANGED missing
      BY <1>2 DEF IndexAdd
    <2>2. CASE op[p].entry.vector \in Configured /\ slot_id[op[p].id] \notin DOMAIN index.map
      <3>1. index' = Indexed(op[p])
        BY <1>2, <2>2 DEF IndexAdd
      <3>2. QED
        BY <1>1, <2>1, <2>2, <3>1, IndexedKeepsMirror
    <2>3. CASE ~(op[p].entry.vector \in Configured /\ slot_id[op[p].id] \notin DOMAIN index.map)
      <3>1. index' = Unavailable
        BY <1>2, <2>3 DEF IndexAdd
      <3>2. QED
        BY <1>1, <2>1, <3>1, UnavailableKeepsMirror
    <2>4. QED
      BY <2>2, <2>3
  <1>3. CASE IndexUpdate(p)
    <2> DEFINE present == slot_id[op[p].id] \in DOMAIN index.map
    <2>1. op[p].kind = "update" /\ index.ready /\ End(p) /\ missing' = (missing \/ ~present)
      BY <1>3 DEF IndexUpdate
    <2>2. missing' \in BOOLEAN
      BY <2>1
    <2>3. ASSUME ~raced
          PROVE  present /\ ~missing'
      <3>1. Exclusive /\ HalfDone /\ HoldsInIndex
        BY <2>1, <2>3 DEF MirrorInv
      <3>2. InIndex(op[p].id)
        BY <2>1, <3>1 DEF InIndex, Adding, Exclusive, HalfDone, Mutating
      <3>3. present
        BY <3>1, <3>2 DEF HoldsInIndex
      <3>4. QED
        BY <1>1, <2>1, <2>3, <3>3
    <2>4. CASE present /\ op[p].entry.vector \in Configured
      <3>1. index' = Indexed(op[p])
        BY <1>3, <2>4 DEF IndexUpdate
      <3>2. QED
        BY <2>1, <2>2, <2>3, <2>4, <3>1, IndexedKeepsMirror
    <2>5. CASE ~(present /\ op[p].entry.vector \in Configured)
      <3>1. index' = Unavailable
        BY <1>3, <2>5 DEF IndexUpdate
      <3>2. QED
        BY <2>1, <2>2, <2>3, <3>1, UnavailableKeepsMirror
    <2>6. QED
      BY <2>4, <2>5
  <1>4. CASE IndexDelete(p)
    BY <1>4, IndexDeleteKeepsMirror
  <1>5. CASE IndexUnavailable(p)
    <2>1. ~index.ready /\ End(p) /\ UNCHANGED <<index, missing>>
      BY <1>5 DEF IndexUnavailable
    <2>2. raced' = raced
      BY <2>1 DEF End
    <2>3. QED
      BY <1>1, <2>1, <2>2, EndKeepsShape DEF MirrorInv, KeyedBySlot
  <1>6. CASE Drop(p)
    <2>1. /\ op' = [op EXCEPT ![p] = Idle] /\ raced' = (raced \/ Mutating(p))
          /\ UNCHANGED <<slot_id, entries, index, missing>>
          /\ op[p].kind \in {"add", "update", "delete", "fallback"}
      BY <1>6 DEF Drop
    <2>2. CASE Mutating(p)
      <3>1. raced'
        BY <2>1, <2>2
      <3>2. Shape' /\ KeyedBySlot'
        BY <2>1, <3>1 DEF MirrorInv, Shape, KeyedBySlot
      <3>3. QED
        BY <3>1, <3>2 DEF MirrorInv
    <2>3. CASE ~Mutating(p)
      <3>1. raced' = raced
        BY <1>1, <2>1, <2>3
      <3>2. op'[p] = Idle /\ op' = [op EXCEPT ![p] = op'[p]]
        BY <2>1 DEF MirrorInv, Shape
      <3>3. ~Mutating(p)'
        BY <3>2 DEF Mutating, Idle
      <3>4. QED
        BY <2>1, <2>3, <3>1, <3>2, <3>3, SearchKeepsMirror
    <2>4. QED
      BY <2>2, <2>3
  <1>7. QED
    BY <1>2, <1>3, <1>4, <1>5, <1>6 DEF Indexing

\* What a search of the index finds at the slots it is given.
FoundAt(slots) ==
  LET live == {s \in slots : index.map[s].id \in DOMAIN entries}
  IN  {Result(index.map[s].id, index.map[s].vector) : s \in live}

LEMMA IndexSearchFinds ==
  ASSUME MirrorInv, NEW p \in Procs, NEW workspace, NEW limit, IndexSearch(p, workspace, limit)
  PROVE  \E slots \in SUBSET (Allowed(workspace) \cap DOMAIN index.map) :
           op' = [op EXCEPT ![p] = [kind |-> "searched", workspace |-> workspace, limit |-> limit,
                                    plain |-> TRUE, found |-> FoundAt(slots)]]
  BY DEF IndexSearch, FoundAt

\* What a search of the reference store finds.
LEMMA ReferenceSearchFinds ==
  ASSUME MirrorInv, NEW p \in Procs, ReferenceSearch(p)
  PROVE  \E ids \in SUBSET InWorkspace(op[p].workspace) :
           op' = [op EXCEPT ![p] =
                    [kind |-> "searched", workspace |-> op[p].workspace, limit |-> op[p].limit,
                     plain |-> op[p].plain, found |-> {Result(id, entries[id].vector) : id \in ids}]]
  <1>1. p \in DOMAIN op
    BY DEF MirrorInv, Shape
  <1>2. QED
    BY <1>1 DEF ReferenceSearch

LEMMA SearchingKeepsMirror ==
  ASSUME MirrorInv, NEW p \in Procs, Search(p)
  PROVE  MirrorInv'
  <1>1. ASSUME NEW workspace, NEW limit, IndexSearch(p, workspace, limit)
        PROVE  MirrorInv'
    <2>1. PICK slots :
            op' = [op EXCEPT ![p] = [kind |-> "searched", workspace |-> workspace, limit |-> limit,
                                     plain |-> TRUE, found |-> FoundAt(slots)]]
      BY <1>1, IndexSearchFinds
    <2>2. op'[p].kind = "searched" /\ op' = [op EXCEPT ![p] = op'[p]]
      BY <2>1 DEF MirrorInv, Shape
    <2>3. op[p] = Idle /\ UNCHANGED <<slot_id, entries, index, missing, raced>>
      BY <1>1 DEF IndexSearch
    <2>4. ~Mutating(p) /\ ~Mutating(p)'
      BY <2>2, <2>3 DEF Mutating, Idle
    <2>5. QED
      BY <2>2, <2>3, <2>4, SearchKeepsMirror
  <1>2. ASSUME NEW workspace, NEW limit, NEW plain, FallBack(p, workspace, limit, plain)
        PROVE  MirrorInv'
    <2>1. op' = [op EXCEPT ![p] =
                   [kind |-> "fallback", workspace |-> workspace, limit |-> limit, plain |-> plain]]
          /\ op[p] = Idle /\ UNCHANGED <<slot_id, entries, index, missing, raced>>
      BY <1>2 DEF FallBack
    <2>2. op'[p].kind = "fallback" /\ op' = [op EXCEPT ![p] = op'[p]]
      BY <2>1 DEF MirrorInv, Shape
    <2>3. ~Mutating(p) /\ ~Mutating(p)'
      BY <2>1, <2>2 DEF Mutating, Idle
    <2>4. QED
      BY <2>1, <2>2, <2>3, SearchKeepsMirror
  <1>3. CASE ReferenceSearch(p)
    <2>1. PICK ids :
            op' = [op EXCEPT ![p] =
                     [kind |-> "searched", workspace |-> op[p].workspace, limit |-> op[p].limit,
                      plain |-> op[p].plain, found |-> {Result(id, entries[id].vector) : id \in ids}]]
      BY <1>3, ReferenceSearchFinds
    <2>2. op'[p].kind = "searched" /\ op' = [op EXCEPT ![p] = op'[p]]
      BY <2>1 DEF MirrorInv, Shape
    <2>3. op[p].kind = "fallback" /\ UNCHANGED <<slot_id, entries, index, missing, raced>>
      BY <1>3 DEF ReferenceSearch
    <2>4. ~Mutating(p) /\ ~Mutating(p)'
      BY <2>2, <2>3 DEF Mutating
    <2>5. QED
      BY <2>2, <2>3, <2>4, SearchKeepsMirror
  <1>4. CASE Return(p)
    <2>1. op[p].kind = "searched" /\ op' = [op EXCEPT ![p] = Idle]
          /\ UNCHANGED <<slot_id, entries, index, missing, raced>>
      BY <1>4 DEF Return
    <2>2. op'[p].kind = "idle" /\ op' = [op EXCEPT ![p] = op'[p]]
      BY <2>1 DEF MirrorInv, Shape, Idle
    <2>3. ~Mutating(p) /\ ~Mutating(p)'
      BY <2>1, <2>2 DEF Mutating
    <2>4. QED
      BY <2>1, <2>2, <2>3, SearchKeepsMirror
  <1>5. QED
    BY <1>1, <1>2, <1>3, <1>4 DEF Search

LEMMA MirrorStep == MirrorInv /\ [Next]_vars => MirrorInv'
  <1> SUFFICES ASSUME MirrorInv, [Next]_vars PROVE MirrorInv'
    OBVIOUS
  <1>1. CASE open
    <2>1. /\ \A q \in Procs : op[q] = Idle
          /\ index' = build_index(entries) /\ UNCHANGED <<slot_id, entries, op, missing, raced>>
      BY <1>1 DEF open
    <2>2. (\A q \in Procs : op[q] = Idle)' /\ (index = build_index(entries))'
      BY <2>1 DEF build_index, Collision, Ready, Unavailable
    <2>3. (index.ready => KeyedBySlot /\ HoldsInIndex)'
      BY <2>2, BuiltHolds, PTL
    <2>4. KeyedBySlot'
      BY <2>3 DEF KeyedBySlot
    <2>5. QED
      BY <2>1, <2>3, <2>4 DEF MirrorInv, Shape, Exclusive, HalfDone, Mutating
  <1>2. ASSUME NEW p \in Procs, Mutation(p) \/ Indexing(p) \/ Search(p)
        PROVE  MirrorInv'
    BY <1>2, MutationKeepsMirror, IndexingKeepsMirror, SearchingKeepsMirror
  <1>3. CASE UNCHANGED vars
    <2>1. UNCHANGED <<slot_id, entries, index, op, missing, raced>>
      BY <1>3 DEF vars
    <2>2. QED
      BY <2>1 DEF MirrorInv, Shape, KeyedBySlot, Exclusive, HalfDone, HoldsInIndex, InIndex,
                  Adding, Deleting, Settled, Mutating
  <1>4. QED
    BY <1>1, <1>2, <1>3 DEF Next

-----------------------------------------------------------------------------
\* The relation between store and index holds in every state, whatever tasks
\* overlap and whichever operations are dropped half-way.
THEOREM MirrorInvariance == Spec => []MirrorInv
  <1>1. Init => MirrorInv
    BY MirrorInit
  <1>2. MirrorInv /\ [Next]_vars => MirrorInv'
    BY MirrorStep
  <1>3. QED
    BY <1>1, <1>2, PTL DEF Spec

\* As long as no two mutations of one entry overlap, an update finds its entry,
\* and a ready index with nothing half-way is the one opening the store would build.
THEOREM MirrorCorrect == Spec => []MirrorsWithoutRaces
  <1>1. MirrorInv => MirrorsWithoutRaces
    BY HoldsIsBuilt DEF MirrorInv, MirrorsWithoutRaces
  <1>2. QED
    BY <1>1, MirrorInvariance, PTL

-----------------------------------------------------------------------------
\* Only a search, of the index or of the reference store, leaves a task with results.
LEMMA SearchedBySearch ==
  ASSUME MirrorInv, Next, NEW p \in Procs, Searched(p)
  PROVE  \/ ReferenceSearch(p)
         \/ \E workspace \in Workspaces, limit \in Limits : IndexSearch(p, workspace, limit)
  <1>1. op = [r \in Procs |-> op[r]] /\ op[p].kind # "searched" /\ op'[p].kind = "searched"
    BY DEF MirrorInv, Shape, Searched
  <1>2. ASSUME NEW q \in Procs, NEW o, op' = [op EXCEPT ![q] = o], o.kind # "searched"
        PROVE  FALSE
    <2>1. op'[p] = IF p = q THEN o ELSE op[p]
      BY <1>1, <1>2
    <2>2. QED
      BY <1>1, <1>2, <2>1
  <1>3. ~open
    BY <1>1 DEF open
  <1>4. ASSUME NEW q \in Procs
        PROVE  ~Mutation(q) /\ ~Indexing(q) /\ ~Return(q)
               /\ \A workspace, limit, plain : ~FallBack(q, workspace, limit, plain)
    <2>1. ASSUME NEW kind, NEW id, NEW entry, NEW map, Begin(q, kind, id, entry, map),
                 kind # "searched"
          PROVE  FALSE
      <3>1. op' = [op EXCEPT ![q] = [kind |-> kind, id |-> id, entry |-> entry]]
        BY <2>1 DEF Begin
      <3>2. op'[p].kind # "searched"
        BY <1>1, <2>1, <3>1
      <3>3. QED
        BY <1>1, <3>2
    <2>2. ~Mutation(q)
      <3>1. ASSUME NEW id, delete(q, id) PROVE FALSE
        <4>1. Begin(q, "delete", id, entries[id], Without(entries, id))
          BY <3>1 DEF delete
        <4>2. QED
          BY <2>1, <4>1
      <3>2. ASSUME NEW id, NEW entry, add(q, id, entry) PROVE FALSE
        <4>1. Begin(q, "add", id, entry, Put(entries, id, entry))
          BY <3>2 DEF add
        <4>2. QED
          BY <2>1, <4>1
      <3>3. ASSUME NEW id, NEW entry, update(q, id, entry) PROVE FALSE
        <4>1. Begin(q, "update", id, entry, Put(entries, id, entry))
          BY <3>3 DEF update
        <4>2. QED
          BY <2>1, <4>1
      <3>4. QED
        BY <3>1, <3>2, <3>3 DEF Mutation
    <2>3. op' # [op EXCEPT ![q] = Idle]
      <3>1. Idle.kind # "searched"
        BY DEF Idle
      <3>2. QED
        BY <1>1, <3>1
    <2>4. ~Indexing(q) /\ ~Return(q)
      BY <2>3 DEF Indexing, IndexAdd, IndexUpdate, IndexDelete, IndexUnavailable, Drop, End, Return
    <2>5. ASSUME NEW workspace, NEW limit, NEW plain, FallBack(q, workspace, limit, plain)
          PROVE  FALSE
      <3>1. op' = [op EXCEPT ![q] =
                     [kind |-> "fallback", workspace |-> workspace, limit |-> limit, plain |-> plain]]
        BY <2>5 DEF FallBack
      <3>2. op'[p].kind # "searched"
        BY <1>1, <3>1
      <3>3. QED
        BY <1>1, <3>2
    <2>6. QED
      BY <2>2, <2>4, <2>5
  <1>5. PICK q \in Procs : Search(q)
    BY <1>3, <1>4 DEF Next
  <1>6. CASE ReferenceSearch(q)
    <2>1. PICK ids :
            op' = [op EXCEPT ![q] =
                     [kind |-> "searched", workspace |-> op[q].workspace, limit |-> op[q].limit,
                      plain |-> op[q].plain, found |-> {Result(id, entries[id].vector) : id \in ids}]]
      BY <1>6, ReferenceSearchFinds
    <2>2. q = p
      BY <1>1, <2>1
    <2>3. QED
      BY <1>6, <2>2
  <1>7. ASSUME NEW workspace \in Workspaces, NEW limit \in Limits, IndexSearch(q, workspace, limit)
        PROVE  IndexSearch(p, workspace, limit)
    <2>1. PICK slots :
            op' = [op EXCEPT ![q] = [kind |-> "searched", workspace |-> workspace, limit |-> limit,
                                     plain |-> TRUE, found |-> FoundAt(slots)]]
      BY <1>7, IndexSearchFinds
    <2>2. q = p
      BY <1>1, <2>1
    <2>3. QED
      BY <1>7, <2>2
  <1>8. QED
    BY <1>4, <1>5, <1>6, <1>7 DEF Search

\* What a result of either search is: an entry of the workspace, or one whose
\* slot is that of an entry of the workspace; and the vector it is scored by.
LEMMA ResultOfSearch ==
  ASSUME MirrorInv, Next, NEW p \in Procs, Searched(p), NEW result \in op'[p].found
  PROVE  /\ result.entry = entries[result.id]
         /\ \/ result.id \in InWorkspace(op'[p].workspace) /\ result.vector = result.entry.vector
            \/ /\ index.ready
               /\ \E id \in InWorkspace(op'[p].workspace) : slot_id[id] = slot_id[result.id]
               /\ \E s \in DOMAIN index.map :
                    result.id = index.map[s].id /\ result.vector = index.map[s].vector
  <1>1. CASE ReferenceSearch(p)
    <2>1. PICK ids \in SUBSET InWorkspace(op[p].workspace) :
            op' = [op EXCEPT ![p] =
                     [kind |-> "searched", workspace |-> op[p].workspace, limit |-> op[p].limit,
                      plain |-> op[p].plain, found |-> {Result(id, entries[id].vector) : id \in ids}]]
      BY <1>1, ReferenceSearchFinds
    <2>2. op'[p].workspace = op[p].workspace /\ op'[p].found = {Result(id, entries[id].vector) : id \in ids}
      BY <2>1 DEF MirrorInv, Shape
    <2>3. PICK id \in ids : result = Result(id, entries[id].vector)
      BY <2>2
    <2>4. result.id = id /\ result.entry = entries[id] /\ result.vector = entries[id].vector
      BY <2>3 DEF Result
    <2>5. QED
      BY <2>2, <2>3, <2>4
  <1>2. ASSUME NEW workspace, NEW limit, IndexSearch(p, workspace, limit)
        PROVE  /\ result.entry = entries[result.id]
               /\ index.ready
               /\ \E id \in InWorkspace(op'[p].workspace) : slot_id[id] = slot_id[result.id]
               /\ \E s \in DOMAIN index.map :
                    result.id = index.map[s].id /\ result.vector = index.map[s].vector
    <2>1. PICK slots \in SUBSET (Allowed(workspace) \cap DOMAIN index.map) :
            op' = [op EXCEPT ![p] = [kind |-> "searched", workspace |-> workspace, limit |-> limit,
                                     plain |-> TRUE, found |-> FoundAt(slots)]]
      BY <1>2, IndexSearchFinds
    <2>2. op'[p].workspace = workspace /\ op'[p].found = FoundAt(slots)
      BY <2>1 DEF MirrorInv, Shape
    <2>3. PICK s \in slots : result = Result(index.map[s].id, index.map[s].vector)
      BY <2>2 DEF FoundAt
    <2>4. /\ result.id = index.map[s].id /\ result.entry = entries[index.map[s].id]
          /\ result.vector = index.map[s].vector
      BY <2>3 DEF Result
    <2>5. index.ready
      BY <1>2 DEF IndexSearch
    <2>6. slot_id[result.id] = s /\ s \in DOMAIN index.map
      BY <2>4, <2>5 DEF MirrorInv, KeyedBySlot
    <2>7. \E id \in InWorkspace(workspace) : slot_id[id] = s
      BY DEF Allowed
    <2>8. QED
      BY <2>2, <2>4, <2>5, <2>6, <2>7
  <1>3. QED
    BY <1>1, <1>2, SearchedBySearch

\* No search returns an entry of another workspace, unless two ids share a slot.
THEOREM SearchStaysInWorkspace == Spec => WorkspaceRespected
  <1>1. ASSUME MirrorInv, Next, NEW p \in Procs, Searched(p), NEW result \in op'[p].found
        PROVE  \/ result.entry.workspace = op'[p].workspace
               \/ \E id \in Ids \ {result.id} : slot_id[id] = slot_id[result.id]
    <2>1. PICK id \in InWorkspace(op'[p].workspace) :
            id = result.id \/ slot_id[id] = slot_id[result.id]
      BY <1>1, ResultOfSearch
    <2>2. id \in Ids /\ entries[id].workspace = op'[p].workspace
      BY <1>1 DEF InWorkspace, MirrorInv, Shape
    <2>3. result.entry = entries[result.id]
      BY <1>1, ResultOfSearch
    <2>4. QED
      BY <2>1, <2>2, <2>3
  <1> DEFINE Respects ==
        \A p \in Procs : Searched(p) =>
          \A result \in op'[p].found :
            \/ result.entry.workspace = op'[p].workspace
            \/ \E id \in Ids \ {result.id} : slot_id[id] = slot_id[result.id]
  <1>2. MirrorInv /\ [Next]_vars => [Respects]_vars
    BY <1>1
  <1>3. Spec => [][Respects]_vars
    BY <1>2, MirrorInvariance, PTL DEF Spec
  <1>4. QED
    BY <1>3 DEF WorkspaceRespected

\* A result is scored by the vector of the entry it comes with, unless that
\* entry is being mutated.
THEOREM ScoresBelongToEntries == Spec => ScoredByOwnVector
  <1>1. ASSUME MirrorInv, Next, ~raced, NEW p \in Procs, Searched(p), NEW result \in op'[p].found
        PROVE  \/ result.vector = result.entry.vector
               \/ \E q \in Procs : Mutating(q) /\ op[q].id = result.id
    <2>1. CASE result.vector = result.entry.vector
      BY <2>1
    <2>2. CASE result.vector # result.entry.vector
      <3>1. /\ index.ready /\ result.entry = entries[result.id]
            /\ \E s \in DOMAIN index.map :
                 result.id = index.map[s].id /\ result.vector = index.map[s].vector
        BY <1>1, <2>2, ResultOfSearch
      <3>2. HoldsInIndex
        BY <1>1, <3>1 DEF MirrorInv
      <3>3. ~Settled(result.id)
        BY <2>2, <3>1, <3>2 DEF HoldsInIndex
      <3>4. QED
        BY <3>3 DEF Settled
    <2>3. QED
      BY <2>1, <2>2
  <1> DEFINE Scored ==
        ~raced => \A p \in Procs : Searched(p) => \A result \in op'[p].found :
          \/ result.vector = result.entry.vector
          \/ \E q \in Procs : Mutating(q) /\ op[q].id = result.id
  <1>2. MirrorInv /\ [Next]_vars => [Scored]_vars
    BY <1>1
  <1>3. Spec => [][Scored]_vars
    BY <1>2, MirrorInvariance, PTL DEF Spec
  <1>4. QED
    BY <1>3 DEF ScoredByOwnVector

-----------------------------------------------------------------------------
(* A search misses nothing, said in numbers of results. *)

\* The store is finite, and the index knows ids of the store only.
Counted ==
  /\ IsFiniteSet(DOMAIN entries)
  /\ \A q \in Procs : Mutating(q) => op[q].id \in Ids
  /\ index.ready => \A s \in DOMAIN index.map : index.map[s].id \in Ids

LEMMA CountedInit == Init => Counted
  <1> SUFFICES ASSUME Init PROVE Counted
    OBVIOUS
  <1>1. DOMAIN entries = {} /\ \A q \in Procs : ~Mutating(q)
    BY DEF Init, NoEntries, Mutating, Idle
  <1>2. index = build_index(entries)
    BY DEF Init
  <1>3. ASSUME index.ready PROVE \A s \in DOMAIN index.map : index.map[s].id \in Ids
    <2>1. build_index(entries) = Ready(index.map)
      BY <1>2, <1>3, BuildReady
    <2> QED BY <1>1, <2>1, BuildKeyed
  <1> QED BY <1>1, <1>3, FS_EmptySet DEF Counted

LEMMA CountedMutation ==
  ASSUME MirrorInv, Counted, NEW p \in Procs, Mutation(p)
  PROVE  Counted'
  <1>1. PICK id \in Ids : delete(p, id) \/ \E entry \in Entries : add(p, id, entry) \/ update(p, id, entry)
    BY DEF Mutation
  <1>2. PICK kind, entry, map :
          /\ Begin(p, kind, id, entry, map)
          /\ DOMAIN map = DOMAIN entries \cup {id} \/ DOMAIN map = DOMAIN entries \ {id}
    <2>1. /\ \A entry : DOMAIN Put(entries, id, entry) = DOMAIN entries \cup {id}
          /\ DOMAIN Without(entries, id) = DOMAIN entries \ {id}
      BY DEF Put, Without
    <2> QED BY <1>1, <2>1 DEF delete, add, update
  <1>3. /\ entries' = map /\ UNCHANGED index
        /\ op' = [op EXCEPT ![p] = [kind |-> kind, id |-> id, entry |-> entry]]
    BY <1>2 DEF Begin
  <1>4. op'[p].id = id /\ \A q \in Procs \ {p} : op'[q] = op[q]
    BY <1>3 DEF MirrorInv, Shape
  <1>5. IsFiniteSet(DOMAIN map)
    BY <1>2, FS_AddElement, FS_RemoveElement DEF Counted
  <1> QED BY <1>3, <1>4, <1>5 DEF Counted, Mutating

LEMMA CountedIndexing ==
  ASSUME MirrorInv, Counted, NEW p \in Procs, Indexing(p)
  PROVE  Counted'
  <1>1. UNCHANGED entries /\ op' = [op EXCEPT ![p] = Idle]
    BY DEF Indexing, IndexAdd, IndexUpdate, IndexDelete, IndexUnavailable, Drop, End
  <1>2. \A q \in Procs : Mutating(q)' => op'[q] = op[q] /\ Mutating(q)
    BY <1>1 DEF MirrorInv, Shape, Mutating, Idle
  <1>3. \/ UNCHANGED index
        \/ index' = Unavailable
        \/ op[p].kind \in {"add", "update"} /\ index.ready /\ index' = Indexed(op[p])
        \/ index.ready /\ index' = Ready(Without(index.map, slot_id[op[p].id]))
    BY DEF Indexing, IndexAdd, IndexUpdate, IndexDelete, IndexUnavailable, Drop, End
  <1>4. ASSUME index'.ready PROVE \A s \in DOMAIN index'.map : index'.map[s].id \in Ids
    <2>1. CASE UNCHANGED index
      BY <1>4, <2>1 DEF Counted
    <2>2. CASE index' = Unavailable
      BY <1>4, <2>2 DEF Unavailable
    <2>3. CASE op[p].kind \in {"add", "update"} /\ index.ready /\ index' = Indexed(op[p])
      <3> DEFINE new == [id |-> op[p].id, vector |-> op[p].entry.vector]
                 put == Put(index.map, slot_id[op[p].id], new)
      <3>1. index'.map = put /\ op[p].id \in Ids /\ new.id = op[p].id
        BY <2>3 DEF Indexed, Ready, Counted, Mutating
      <3> HIDE DEF new
      <3>2. \A s \in DOMAIN put : put[s] = new \/ (s \in DOMAIN index.map /\ put[s] = index.map[s])
        BY DEF Put
      <3> QED BY <2>3, <3>1, <3>2 DEF Counted
    <2>4. CASE index.ready /\ index' = Ready(Without(index.map, slot_id[op[p].id]))
      <3> DEFINE rest == Without(index.map, slot_id[op[p].id])
      <3>1. index'.map = rest /\ \A s \in DOMAIN rest : s \in DOMAIN index.map /\ rest[s] = index.map[s]
        BY <2>4 DEF Ready, Without
      <3> QED BY <2>4, <3>1 DEF Counted
    <2> QED BY <1>3, <2>1, <2>2, <2>3, <2>4
  <1> QED BY <1>1, <1>2, <1>4 DEF Counted

LEMMA CountedSearch ==
  ASSUME MirrorInv, Counted, NEW p \in Procs, Search(p)
  PROVE  Counted'
  <1>1. UNCHANGED <<entries, index>>
    BY DEF Search, IndexSearch, FallBack, ReferenceSearch, Return
  <1>2. op'[p].kind \notin {"add", "update", "delete"} /\ \A q \in Procs \ {p} : op'[q] = op[q]
    <2>1. ASSUME NEW workspace, NEW limit, IndexSearch(p, workspace, limit)
          PROVE  op'[p].kind = "searched" /\ \A q \in Procs \ {p} : op'[q] = op[q]
      <3>1. PICK slots :
              op' = [op EXCEPT ![p] = [kind |-> "searched", workspace |-> workspace, limit |-> limit,
                                       plain |-> TRUE, found |-> FoundAt(slots)]]
        BY <2>1, IndexSearchFinds
      <3> QED BY <3>1 DEF MirrorInv, Shape
    <2>2. ASSUME NEW workspace, NEW limit, NEW plain, FallBack(p, workspace, limit, plain)
          PROVE  op'[p].kind = "fallback" /\ \A q \in Procs \ {p} : op'[q] = op[q]
      BY <2>2 DEF FallBack, MirrorInv, Shape
    <2>3. CASE ReferenceSearch(p)
      <3>1. PICK ids :
              op' = [op EXCEPT ![p] =
                       [kind |-> "searched", workspace |-> op[p].workspace, limit |-> op[p].limit,
                        plain |-> op[p].plain, found |-> {Result(id, entries[id].vector) : id \in ids}]]
        BY <2>3, ReferenceSearchFinds
      <3> QED BY <3>1 DEF MirrorInv, Shape
    <2>4. CASE Return(p)
      BY <2>4 DEF Return, Idle, MirrorInv, Shape
    <2> QED BY <2>1, <2>2, <2>3, <2>4 DEF Search
  <1>3. \A q \in Procs : Mutating(q)' => op'[q] = op[q] /\ Mutating(q)
    BY <1>2 DEF Mutating
  <1> QED BY <1>1, <1>3 DEF Counted

LEMMA CountedStep == MirrorInv /\ Counted /\ [Next]_vars => Counted'
  <1> SUFFICES ASSUME MirrorInv, Counted, [Next]_vars PROVE Counted'
    OBVIOUS
  <1>1. CASE open
    <2>1. /\ \A q \in Procs : op[q] = Idle
          /\ index' = build_index(entries) /\ UNCHANGED <<entries, op>>
      BY <1>1 DEF open
    <2>2. ASSUME index'.ready PROVE \A s \in DOMAIN index'.map : index'.map[s].id \in Ids
      <3>1. build_index(entries) = Ready(build_index(entries).map)
        BY <2>1, <2>2, BuildReady
      <3>2. \A s \in DOMAIN index'.map : index'.map[s].id \in DOMAIN entries
        BY <2>1, <3>1, BuildKeyed
      <3> QED BY <3>2 DEF MirrorInv, Shape
    <2> QED BY <2>1, <2>2 DEF Counted, Mutating
  <1>2. ASSUME NEW p \in Procs, Mutation(p) \/ Indexing(p) \/ Search(p) PROVE Counted'
    BY <1>2, CountedMutation, CountedIndexing, CountedSearch
  <1>3. CASE UNCHANGED vars
    BY <1>3 DEF vars, Counted, Mutating
  <1> QED BY <1>1, <1>2, <1>3 DEF Next

\* As many results as there are things found, if no two give the same result.
LEMMA AsManyResults ==
  ASSUME NEW found, NEW results, NEW f \in [found -> results], IsFiniteSet(found),
         \A x, y \in found : f[x] = f[y] => x = y,
         \A result \in results : \E x \in found : f[x] = result
  PROVE  Cardinality(results) = Cardinality(found)
  <1>1. f \in Surjection(found, results) /\ f \in Injection(found, results)
    BY DEF Surjection, Injection, IsInjective
  <1> QED BY <1>1, FS_Surjection

\* Without shared slots a workspace has as many slots as entries.
LEMMA SlotsOfWorkspace ==
  ASSUME MirrorInv, Counted, ~Collision(Ids), NEW workspace
  PROVE  /\ IsFiniteSet(Allowed(workspace)) /\ Cardinality(Allowed(workspace)) \in Nat
         /\ Cardinality(Candidates(workspace)) \in Nat
         /\ Cardinality(Candidates(workspace)) <= Cardinality(Allowed(workspace))
  <1>1. /\ InWorkspace(workspace) \subseteq DOMAIN entries /\ DOMAIN entries \subseteq Ids
        /\ Candidates(workspace) \subseteq InWorkspace(workspace)
    BY DEF InWorkspace, Candidates, MirrorInv, Shape
  <1>2. IsFiniteSet(InWorkspace(workspace))
    BY <1>1, FS_Subset DEF Counted
  <1> DEFINE ids == InWorkspace(workspace)
             f == [id \in ids |-> slot_id[id]]
  <1>3. \A id, other \in ids : slot_id[id] = slot_id[other] => id = other
    BY <1>1 DEF Collision
  <1>4. Allowed(workspace) = {slot_id[id] : id \in ids}
    BY DEF Allowed
  <1> HIDE DEF ids
  <1>5. f \in [ids -> Allowed(workspace)] /\ \A id \in ids : f[id] = slot_id[id]
    BY <1>4
  <1>6. /\ \A x, y \in ids : f[x] = f[y] => x = y
        /\ \A slot \in Allowed(workspace) : \E x \in ids : f[x] = slot
    BY <1>3, <1>4, <1>5
  <1> HIDE DEF f
  <1>7. IsFiniteSet(ids)
    BY <1>2 DEF ids
  <1>8. Cardinality(Allowed(workspace)) = Cardinality(ids)
    BY <1>5, <1>6, <1>7, AsManyResults
  <1>9. IsFiniteSet(Allowed(workspace))
    <2>1. f \in Surjection(ids, Allowed(workspace))
      BY <1>5, <1>6 DEF Surjection
    <2> QED BY <1>7, <2>1, FS_Surjection
  <1>10. Cardinality(Candidates(workspace)) <= Cardinality(ids) /\ IsFiniteSet(Candidates(workspace))
    BY <1>1, <1>7, FS_Subset DEF ids
  <1> QED BY <1>8, <1>9, <1>10, FS_CardinalityType

\* The index finds an entry at each slot it is asked for.
LEMMA IndexFindsAll ==
  ASSUME MirrorInv, Counted, ~Collision(Ids), index.ready, NEW workspace,
         NEW slots \in SUBSET (Allowed(workspace) \cap DOMAIN index.map), IsFiniteSet(slots)
  PROVE  Cardinality(FoundAt(slots)) = Cardinality(slots)
  <1> DEFINE f == [s \in slots |-> Result(index.map[s].id, index.map[s].vector)]
             live == {s \in slots : index.map[s].id \in DOMAIN entries}
  <1>1. ASSUME NEW s \in slots PROVE slot_id[index.map[s].id] = s /\ index.map[s].id \in DOMAIN entries
    <2>1. PICK id \in InWorkspace(workspace) : slot_id[id] = s
      BY DEF Allowed
    <2>2. id \in DOMAIN entries /\ id \in Ids
      BY DEF InWorkspace, MirrorInv, Shape
    <2>3. slot_id[index.map[s].id] = s /\ index.map[s].id \in Ids
      BY DEF MirrorInv, KeyedBySlot, Counted
    <2>4. index.map[s].id = id
      BY <2>1, <2>2, <2>3 DEF Collision
    <2> QED BY <2>2, <2>3, <2>4
  <1>2. live = slots
    BY <1>1
  <1>3. FoundAt(slots) = {Result(index.map[s].id, index.map[s].vector) : s \in slots}
    BY <1>2 DEF FoundAt
  <1>4. f \in [slots -> FoundAt(slots)] /\ \A s \in slots : f[s] = Result(index.map[s].id, index.map[s].vector)
    BY <1>3
  <1>5. \A s \in slots : f[s].id = index.map[s].id
    BY <1>4 DEF Result
  <1>6. \A r, s \in slots : f[r] = f[s] => r = s
    BY <1>1, <1>5
  <1>7. \A result \in FoundAt(slots) : \E s \in slots : f[s] = result
    BY <1>3, <1>4
  <1> HIDE DEF f
  <1> QED BY <1>4, <1>6, <1>7, AsManyResults

LEMMA LeastGrows ==
  ASSUME NEW limit \in Nat, NEW a \in Nat, NEW b \in Nat, a <= b
  PROVE  Least(limit, b) >= Least(limit, a) /\ Least(limit, a) \in Nat
  BY DEF Least

LEMMA SearchFindsEnough ==
  ASSUME MirrorInv, Counted, Next, ~Collision(Ids), NEW p \in Procs, Searched(p), op'[p].plain
  PROVE  Cardinality(op'[p].found) >= Least(op'[p].limit, Cardinality(Candidates(op'[p].workspace)))
  <1>1. CASE ReferenceSearch(p)
    <2>0. PICK matching \in SUBSET InWorkspace(op[p].workspace) : \E ids \in SUBSET matching :
            /\ op[p].plain => matching = Candidates(op[p].workspace)
            /\ Cardinality(ids) = Least(op[p].limit, Cardinality(matching))
            /\ op' = [op EXCEPT ![p] =
                 [kind |-> "searched", workspace |-> op[p].workspace, limit |-> op[p].limit,
                  plain |-> op[p].plain, found |-> {Result(id, entries[id].vector) : id \in ids}]]
      BY <1>1 DEF ReferenceSearch, MirrorInv, Shape
    <2>1. PICK ids \in SUBSET matching :
            /\ op[p].plain => matching = Candidates(op[p].workspace)
            /\ Cardinality(ids) = Least(op[p].limit, Cardinality(matching))
            /\ op' = [op EXCEPT ![p] =
                 [kind |-> "searched", workspace |-> op[p].workspace, limit |-> op[p].limit,
                  plain |-> op[p].plain, found |-> {Result(id, entries[id].vector) : id \in ids}]]
      BY <2>0
    <2>2. /\ op'[p].workspace = op[p].workspace /\ op'[p].limit = op[p].limit /\ op'[p].plain = op[p].plain
          /\ op'[p].found = {Result(id, entries[id].vector) : id \in ids}
      BY <2>1 DEF MirrorInv, Shape
    <2> DEFINE found == {Result(id, entries[id].vector) : id \in ids}
               f == [id \in ids |-> Result(id, entries[id].vector)]
    <2>3. f \in [ids -> found] /\ \A id \in ids : f[id] = Result(id, entries[id].vector)
      OBVIOUS
    <2>4. /\ \A x, y \in ids : f[x] = f[y] => x = y
          /\ \A result \in found : \E x \in ids : f[x] = result
      BY <2>3 DEF Result
    <2>5. IsFiniteSet(ids)
      <3>1. ids \subseteq DOMAIN entries
        BY DEF InWorkspace
      <3> QED BY <3>1, FS_Subset DEF Counted
    <2> HIDE DEF f, found
    <2>6. Cardinality(found) = Cardinality(ids) /\ Cardinality(ids) \in Nat
      BY <2>3, <2>4, <2>5, AsManyResults, FS_CardinalityType
    <2>7. Cardinality(ids) = Least(op'[p].limit, Cardinality(Candidates(op'[p].workspace)))
      BY <2>1, <2>2
    <2>8. op'[p].found = found
      BY <2>2 DEF found
    <2> QED BY <2>6, <2>7, <2>8
  <1>2. ASSUME NEW workspace \in Workspaces, NEW limit \in Limits, IndexSearch(p, workspace, limit)
        PROVE  Cardinality(op'[p].found) >= Least(op'[p].limit, Cardinality(Candidates(op'[p].workspace)))
    <2> DEFINE held == Allowed(workspace) \cap DOMAIN index.map
    <2>1. index.ready /\ held = Allowed(workspace)
      BY <1>2 DEF IndexSearch, Accepts
    <2>2. PICK slots \in SUBSET held :
            /\ Cardinality(slots) = Least(limit, Cardinality(held))
            /\ op' = [op EXCEPT ![p] = [kind |-> "searched", workspace |-> workspace, limit |-> limit,
                                        plain |-> TRUE, found |-> FoundAt(slots)]]
      BY <1>2 DEF IndexSearch, FoundAt
    <2>3. op'[p].workspace = workspace /\ op'[p].limit = limit /\ op'[p].found = FoundAt(slots)
      BY <2>2 DEF MirrorInv, Shape
    <2>4. /\ IsFiniteSet(Allowed(workspace)) /\ Cardinality(Allowed(workspace)) \in Nat
          /\ Cardinality(Candidates(workspace)) \in Nat
          /\ Cardinality(Candidates(workspace)) <= Cardinality(Allowed(workspace))
      BY SlotsOfWorkspace
    <2>5. IsFiniteSet(slots)
      BY <2>1, <2>4, FS_Subset
    <2>6. Cardinality(FoundAt(slots)) = Cardinality(slots)
      BY <2>1, <2>5, IndexFindsAll
    <2>7. limit \in Nat
      BY TurboVecAssumption
    <2>8. Least(limit, Cardinality(Allowed(workspace))) >= Least(limit, Cardinality(Candidates(workspace)))
      BY <2>4, <2>7, LeastGrows
    <2>9. Cardinality(op'[p].found) = Least(limit, Cardinality(Allowed(workspace)))
      BY <2>1, <2>2, <2>3, <2>6
    <2> QED BY <2>3, <2>8, <2>9
  <1> QED BY <1>1, <1>2, SearchedBySearch

\* A search without filters returns as many entries as it was asked for and as
\* there are, whatever mutations are half-way, unless two ids share a slot.
THEOREM SearchMisses == Spec => SearchMissesNothing
  <1> DEFINE Enough ==
        ~Collision(Ids) =>
          \A p \in Procs : Searched(p) /\ op'[p].plain =>
            Cardinality(op'[p].found) >= Least(op'[p].limit, Cardinality(Candidates(op'[p].workspace)))
  <1>1. MirrorInv /\ Counted /\ [Next]_vars => [Enough]_vars
    BY SearchFindsEnough
  <1>2. Spec => [](MirrorInv /\ Counted)
    BY MirrorInit, MirrorStep, CountedInit, CountedStep, PTL DEF Spec
  <1>3. Spec => [][Enough]_vars
    BY <1>1, <1>2, PTL DEF Spec
  <1> QED BY <1>3 DEF SearchMissesNothing

=============================================================================
