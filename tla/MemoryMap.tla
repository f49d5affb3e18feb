----------------------------- MODULE MemoryMap ------------------------------
(***************************************************************************)
(* What a MemoryStore promises (crates/sc-memory/src/traits.rs): a map     *)
(* from ids to entries that changes only by one operation on one id, an    *)
(* add of a new id, an update or a delete of a present one, whatever       *)
(* restarts happen in between.                                             *)
(***************************************************************************)
CONSTANTS Ids, Entries

VARIABLE store

Add(id, entry) ==
  /\ id \notin DOMAIN store
  /\ store' = [i \in DOMAIN store \cup {id} |-> IF i = id THEN entry ELSE store[i]]

Update(id, entry) ==
  /\ id \in DOMAIN store
  /\ store' = [store EXCEPT ![id] = entry]

Delete(id) ==
  /\ id \in DOMAIN store
  /\ store' = [i \in DOMAIN store \ {id} |-> store[i]]

Init == store = [i \in {} |-> CHOOSE entry \in Entries : TRUE]

Next == \E id \in Ids : Delete(id) \/ \E entry \in Entries : Add(id, entry) \/ Update(id, entry)

Spec == Init /\ [][Next]_store
=============================================================================
