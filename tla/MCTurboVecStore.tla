-------------------------- MODULE MCTurboVecStore ---------------------------
(***************************************************************************)
(* Two ids and two workspaces; "v1" and "v2" are vectors the index is      *)
(* configured for, "old" is one of another model.                          *)
(***************************************************************************)
EXTENDS TurboVecStore

MCIds == {1, 2}
MCEntries == [workspace : {"w1", "w2"}, vector : {"v1", "v2", "old"}]
MCFewEntries == {entry \in MCEntries : entry.workspace = "w1" \/ entry.vector = "v1"}
MCOwnSlots == {[id \in MCIds |-> id]}
MCSlotIds  == MCOwnSlots \cup {[id \in MCIds |-> 1]}
=============================================================================
