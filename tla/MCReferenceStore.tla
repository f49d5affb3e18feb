-------------------------- MODULE MCReferenceStore --------------------------
(***************************************************************************)
(* Two ids and entries; NaN stands for an entry with an embedding that is  *)
(* not finite.                                                             *)
(***************************************************************************)
EXTENDS ReferenceStore

CONSTANTS i1, i2, e1, e2, NaN

MCIds == {i1, i2}
=============================================================================
