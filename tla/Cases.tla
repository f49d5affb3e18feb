--------------------------------- MODULE Cases ---------------------------------
(***************************************************************************)
(* A behaviour about one part of sc-node that decides or computes without  *)
(* acting: it starts with any input of that part, and edits it.            *)
(***************************************************************************)
VARIABLES about,   \* the part the behaviour is about
          config   \* its input: a configuration, a contract, a bundle, a text

case_vars == <<about, config>>

Edit(part, edited) == about = part /\ config' = edited /\ UNCHANGED about
=============================================================================
