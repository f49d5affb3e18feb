-------------------------------- MODULE Sandbox --------------------------------
(***************************************************************************)
(* The path checks of sc-sandbox (crates/sc-sandbox/src/lib.rs), as built  *)
(* for Unix.                                                               *)
(*                                                                         *)
(* A normalized path is the sequence of its segments from the root.  A     *)
(* path as a caller writes it is a record [absolute, parts] whose parts    *)
(* may be "." and "..".  A pattern of the workspace is the sequence of its *)
(* segments, the first and last of which may be "**".  "~" and environment *)
(* variables are taken to be expanded already, in paths and patterns; the  *)
(* code expands the path it checks twice, and the one it uses once.        *)
(*                                                                         *)
(* A disk is a function from the paths that exist to what is there.  A     *)
(* link names the path it leads to, which passes through no other link.    *)
(***************************************************************************)
EXTENDS Naturals, Sequences, SequencesExt

Dir        == [is |-> "dir",  text |-> "", to |-> <<>>]
File(text) == [is |-> "file", text |-> text, to |-> <<>>]
Link(to)   == [is |-> "link", text |-> "", to |-> to]

\* Where the operating system finds a path: the first link on its way is followed.
Real(disk, path) ==
  LET at    == {n \in DOMAIN path : SubSeq(path, 1, n) \in DOMAIN disk /\ disk[SubSeq(path, 1, n)].is = "link"}
      first == Min(at)
  IN  IF at = {} THEN path
      ELSE disk[SubSeq(path, 1, first)].to \o SubSeq(path, first + 1, Len(path))

Exists(disk, path) == Real(disk, path) \in DOMAIN disk

Links(disk) == {path \in DOMAIN disk : disk[path].is = "link"}

\* Whatever is on the way to something on the disk is on the disk.
IsTree(disk) ==
  /\ <<>> \in DOMAIN disk \ Links(disk)
  /\ \A path \in DOMAIN disk :
       path \in Seq(STRING) /\ \A n \in 0..Len(path) : SubSeq(path, 1, n) \in DOMAIN disk

\* There is no link on the way to where a link leads, there, or below.
LinksLeadOnce(disk) ==
  \A link, other \in Links(disk) :
    LET to == disk[link].to IN to \in Seq(STRING) /\ ~IsPrefix(other, to) /\ ~IsPrefix(to, other)

-----------------------------------------------------------------------------
\* Without looking at the disk: ".." takes away the segment before it.
NormalizeStep(out, part) ==
  CASE part = "."                -> out
    [] part = ".." /\ out = <<>> -> out
    [] part = ".." /\ out # <<>> -> Front(out)
    [] OTHER                     -> Append(out, part)

normalize_path(parts) ==
  LET out[n \in 0..Len(parts)] == IF n = 0 THEN <<>> ELSE NormalizeStep(out[n - 1], parts[n])
  IN  out[Len(parts)]

parse_pattern(pattern) ==
  LET anywhere == pattern # <<>> /\ Head(pattern) = "**"
      rest     == IF anywhere THEN Tail(pattern) ELSE pattern
  IN  [anywhere |-> anywhere,
       segments |-> IF rest # <<>> /\ Last(rest) = "**" THEN Front(rest) ELSE rest]

starts_with_segments(path, prefix) == IsPrefix(prefix, path)

contains_subsequence(path, needle) ==
  \E start \in DOMAIN path : IsPrefix(needle, SubSeq(path, start, Len(path)))

pattern_matches(pattern, candidate) ==
  LET parsed == parse_pattern(pattern)
  IN  /\ parsed.segments # <<>>
      /\ IF parsed.anywhere THEN contains_subsequence(candidate, parsed.segments)
                            ELSE starts_with_segments(candidate, parsed.segments)

\* A denial wins; an empty list allows nothing.
is_path_allowed_syntactic(path, workspace) ==
  /\ \A deny \in workspace.deny : ~pattern_matches(deny, path)
  /\ \E allow \in workspace.allow : pattern_matches(allow, path)

\* The root always exists.
nearest_existing_ancestor(disk, path) ==
  SubSeq(path, 1, Max({n \in 0..Len(path) : Exists(disk, SubSeq(path, 1, n))}))

\* What exists is made real, and what does not exist yet is appended to it.  The code
\* has no answer, and keeps to the path's name, when not even the root exists or what
\* exists cannot be made real, which another process would have to bring about.
resolve_real_path(disk, path) ==
  LET existing == nearest_existing_ancestor(disk, path)
  IN  Real(disk, existing) \o SubSeq(path, Len(existing) + 1, Len(path))

is_path_allowedByName(disk, path, workspace) == is_path_allowed_syntactic(path, workspace)

is_path_allowed(disk, path, workspace) ==
  /\ is_path_allowed_syntactic(path, workspace)
  /\ is_path_allowed_syntactic(resolve_real_path(disk, path), workspace)

Resolved(path, working_dir) ==
  normalize_path(IF path.absolute THEN path.parts ELSE working_dir \o path.parts)

\* The path to use, or none when it is not allowed.
resolve_and_check_path(disk, path, working_dir, workspace) ==
  {safe \in {Resolved(path, working_dir)} : is_path_allowed(disk, safe, workspace)}
=============================================================================
