--------------------------------- MODULE Globs ---------------------------------
(***************************************************************************)
(* How sc-tool-core (crates/sc-tool-core/src/lib.rs) matches the arguments *)
(* of a call with the patterns of a permission entry.  Texts and patterns  *)
(* are sequences of characters; of the letters that have two cases the one *)
(* pair "A", "a" stands for all.                                           *)
(***************************************************************************)
EXTENDS Naturals, Sequences, SequencesExt

lower(text) == [i \in DOMAIN text |-> IF text[i] = "A" THEN "a" ELSE text[i]]

is_ascii_whitespace(c) == c \in {" ", "\t"}

-----------------------------------------------------------------------------
(* The targets.  Arguments are records; the value of a field is            *)
(* [is : "string" | "array" | "other", text, items].                       *)

None == [is |-> "None"]

NormalizeSpaces(s, c) ==
  IF is_ascii_whitespace(c) THEN [s EXCEPT !.pending_space = s.result # <<>>]
  ELSE [result |-> Append(IF s.pending_space THEN Append(s.result, " ") ELSE s.result, c),
        pending_space |-> FALSE]

normalize_shell_command(raw) ==
  FoldLeft(NormalizeSpaces, [result |-> <<>>, pending_space |-> FALSE], lower(raw)).result

normalize_file_path(raw) == lower([i \in DOMAIN raw |-> IF raw[i] = "\\" THEN "/" ELSE raw[i]])

\* items.join(" "): every item but the first follows a space, the first empty or not.
JoinItems(items) == IF items = <<>> THEN <<>> ELSE Tail(FlattenSeq([i \in DOMAIN items |-> <<" ">> \o items[i].text]))

derive_shell_target(args) ==
  LET cmd        == args["cmd"]
      malformed  == \/ "cmd" \notin DOMAIN args \/ cmd.is = "other"
                    \/ cmd.is = "array" /\ \E i \in DOMAIN cmd.items : cmd.items[i].is # "string"
      normalized == normalize_shell_command(IF cmd.is = "array" THEN JoinItems(cmd.items) ELSE cmd.text)
  IN  IF malformed \/ normalized = <<>> THEN None ELSE [is |-> "Shell", command |-> normalized]

filename(path) ==
  LET slashes == {0} \cup {i \in DOMAIN path : path[i] = "/"}
  IN  SubSeq(path, Max(slashes) + 1, Len(path))

derive_file_target(args) ==
  IF "path" \notin DOMAIN args \/ args["path"].is # "string" \/ args["path"].text = <<>> THEN None
  ELSE LET path == normalize_file_path(args["path"].text)
       IN  [is |-> "File", path |-> path, filename |-> filename(path)]
-----------------------------------------------------------------------------
(* The matcher.  A state of its loop counts what was consumed of the       *)
(* pattern and of the text; star_p is the place of the last star seen, or  *)
(* 0 before one is.                                                        *)

At(s, i) == IF i \in DOMAIN s THEN s[i] ELSE "end"

Stuck == [p |-> 0, t |-> 0, star_p |-> 0, star_t |-> 0, stuck |-> TRUE]

\* The text is not taken up again where the star began.
IterateWithoutBacktrack(pattern, text, s) ==
  CASE At(pattern, s.p + 1) = text[s.t + 1] -> [s EXCEPT !.p = @ + 1, !.t = @ + 1]
    [] At(pattern, s.p + 1) = "*" /\ text[s.t + 1] # "*" ->
         [s EXCEPT !.p = @ + 1, !.star_p = s.p + 1, !.star_t = s.t]
    [] At(pattern, s.p + 1) \notin {"*", text[s.t + 1]} /\ s.star_p > 0 ->
         [s EXCEPT !.p = s.star_p, !.t = @ + 1]
    [] OTHER -> Stuck

\* One iteration of the loop.
Iterate(pattern, text, s) ==
  CASE At(pattern, s.p + 1) = text[s.t + 1] -> [s EXCEPT !.p = @ + 1, !.t = @ + 1]
    [] At(pattern, s.p + 1) = "*" /\ text[s.t + 1] # "*" ->
         [s EXCEPT !.p = @ + 1, !.star_p = s.p + 1, !.star_t = s.t]
    [] At(pattern, s.p + 1) \notin {"*", text[s.t + 1]} /\ s.star_p > 0 ->
         [s EXCEPT !.p = s.star_p, !.t = s.star_t + 1, !.star_t = @ + 1]
    [] OTHER -> Stuck

States(pattern, text) ==
  {s \in [p : 0..Len(pattern), t : 0..Len(text), star_p : 0..Len(pattern), star_t : 0..Len(text), stuck : BOOLEAN] :
     s.star_t <= s.t}

glob_match(pattern, text) ==
  LET run[s \in States(pattern, text)] ==
        IF s.stuck \/ s.t = Len(text) THEN s ELSE run[Iterate(pattern, text, s)]
      last == run[[p |-> 0, t |-> 0, star_p |-> 0, star_t |-> 0, stuck |-> FALSE]]
  IN  ~last.stuck /\ \A i \in last.p + 1..Len(pattern) : pattern[i] = "*"

\* MatchTarget::matches.
matches(target, pattern, is_deny) ==
  IF target.is = "Shell"
  THEN glob_match((IF is_deny THEN <<"*">> ELSE <<>>) \o lower(pattern) \o <<"*">>, target.command)
  ELSE \/ glob_match(normalize_file_path(pattern), target.filename)
       \/ glob_match(normalize_file_path(pattern), target.path)

\* The ends of what a pattern matches at the start of a text: any run for a star,
\* the character itself for another.
Advance(text, ends, c) ==
  IF c = "*" THEN {j \in 0..Len(text) : \E i \in ends : i <= j}
  ELSE {j \in DOMAIN text : j - 1 \in ends /\ text[j] = c}

Matches(pattern, text) ==
  LET ends[i \in 0..Len(pattern)] == IF i = 0 THEN {0} ELSE Advance(text, ends[i - 1], pattern[i])
  IN  Len(text) \in ends[Len(pattern)]

\* The words of a text, one space between any two.
Spaced(text) ==
  LET blank(i) == i \notin DOMAIN text \/ is_ascii_whitespace(text[i])
      kept     == SelectSeq([i \in DOMAIN text |-> i],
                            LAMBDA i : ~blank(i) \/ (~blank(i + 1) /\ \E j \in 1..i : ~blank(j)))
  IN  [n \in DOMAIN kept |-> IF blank(kept[n]) THEN " " ELSE text[kept[n]]]
=============================================================================
