---------------------------- MODULE MCChatStream ----------------------------
(***************************************************************************)
(* A server with every kind of frame: a text, two tool calls streamed in   *)
(* two deltas each, a delta that carries no id, an event of two data       *)
(* lines, ends, a comment, a frame that does not parse, a line that is not *)
(* UTF-8, a line and an event that are too long.                           *)
(***************************************************************************)
EXTENDS ChatStream

Line(name) == <<"data", name, "nl">>
Event(name, kind) == [units |-> Append(Line(name), "nl"), payload |-> << <<name>> >>, kind |-> kind]

MCChunks ==
  << <<"text">> >>         :> <<TextItem>> @@
  << <<"a1">> >>           :> <<Delta(0, "a", "shell", <<"{">>)>> @@
  << <<"a2">> >>           :> <<Delta(1, "b", "read_file", <<>>), Delta(0, "", "", <<"}">>)>> @@
  << <<"b1">>, <<"b2">> >> :> <<Delta(1, "b", "read_file", <<"{", "}">>)>> @@
  << <<"finish">> >>       :> <<TextItem, EndItem>>

MCFrames ==
  {Event(name, "fine") : name \in {"text", "a1", "a2", "finish"}} \cup
  {Event("garbage", "faulty"),
   [units |-> Line("b1") \o Line("b2") \o <<"nl">>, payload |-> << <<"b1">>, <<"b2">> >>, kind |-> "fine"]}

\* No events: a comment, invalid UTF-8, a line and an event beyond their bounds.
MCNoise ==
  {[units |-> <<":", "x", "nl">>, payload |-> <<>>, kind |-> "fine"],
   [units |-> <<"bad", "nl">>, payload |-> <<>>, kind |-> "faulty"],
   [units |-> <<"x", "x", "x", "x", "nl">>, payload |-> <<>>, kind |-> "long"],
   [units |-> Line("b1") \o Line("b1") \o Line("b1"), payload |-> <<>>, kind |-> "faulty"]}

MCAllFrames == MCFrames \cup MCNoise
=============================================================================
