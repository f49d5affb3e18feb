----------------------------- MODULE SseDecoder -----------------------------
(***************************************************************************)
(* The incremental decoder of server-sent events of sc-provider-core       *)
(* (crates/sc-provider-core/src/sse.rs).                                   *)
(*                                                                         *)
(* A body is a sequence of units: "nl" is a line break, "data" and ":" are *)
(* the prefixes of data and comment lines, "bad" is not valid UTF-8, any   *)
(* other unit is a piece of a payload or of a line that is ignored.  The   *)
(* payload of an event is the sequence of its data lines without "data";   *)
(* Chunks gives the items of every payload that parses, in the order       *)
(* dispatch_event handles them: a text, a fragment of a tool call (a       *)
(* delta), or an end (a finish_reason, or "[DONE]").                       *)
(***************************************************************************)
EXTENDS Integers, SequencesExt

CONSTANTS Chunks,              \* payload -> sequence of items
          max_line_buffer, max_event_payload, max_tool_call_args

\* Items.  An absent id or name of a delta is "".
Item == [kind : {"text", "end"}]
          \cup [kind : {"delta"}, index : Nat, id : STRING, name : STRING, args : Seq(STRING)]

ASSUME DecoderAssumption ==
  /\ max_line_buffer \in Nat /\ max_event_payload \in Nat /\ max_tool_call_args \in Nat
  /\ \A payload \in DOMAIN Chunks : Chunks[payload] \in Seq(Item)

TextItem == [kind |-> "text"]
EndItem  == [kind |-> "end"]
Delta(index, id, name, args) ==
  [kind |-> "delta", index |-> index, id |-> id, name |-> name, args |-> args]

\* Events handed to the consumer, and the error item.
TextDelta == [kind |-> "TextDelta"]
End       == [kind |-> "End"]
Err       == [kind |-> "Err"]
ToolUse(id, name, args) == [kind |-> "ToolUse", id |-> id, name |-> name, args |-> args]

NewDecoder ==
  [line_buffer |-> <<>>, data_lines |-> <<>>, event_payload_len |-> 0,
   tool_calls |-> <<>>, poisoned |-> FALSE, events |-> <<>>]

-----------------------------------------------------------------------------
poison_and_report(d) == [d EXCEPT !.poisoned = TRUE, !.events = Append(@, Err)]

InOrder(indices) == SetToSortSeq(indices, <)

\* Calls with an id and a name, by index; the others are dropped.  Arguments stay
\* the fragments they came in: they are parsed whole, and null when they do not parse.
flush_tool_calls(d) ==
  LET calls == d.tool_calls
      whole == {i \in DOMAIN calls : calls[i].id # "" /\ calls[i].name # ""}
      uses  == [k \in 1..Cardinality(whole) |->
                  LET call == calls[InOrder(whole)[k]]
                  IN  ToolUse(call.id, call.name, call.args)]
  IN  [d EXCEPT !.tool_calls = <<>>, !.events = @ \o uses]

Accumulator(d, index) ==
  IF index \in DOMAIN d.tool_calls THEN d.tool_calls[index]
                                   ELSE [id |-> "", name |-> "", args |-> <<>>]

\* A fragment overwrites the id and the name if it has one, and adds to the arguments.
Merged(call, item) ==
  [id   |-> IF item.id # "" THEN item.id ELSE call.id,
   name |-> IF item.name # "" THEN item.name ELSE call.name,
   args |-> call.args \o item.args]

Put(calls, index, call) == [i \in DOMAIN calls \cup {index} |-> IF i = index THEN call ELSE calls[i]]

AccumulateByLastCall(d, item) ==
  LET known == {i \in DOMAIN d.tool_calls : item.id = "" /\ d.tool_calls[i].id # ""}
      index == IF known = {} THEN item.index ELSE Max(known)
  IN  [d EXCEPT !.tool_calls = Put(@, index, Merged(Accumulator(d, index), item))]

Accumulate(d, item) ==
  [d EXCEPT !.tool_calls = Put(@, item.index, Merged(Accumulator(d, item.index), item))]

\* One item of a chunk.  Arguments that outgrow their bound end the chunk.
Overflows(d, item) ==
  Len(Accumulator(d, item.index).args) + Len(item.args) > max_tool_call_args

DispatchItem(d, item) ==
  CASE d.poisoned                                                 -> d
    [] ~d.poisoned /\ item.kind = "text"  -> [d EXCEPT !.events = Append(@, TextDelta)]
    [] ~d.poisoned /\ item.kind = "end"   ->
         LET flushed == flush_tool_calls(d) IN [flushed EXCEPT !.events = Append(@, End)]
    [] ~d.poisoned /\ item.kind = "delta" /\ Overflows(d, item)   -> [d EXCEPT !.poisoned = TRUE]
    [] ~d.poisoned /\ item.kind = "delta" /\ ~Overflows(d, item)  -> Accumulate(d, item)

dispatched(d, items) ==
  LET after[n \in 0..Len(items)] == IF n = 0 THEN d ELSE DispatchItem(after[n - 1], items[n])
  IN  after[Len(items)]

\* A blank line.  A chunk that fails reports the error and none of its events.
dispatch_event(d) ==
  LET payload == d.data_lines
      cleared == [d EXCEPT !.data_lines = <<>>, !.event_payload_len = 0]
      done    == dispatched(cleared, Chunks[payload])
  IN  IF payload = <<>> THEN d
      ELSE IF payload \notin DOMAIN Chunks THEN poison_and_report(cleared)
      ELSE IF done.poisoned THEN poison_and_report(cleared)
      ELSE done

process_line(d) ==
  LET line  == d.line_buffer
      taken == [d EXCEPT !.line_buffer = <<>>]
      size  == d.event_payload_len + Len(line) - 1
  IN  IF "bad" \in ToSet(line) THEN poison_and_report(taken)
      ELSE IF line = <<>> THEN dispatch_event(taken)
      ELSE IF Head(line) # "data" THEN taken
      ELSE IF size > max_event_payload THEN poison_and_report(taken)
      ELSE [taken EXCEPT !.data_lines = Append(@, Tail(line)), !.event_payload_len = size]

Consume(d, unit) ==
  CASE d.poisoned                   -> d
    [] ~d.poisoned /\ unit = "nl"   -> process_line(d)
    [] ~d.poisoned /\ unit # "nl"   -> [d EXCEPT !.line_buffer = Append(@, unit)]

-----------------------------------------------------------------------------
consumed(d, bytes) ==
  LET after[n \in 0..Len(bytes)] == IF n = 0 THEN d ELSE Consume(after[n - 1], bytes[n])
  IN  after[Len(bytes)]

\* The decoder after a chunk of bytes, with the events it reports.
feedFromEmptyLine(d, bytes) ==
  LET fed == consumed([d EXCEPT !.events = <<>>, !.line_buffer = <<>>], bytes)
  IN  IF d.poisoned THEN [d EXCEPT !.events = <<Err>>]
      ELSE IF ~fed.poisoned /\ Len(fed.line_buffer) > max_line_buffer THEN poison_and_report(fed)
      ELSE fed

feedWithoutLineBound(d, bytes) ==
  IF d.poisoned THEN [d EXCEPT !.events = <<Err>>]
  ELSE consumed([d EXCEPT !.events = <<>>], bytes)

feed(d, bytes) ==
  LET fed == consumed([d EXCEPT !.events = <<>>], bytes)
  IN  IF d.poisoned THEN [d EXCEPT !.events = <<Err>>]
      ELSE IF ~fed.poisoned /\ Len(fed.line_buffer) > max_line_buffer THEN poison_and_report(fed)
      ELSE fed

\* The end of the body flushes the calls; a line or an event not ended is lost.
finish(d) ==
  IF d.poisoned THEN [d EXCEPT !.events = <<Err>>]
                ELSE flush_tool_calls([d EXCEPT !.events = <<>>])
=============================================================================
