------------------------------- MODULE Redaction -------------------------------
(***************************************************************************)
(* The redaction of an audit event's data before it is stored              *)
(* (crates/sc-proof/src/lib.rs).                                           *)
(*                                                                         *)
(* A text is the sequence of its words, a word being what comes before a   *)
(* whitespace character, so that two of those in a row have an empty word  *)
(* between them.  Of a word only its core counts, "" when it has none:     *)
(* "bearer" in any case, "prefixed" with a known vendor prefix, "long"     *)
(* enough for a token, or anything else.  A key of an object is sensitive  *)
(* when a marker is in its name.                                           *)
(***************************************************************************)
EXTENDS Sequences, SequencesExt

CONSTANT Sensitive   \* the keys whose name contains a marker

REDACTED == "[REDACTED]"

Json(is, words, items, fields) == [is |-> is, words |-> words, items |-> items, fields |-> fields]

JsonString(words)  == Json("string", words, <<>>, <<>>)
JsonArray(items)   == Json("array", <<>>, items, <<>>)
JsonObject(fields) == Json("object", <<>>, <<>>, fields)
JsonOther          == Json("other", <<>>, <<>>, <<>>)

looks_like_secret_token(core) == core \in {"prefixed", "long"}

ScrubWordAfterBearerOnly(s, core) ==
  LET secret == s.prev_core_is_bearer /\ core # ""
  IN  [out |-> Append(s.out, IF secret THEN REDACTED ELSE core), prev_core_is_bearer |-> core = "bearer"]

ScrubWord(s, core) ==
  LET is_bearer_token == s.prev_core_is_bearer /\ core # ""
  IN  [out |-> Append(s.out, IF is_bearer_token \/ looks_like_secret_token(core) THEN REDACTED ELSE core),
       prev_core_is_bearer |-> core = "bearer"]

scrub_scalar_string(words) ==
  FoldLeft(ScrubWord, [out |-> <<>>, prev_core_is_bearer |-> FALSE], words).out

RECURSIVE redact(_)
redact(value) ==
  CASE value.is = "object" ->
         JsonObject([key \in DOMAIN value.fields |->
                       IF key \in Sensitive THEN JsonString(<<REDACTED>>) ELSE redact(value.fields[key])])
    [] value.is = "array"  -> JsonArray([i \in DOMAIN value.items |-> redact(value.items[i])])
    [] value.is = "string" -> JsonString(scrub_scalar_string(value.words))
    [] value.is = "other"  -> value

\* AuditEvent::new: the kind and the description are stored as they are.
AuditEvent(seq, kind, description, data) ==
  [seq |-> seq, kind |-> kind, description |-> description, data |-> redact(data)]
=============================================================================
