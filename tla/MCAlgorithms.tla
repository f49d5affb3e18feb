------------------------------ MODULE MCAlgorithms ------------------------------
(***************************************************************************)
(* The algorithms of sc-node over their small inputs, and the steps that   *)
(* lead from one input to another: matching patterns, cutting and ranking  *)
(* memory, telling and replaying answers, redacting an event.  A behaviour *)
(* is about one of them.                                                   *)
(***************************************************************************)
EXTENDS Cases, Globs, Retrieval, Conversation, Redaction

Texts(letters, n) == UNION {[1..k -> letters] : k \in 0..n}
-----------------------------------------------------------------------------
(* Patterns against the arguments of a call. *)

String(text) == [is |-> "string", text |-> text, items |-> <<>>]
Array(items) == [is |-> "array", text |-> <<>>, items |-> items]
Other        == [is |-> "other", text |-> <<>>, items |-> <<>>]

Commands ==
  {String(text) : text \in Texts({"a", "A", "b", " "}, 4)} \cup {Other}
  \cup {Array(items) : items \in Texts({String(<<"a">>), String(<<" ", "b">>), String(<<>>), Other}, 2)}

PatternCases ==
  [tool : {"shell"}, pattern : Texts({"a", "b", " ", "*"}, 2) \cup {<<"a", "*", "b">>, <<"b", " ", "A">>},
   args : {<<>>} \cup {[cmd |-> cmd] : cmd \in Commands}]
  \cup
  [tool : {"file"}, pattern : Texts({"a", "/", "*"}, 3) \cup {<<"\\", "A">>},
   args : {<<>>} \cup {[path |-> path] : path \in {Other} \cup {String(text) : text \in Texts({"a", "A", "/", "\\"}, 3)}}]

\* A star in the text as well as in the pattern.
StarCases ==
  [tool : {"file"}, pattern : Texts({"a", "*"}, 3), args : {[path |-> String(text)] : text \in Texts({"a", "*"}, 3)}]
-----------------------------------------------------------------------------
(* Texts to cut into chunks and to embed. *)

ChunkCases == [words : {[i \in 1..n |-> i] : n \in 0..7}, size : 0..4, overlap : 0..5, dim : {0, 7, 8, 9, 16, 17}]
-----------------------------------------------------------------------------
(* A store of memories, and a query of it: entries are stored. *)

Vector(at) == [nan |-> FALSE, at |-> at]
NaN        == [nan |-> TRUE, at |-> <<0, 0>>]

Memory(id, workspace, tags, extra, embedding) ==
  MemoryEntry(id, embedding, MemoryMetadata(workspace, tags, IF tags = {} THEN {} ELSE {"s"}, extra))

Memories ==
  {Memory("near", "w", {"t"}, {}, Vector(<<1, 0>>)), Memory("nearer", "w", {"t", "u"}, {"k"}, Vector(<<2, 1>>)),
   Memory("far", "w", {}, {"k", "l"}, Vector(<<-1, 3>>)), Memory("zero", "w", {"u"}, {"k"}, Vector(<<0, 0>>)),
   Memory("nan", "w", {"t"}, {"k"}, NaN), Memory("longer", "w", {"t"}, {"k"}, Vector(<<1, 0, 0>>)),
   Memory("theirs", "v", {"t"}, {"k"}, Vector(<<1, 1>>))}

RetrievalCases ==
  [entries : SUBSET Memories,
   query : UNION {LET query == MemoryQuery("w", at, limit)
                      keyed == with_metadata(with_tags(query, {"t"}), "k")
                  IN  {query, with_tags(query, {"t"}), with_metadata(query, "k"), keyed, with_metadata(keyed, "l")} :
                    at \in {Vector(<<1, 1>>), Vector(<<-1, 0>>)}, limit \in 0..2}]

StoreMemory(entry) == Edit("retrieval", [config EXCEPT !.entries = @ \cup {entry}])

EditRetrieval == about = "retrieval" /\ \E entry \in Memories \ config.entries : StoreMemory(entry)
-----------------------------------------------------------------------------
(* A conversation: providers are asked, and what they answered is told. *)

MaxAsks == 2  \* bound: requests of a conversation

Call(id, arguments) == [id |-> id, kind |-> "function", function |-> [name |-> "ls", arguments |-> arguments]]

Outcomes ==
  [message : [content : {{}, {<<>>}, {<<"hi">>}},
              tool_calls : {<<>>, <<Call("c1", Broken)>>} \cup {<<Call(id, to_string([json |-> "path"])), Call("c2", to_string(Null))>> : id \in {"c1", "c3"}}],
   finish_reason : {"stop"}]

Line(content, tool_calls, done) ==
  [is |-> "chunk", done |-> done, content |-> content, tool_calls |-> tool_calls]

LocalCall(name, arguments) == [function |-> TRUE, name |-> name, arguments |-> arguments]

OllamaLines ==
  {Line(<<"hi">>, <<>>, FALSE), Line(<<"hi">>, <<LocalCall({"ls"}, {})>>, FALSE), Line(<<>>, <<>>, TRUE),
   Line(<<>>, <<LocalCall({"ls"}, {to_string([json |-> "path"])}), LocalCall({"rm"}, {})>>, FALSE),
   Line(<<>>, <<[function |-> FALSE, name |-> {}, arguments |-> {}], LocalCall({}, {Broken})>>, FALSE),
   [is |-> "blank"], [is |-> "garbage"]}

OllamaAnswers ==
  {[is |-> error, lines |-> <<>>] : error \in DOMAIN OllamaError} \cup {[is |-> "body", lines |-> lines] : lines \in Texts(OllamaLines, 2)}

Tell(provider, answer, events, counter) ==
  Edit("answers", [told |-> Append(config.told, [provider |-> provider, answer |-> answer, events |-> events]),
                   counter |-> counter])

AskOpenAi(outcome) == Tell("openai", outcome, outcome_to_stream_events(outcome), config.counter)

AskOllama(answer) ==
  LET completed == complete(answer, config.counter)
  IN  Tell("ollama", answer, completed.events, completed.counter)

EditAnswers ==
  /\ about = "answers" /\ Len(config.told) < MaxAsks
  /\ (\E outcome \in Outcomes : AskOpenAi(outcome)) \/ (\E answer \in OllamaAnswers : AskOllama(answer))
-----------------------------------------------------------------------------
(* Data of an event. *)

Cores   == {"", "plain", "bearer", "prefixed", "long"}
Strings == {JsonString(words) : words \in Texts(Cores, 3)}

RedactionCases ==
  Strings \cup {JsonArray(<<JsonString(<<a>>), JsonString(<<b>>), JsonOther>>) : a, b \in Cores}
  \cup {JsonObject([key \in {"cmd", "api_token"} |-> IF key = "cmd" THEN JsonArray(<<a>>) ELSE b]) :
          a \in Strings, b \in {JsonOther, JsonString(<<"plain">>), JsonArray(<<JsonString(<<"long">>)>>)}}
-----------------------------------------------------------------------------
AlgorithmsInit ==
  \/ about = "patterns"  /\ config \in PatternCases
  \/ about = "chunks"    /\ config \in ChunkCases
  \/ about = "retrieval" /\ config \in RetrievalCases
  \/ about = "answers"   /\ config = [told |-> <<>>, counter |-> 0]
  \/ about = "redaction" /\ config \in RedactionCases

AlgorithmsNext == EditRetrieval \/ EditAnswers

GlobSpec == (about = "stars" /\ config \in StarCases) /\ [][FALSE]_case_vars
-----------------------------------------------------------------------------
(* Properties. *)

Derived(case) == IF case.tool = "shell" THEN derive_shell_target(case.args) ELSE derive_file_target(case.args)

\* From its arguments to the match, a command is its words, lower-cased and one
\* space apart, however it is spaced, cased or split into an array: an allow
\* pattern must begin it and a deny pattern may stand anywhere in it, so that
\* what is allowed by a pattern is denied by it; a path is matched whole or by its
\* last component, with either slash.  Nothing is matched of other arguments.
PatternsMean ==
  about = "patterns" =>
    LET target    == Derived(config)
        argument  == IF config.tool = "shell" THEN "cmd" ELSE "path"
        value     == config.args[argument]
        said      == IF value.is = "array" THEN FlattenSeq([i \in DOMAIN value.items |-> <<" ">> \o value.items[i].text])
                     ELSE value.text
        command   == Spaced(lower(said))
        path      == normalize_file_path(said)
        pattern   == IF config.tool = "shell" THEN lower(config.pattern) ELSE normalize_file_path(config.pattern)
        matched(is_deny) == matches(target, config.pattern, is_deny)
    IN  IF \/ argument \notin DOMAIN config.args \/ value.is = "other"
           \/ \E i \in DOMAIN value.items : value.items[i].is = "other"
        THEN target = None
        ELSE IF config.tool = "shell" THEN
             /\ target = None <=> command = <<>>
             /\ target # None => /\ matched(FALSE) <=> Matches(Append(pattern, "*"), command)
                                 /\ matched(TRUE) <=> Matches(<<"*">> \o Append(pattern, "*"), command)
                                 /\ matched(FALSE) => matched(TRUE)
        ELSE /\ target = None <=> path = <<>>
             /\ target # None => \A is_deny \in BOOLEAN :
                  matched(is_deny) <=> \/ Matches(pattern, path)
                                       \/ \E i \in DOMAIN path : /\ path[i] = "/"
                                                                 /\ \A j \in i + 1..Len(path) : path[j] # "/"
                                                                 /\ Matches(pattern, SubSeq(path, i + 1, Len(path)))

\* However a text is cut, its chunks cover it: no word is lost or moved between
\* them, and each begins with as many words of the one before as asked.  An
\* embedding has the length asked for, and a longer one only goes on.
ChunksCover ==
  about = "chunks" =>
    /\ Covers(chunk_text(config.words, config.size, config.overlap), config.words, config.size, config.overlap)
    /\ Len(hash_embed("text", config.dim)) = config.dim
    /\ IsPrefix(hash_embed("text", config.dim), hash_embed("text", 20))

Results(case) == search(case.entries, case.query)

Comparable(case) == \A entry \in MemoryCandidates(case.entries, case.query) : ~IsNaN(entry.embedding)

\* An entry that is stored changes the results of a query by at most its own
\* place: they are the old ones, or the old ones with it put in and the last one
\* pushed out; and one of another workspace, without the tag or the metadata, or of
\* another dimension changes nothing.  What is cited belongs to the workspace
\* and nothing found is closer.  The order holds as long as every score is a number.
SearchRanks ==
  [][about = "retrieval" =>
       \A entry \in Memories \ config.entries : StoreMemory(entry) =>
         LET query == config.query
             told  == entry.metadata
             fits  == /\ told.workspace = query.workspace /\ query.metadata \ told.extra = {}
                      /\ query.tags = {} \/ \E tag \in query.tags : tag \in told.tags
                      /\ Len(entry.embedding.at) = Len(query.embedding.at)
         IN  /\ ~fits => Results(config') = Results(config)
             /\ \A result \in Results(config') :
                  \A i \in DOMAIN result : result[i].metadata.workspace = query.workspace /\ Len(result) <= query.limit
             /\ Comparable(config') => \A result \in Results(config') :
                  LET others == SelectSeq(result, LAMBDA found : found # entry) IN
                  /\ \E old \in Results(config) : IsPrefix(others, old) /\ (others = result => old = result)
                  /\ fake_answer(result) = {} <=> result = <<>>
                  /\ \A cited \in fake_answer(result) : \E top \in MemoryCandidates(config'.entries, query) :
                       /\ cited \in IF top.metadata.source = {} THEN {top.id} ELSE top.metadata.source
                       /\ \A other \in MemoryCandidates(config'.entries, query) : ~Higher(other, top, query.embedding)]_case_vars

\* The assistant turn that a caller makes of the events of an answer.
Turn(events) ==
  LET said == SelectSeq(events, LAMBDA event : event.is \in {"TextDelta", "ToolUse"})
  IN  Message("assistant", [i \in DOMAIN said |-> IF said[i].is = "TextDelta" THEN Text(said[i].text) ELSE said[i]])

ToolUses(events) == SelectSeq(events, LAMBDA event : event.is = "ToolUse")

\* The turn and the result of each of its calls.
Replay(events) ==
  <<Turn(events)>> \o [i \in DOMAIN ToolUses(events) |-> tool_result(ToolUses(events)[i].id, <<"done">>)]

Request(messages) == CompletionRequest("", {<<"prompt">>}, {"ls"}, messages)

\* The answer of an OpenAI-compatible provider that is replayed to it says again
\* what it said: its text, and its calls with their ids, names and arguments, but
\* for arguments that were no JSON.  Every tool message of the request then answers
\* a call of the assistant message before it, behind the system prompt.  Two calls
\* of Ollama, which gives them no ids, never have the same one, in whatever answers
\* they came; no text is lost on the way from or to it; and an answer that fails
\* tells nothing.
AnswersSurviveReplay ==
  about = "answers" =>
    /\ \A i \in DOMAIN config.told : LET told == config.told[i] IN
         /\ told.provider = "openai" =>
              LET sent == build_request_body(build_chat_completion_request(Request(Replay(told.events)), "m"), TRUE).messages
                  said == told.answer.message
              IN  /\ sent[1].role = "system" /\ sent[2].role = "assistant"
                  /\ sent[2].content = said.content \ {<<>>}
                  /\ DOMAIN sent[2].tool_calls = DOMAIN said.tool_calls
                  /\ \A n \in DOMAIN said.tool_calls : LET call == said.tool_calls[n] IN
                       sent[2].tool_calls[n] = IF call.function.arguments = Broken
                                               THEN Call(call.id, to_string(Null)) ELSE call
                  /\ Len(sent) = 2 + Len(said.tool_calls)
                  /\ \A n \in 3..Len(sent) : sent[n].tool_call_id = {said.tool_calls[n - 2].id}
         /\ told.provider = "ollama" =>
              LET texts  == SelectSeq(told.answer.lines, LAMBDA line : line.is = "chunk" /\ ~line.done /\ line.content # <<>>)
                  deltas == SelectSeq(told.events, LAMBDA event : event.is = "TextDelta")
                  sent   == build_ollama_chat_request(Request(<<Turn(told.events)>>), "m").messages
              IN  /\ told.answer.is # "body" => told.events = <<>>
                  /\ [n \in DOMAIN texts |-> texts[n].content] = [n \in DOMAIN deltas |-> deltas[n].text]
                  /\ SelectSeq(sent[1].content, LAMBDA word : word # "\n") =
                       FlattenSeq([n \in DOMAIN texts |-> texts[n].content])
    /\ \A i, j \in {n \in DOMAIN config.told : config.told[n].provider = "ollama"} :
         LET a == ToolUses(config.told[i].events)
             b == ToolUses(config.told[j].events)
         IN  \A m \in DOMAIN a, n \in DOMAIN b : a[m].id = b[n].id => i = j /\ m = n

RECURSIVE Hidden(_, _)
\* Nothing secret is left of a value, and the rest of it is as it was.
Hidden(value, stored) ==
  /\ stored.is = value.is
  /\ DOMAIN stored.fields = DOMAIN value.fields /\ DOMAIN stored.items = DOMAIN value.items
  /\ DOMAIN stored.words = DOMAIN value.words
  /\ \A key \in DOMAIN value.fields :
       IF key \in Sensitive THEN stored.fields[key] = JsonString(<<REDACTED>>)
       ELSE Hidden(value.fields[key], stored.fields[key])
  /\ \A i \in DOMAIN value.items : Hidden(value.items[i], stored.items[i])
  /\ \A i \in DOMAIN value.words :
       /\ stored.words[i] \notin {"prefixed", "long"}
       /\ i > 1 /\ stored.words[i - 1] = "bearer" => stored.words[i] \in {"", REDACTED}
       /\ value.words[i] = "plain" /\ (i > 1 => value.words[i - 1] # "bearer") => stored.words[i] = "plain"

\* Of an event's data no word that looks like a token, or follows "Bearer", and no
\* value under a sensitive key is stored, at any depth; keys, the shape of the data
\* and ordinary words are kept.
RedactionReaches == about = "redaction" => Hidden(config, AuditEvent(1, "tool_call", "", config).data)
-----------------------------------------------------------------------------
(* What the repository says and the code does not do. *)

\* "`*` in `pattern` matches any run of bytes (including none)".
StarMatchesAnyRun ==
  about = "stars" => glob_match(config.pattern, config.args.path.text) = Matches(config.pattern, config.args.path.text)
=============================================================================
