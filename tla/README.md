# A verification project for sc-node

sc-node is a local-first agent runtime: it sends a task to a language model,
streams the answer, runs the tools the model asks for under a permission policy,
keeps an audit log of what ran, and remembers things in a memory store.  This
directory holds TLA+ models of the parts of it that decide, order, retry and
persist, the TLC configurations that check them on small instances, and proofs
about the session, the stream of an answer, the audit log, both memory stores, the
tools, the decisions, the matcher of patterns and the chunks of a text that TLAPS checks for every instance.

Paths below are relative to `crates/` of the repository.  A comment above each
definition says which code it stands for; `PROJECT.json` gives the exact lines.

## 1. The system

| Component | State it keeps | Operations | What makes it hard |
|---|---|---|---|
| Agent session, `sc-agent-core` | conversation, approval mode, "allow all" flag, round counter | `run_session`, `repl_loop`, `execute_task`, `dispatch_tool_call`, `resolve_ask`, `emit` | every step awaits somebody: provider, user, tool; state is copied before an await and used after it; a task may fail at six places |
| Permissions, `sc-tool-core` | none (pure) | `check_permission`, `derive_target` | policy words, deny and allow patterns, and the fallback from a tool to its family interact |
| Glob matcher, `sc-tool-core` | none | `derive_target`, `normalize_shell_command`, `glob_match` | backtracking with two pointers; commands are written, spaced and split in many ways |
| Approval gate of the CLI, `sc-tool-core` | none | prompt and answer | terminal input |
| Routing, `sc-provider-core/routing.rs` | none | `resolve_route`, and the pruning of rules by the session | rules and providers change independently; a cloud provider must never be reached silently |
| OpenAI-compatible client, `sc-provider-core/openai_compat.rs`, `sse.rs` | retry counter, line buffer, event buffer, partial tool calls | `chat_completion_stream`, `chat_completion`, `list_models`: request loop, `feed`, `finish`, the stream a consumer polls | bodies cut into chunks anywhere, interleaved tool calls, three bounds, broken connections, retries |
| Audit log, `sc-audit` | active file, its size, rotated files | `new`, `log`, `rotate`, `read_last` | a rotation is many system calls, each may fail, the process may die between two |
| Reference store, `sc-memory/reference.rs` | map and append-only log | `open`, `replay`, `add`, `update`, `delete`, `search` | log and map must agree through failed writes and crashes |
| TurboVec store, `sc-memory/turbovec_backend.rs` | a reference store and an index | same, and the fallback search | two locks that are never held together by a mutation; dropped futures |
| Retrieval, `sc-memory/rag.rs`, `types.rs`, `fake_embedding.rs` | none | `chunk_text`, `hash_embed`, `cosine_similarity`, `search`, `fake_answer` | boundaries of chunks; filters, order and limit of a search, scores that are no numbers |
| Contracts and preflight, `sc-contract` | none | `parse`, `validate`, `into_contract`, `preflight` | about a dozen fields, each with a default that must fail closed |
| Proof bundles, `sc-proof` | hash chain over audit events | `ProofBundle::new`, `with_*`, `redact`, `build_chain`, `verify`, `check_event_count`, `chain_head` | a bundle may be edited anywhere between recording and verification; secrets stand anywhere in an event |
| Configuration, `sc-config`; start of `src/main.rs` | the configuration file | `load_from`, `apply_env_overrides`, `validate`, `create_default`, `config show`, construction of the providers | every field has a default, which need not be empty; keys come from the environment |
| Messages and provider traits; Ollama, NVIDIA, OpenRouter providers | Ollama's counter of call ids | constructors of messages, request bodies, `parse_ollama_chat_line`, `complete`, `outcome_to_stream_events` | what a provider said is replayed to it in its own form |
| Sandbox, `sc-sandbox` | none | `resolve_and_check_path`, `is_path_allowed`, `SandboxedCommand::execute` | `..`, links, paths that do not exist yet |
| File and shell tools, `sc-tool-file`, `sc-tool-shell` | the disk | `read_file`, `write_file`, `list_dir`, `shell` | check before use, a write in several steps, a command that does not end |
| Benchmark, API consumer | none | measurement, compilation | - |

How they interact.  The command line builds a `Session` from the configuration,
the providers, the tool registry, an optional audit logger and an approval gate.
The session calls the router once per task, then a provider once per round; the
provider answers with a stream of events (text, tool calls, end, error) that the
session polls.  For each tool call it asks the permission checker, perhaps the
approval gate, then the tool; it writes an audit entry (and ignores whether that
worked) and adds the result to the conversation.  The audit log is shared by the
tasks of a process, and by several processes that name the same path.  The
memory stores are called by any number of tasks at once.

Correctness, in one line each:

- *session*: a tool runs only for a permitted call, calls run once and in order, every call is answered, a task ends;
- *permissions*: nothing but an explicit "allow" runs without approval, deny wins;
- *routing and configuration*: a task goes to a usable provider, and to the cloud only where the file enables it; what is shown of a configuration is what it is;
- *patterns*: a command is matched as its words, however it is written; an allowed command is denied by the same pattern;
- *client*: how a body is cut does not matter, failures and only failures are reported, nothing is made up, memory is bounded;
- *conversation*: an answer replayed to its provider says what it said;
- *audit log*: entries stay in order, only the oldest are dropped, the disk is bounded, a silent loss is preceded by an error;
- *reference store*: what was acknowledged survives restarts; a search finds the nearest of what it may;
- *TurboVec store*: a search misses nothing, stays in its workspace, and scores entries by their own vectors;
- *contracts*: leaving out a field whose absence means its most restrictive value opens nothing but the local providers, and local data stay local;
- *proof bundles*: an edit of the chain shows, and no secret is stored;
- *sandbox and tools*: only what the workspace allows is touched, and a result tells what happened.

The full list of what is hard to test, line by line, is under `hazards` in
`PROJECT.json`.

## 2. The modules

| Module | Models | State and actions |
|---|---|---|
| `ToolPermissions` | `sc-tool-core`: `check_permission`, `derive_target` | operators; that a pattern matches a text is a constant relation |
| `Globs` | `sc-tool-core`: from the arguments of a call to the match | operators on sequences of characters; the matcher's loop is a function of its state |
| `Routing` | `routing.rs`, and `available_providers`, `resolve_route` of a session | operators on sequences of providers and rules |
| `Preflight` | `sc-contract`: `parse`, `validate`, the defaults of `into_contract`, and every check of `preflight` | operators; an optional field is a set of at most one value, a path is a sequence of segments |
| `ProofChain` | `sc-proof`: the construction of a bundle, the chain, and the command that verifies it | operators; a hash is the pair of what is hashed |
| `Redaction` | `sc-proof`: `redact`, `scrub_scalar_string` | a text is a sequence of words, of which only what makes them secret counts |
| `Startup` | `sc-config`, the start of `main`, and what a provider refuses to be built with; extends `Routing` | a file is its sections and their fields; the environment is given; a base URL is its host, and what stands behind a later "@" |
| `Conversation` | `sc-message-types`, the requests and complete answers of `sc-provider-core`, `-nvidia`, `-openrouter`, `-ollama` | operators from messages to requests and from answers to events |
| `Retrieval` | `rag.rs`, `fake_embedding.rs`, `types.rs`, and `search` of `reference.rs` | operators; vectors of integers, so that cosines are compared exactly |
| `Sandbox` | `sc-sandbox`: path checks as built for Unix | operators on a disk, a function from paths to what is there |
| `Workspace` | `sc-tool-file`, `sc-tool-shell`, and the command of `sc-sandbox`; extends `Sandbox` and `ToolPermissions` | one action per call of the operating system, each of which may fail; another process may change the disk in between |
| `Workspace_proofs` | theorems about `Workspace` | - |
| `AgentSession` | `sc-agent-core`, and the approval gate of the command line | one action per piece of code between two awaits; `phase` says where `execute_task` is |
| `ToolGate` | what a session promises about tool calls | abstract: requests are settled in order, as the standing decision and the consent say |
| `AgentSession_proofs` | theorems about `AgentSession`, and that it implements `ToolGate` | - |
| `AuditLog` | `sc-audit` | one action per system call of `log` and `rotate`, any of which may fail; a crash anywhere |
| `AuditLog_proofs` | theorems about `AuditLog` with one writer | - |
| `SseDecoder` | `sse.rs` | operators on a decoder record: `feed`, `finish`, `dispatch_event`, the accumulation of tool calls |
| `ChatStream` | the requests of `openai_compat.rs` | the request loop, the body read whole, or the unfold loop, one action per iteration; extends `SseDecoder` |
| `ChatStream_proofs` | theorems about the retries, the decoder and the stream | - |
| `MemoryMap` | what a `MemoryStore` promises | abstract: a map that changes by one operation at a time |
| `ReferenceStore` | `reference.rs` | `open`, `add`, `update`, `delete`, failed and cut writes, restarts |
| `ReferenceStore_proofs` | theorems about `ReferenceStore`, and that it implements `MemoryMap` | - |
| `TurboVecStore` | `turbovec_backend.rs` | a mutation is two actions, one per lock; searches, fallbacks, dropped futures |
| `TurboVecStore_proofs` | theorems about `TurboVecStore` | - |
| `Induction` | natural numbers from zero, least and greatest elements, and that a function defined from each value to the next exists; used by the proofs | - |
| `MCAgentSession`, `MCAuditLog`, `MCChatStream`, `MCReferenceStore`, `MCTurboVecStore` | instances for TLC | constants, and the refinement mapping to `MemoryMap`; that to `ToolGate` is in `AgentSession` |
| `Cases` | a behaviour about one part that decides or computes without acting | the part and its input, which is edited |
| `DecisionEdits` | what is done to the input of a decision: a pattern is added to an entry, a provider turned off, a field of a contract left out, a bundle tampered with, a configuration shown and kept; extends `ToolPermissions`, `Startup`, `Preflight`, `ProofChain` | one action per edit, and the properties of the decisions |
| `DecisionEdits_proofs` | theorems about the decisions, and about `Globs` and `Retrieval` | - |
| `MCDecisions`, which extends `DecisionEdits`, `MCAlgorithms` and `MCWorkspace` | instances for TLC | the small inputs of the decisions; `MCAlgorithms` has those of the algorithms with their properties, `MCWorkspace` the small workspace |

`AgentSession` composes `ToolPermissions` and `Routing`: the decision on a call
and the route of a task are the ones of those modules, not choices.  `Startup`
composes the configuration with `Routing`, and `Workspace` the tools with
`Sandbox` and `ToolPermissions`.  What is
outside a component is a nondeterministic choice over what it may answer: the
provider's events in `AgentSession`, the approval gate, the tool's result, the
audit logger (absent, healthy or failing, fixed for a session); the server, the
network and the clock in `ChatStream`; the file system in `AuditLog`,
`ReferenceStore` and `Workspace`, with another process at work in the last; the vector index library in `TurboVecStore`.

### How state corresponds to code

- `AgentSession`: `messages`, `approval_auto_allow`, `mode` are fields of
  `Session`; `allow_all` is the field of `ApprovalState`, a copy of
  `approval_auto_allow` made when a task starts and copied back when it ends
  normally, and only then.  `tool_calls_this_round` holds the calls requested in a
  response and not yet settled, by the number a call got when it was requested,
  so that the same call requested twice is two calls.  A message is abstracted to
  its role and the call it answers, a task to the keywords it contains, arguments
  to a model value.  `asked`, `executed` and `answers` are history.
- `AuditLog`: `dir` maps the names `path`, `path.log.1`, ... to files; a file keeps
  existing while a writer holds it, whatever its name becomes.  A line is the id of
  its entry and whether it is torn.  `handle = 0` is `file = None`.
- `SseDecoder`: bytes are abstracted to units that are whole for every decision
  the decoder takes: the line break, the words that start a line, a comment, a
  data payload, a byte that is not UTF-8.  What a payload parses to is the constant
  `Chunks`.  Lengths are counted in units, and the three bounds with them.
- `ReferenceStore`: a line of the log is a record, or `Garbage`, and whether it
  was ended; a record written after one that was not ended joins it and is garbage.
- `TurboVecStore`: a vector is a name with a configuration; a score is abstracted
  to the vector it was computed from, the ranking to a choice of any candidates.
  `slot_id` maps an id to the half of its UUID the index uses.
- `Globs`: `Iterate` is one turn of the loop of `glob_match`, and its state the four
  variables of the loop.  `Matches` is what the documentation says a pattern is.
- `Conversation`: a text is a sequence of words, arguments are a JSON value or its
  text, and reading the text that was written gives the value back.
- `Startup`: a section or field that a file leaves out is absent, and reading it
  overlays the default with what is there, as serde does; blank is one word.
- `Retrieval`: a cosine is compared by its signed square, without roots.
- `Workspace`: `before`, `touched`, `nowhere` and `meddled` are history; `at` says
  where `execute` is.

## 3. The runs

Sizes are those of TLC on these configurations.

| Run | States | Question | Bounds, and why they are enough |
|---|---|---|---|
| `decisions` | 101 k | do the pure decisions and algorithms keep their promises for every small input, and from one to the next; do the tools keep to the workspace? | permissions: two patterns, three tools, five sets of entries, so that own entry, family entry and default all meet; routing: three providers, two rules, so that a first match, a shadowed one, a fallback and a dropped rule occur; contracts: every field written with one to three values, one left out at a time, another version, a blank text, plans with at most two files, tools, hosts; bundles: 3 events so that one is neither first nor last, 2 edits; patterns of 3 characters against texts of 4, enough for a star with a false start; up to 7 words in chunks of up to 4; 7 memories in two workspaces, one not a number, one of another dimension, limits 0 to 2; 2 answers in a conversation; files of six sections in two to seven forms each, base URLs of this machine, of others and misread; texts of 3 words at two depths; one call in 5 workspaces on 8 disks |
| `agent_repl` | 433 k | does a session run only what is permitted, once, in order, answered and logged, across rounds and tasks, does it implement `ToolGate`, and does every task end? | the code's own limit of 3 rounds; 2 tasks, because "allow all" crosses one border; up to 2 calls in a response, so that there is a first and a next one; 3 calls of any kind, and for a model that asks for the same call in every response 4 more, which is more than the limit lets two tasks ask for |
| `audit` | 441 k | what does the directory hold after any rotation, fault or crash? | 3 files so that one rename, one removal and the move happen; entries of size 1, 2 and 4 against a maximum of 3, so one is below, two reach and one exceeds it; 5 entries fill all files and drop the oldest; 2 faults, 1 crash |
| `chat` | 730 k | does the stream deliver what the body means, whatever the chunks and failures, which failures are retried, and does the stream end? | 2 frames of 10 kinds and a cut-off third; line bound 3, event bound 2, argument bound 2, so that frames lie on both sides of each; 2 retries; after a retry at most 1 frame, since the decoder does not know of it |
| `memory_log` | 56 k | does the log restore the map, and implement `MemoryMap`? | 2 ids, 2 entries, 4 operations, 1 failed write, 2 crashes or restarts: a cut line, one appended to it, and a reopening after it |
| `turbovec` | 4.4 M | is a search right whatever mutations are half-way? | 2 tasks, 2 ids with own slots or a shared one, 2 workspaces, 3 vectors of which one is of another model, limits 1 and 2, so that a search cuts off and does not, one dropped future |

Six more runs look for a disagreement between the repository's words and its
code, and find one each (section 5).

Deadlock is checked, with an explicit `Terminated` step, where a session or a
stream ends.  It is switched off for `audit` and `memory_log`, whose histories
stop at their bounds, and for `decisions`, whose behaviours are one or two edits
or one call of a tool.

Every property of a passing run has a mutant in `PROJECT.json`: a definition
changed as a plausible mistake in the code would change it, under which TLC
finds the property violated.  The mutated definitions stand next to the true ones
(`ShiftOneKeepingOldest` next to `ShiftOne`) and are used by nothing else.

### Fairness

- `agent_repl` (`FairSpec` of `AgentSession`): `execute_task` is driven to its end
  by the runtime, so its own steps (`dispatch_tool_call`, `emit`) are weakly fair.
  That a provider's response begins and ends is justified by the client's timeout
  (`StreamEnds` in `chat`).  That the approval gate and the tools answer is a
  premise: the code gives neither a time limit, and a user who walks away does
  stop a session.  Nothing is assumed of the user at the prompt, and nothing forces
  a model to stop asking for tools: the round limit does.  A model that asks in every
  response for what `EndlessCalls` has is followed to 7 calls, and then (`CutOff`) it
  is not assumed that its response ends, so that the bound cannot stand in for the
  limit.  With the limit a task that asks in three responses is the last, so that two
  tasks ask in five at most, for 6 calls at most, and `CutOff` is never reached;
  without it TLC finds a task that does not end.  A session that has asked for another
  call is taken to ask for 3 at most.
- `chat` (`FairSpec` of `ChatStream`): a request is answered, or the client's
  timeout is its answer; a body yields a chunk, ends, or is broken by the timeout;
  `execute_task` polls until the stream is over.  Which of these happens is free.

All other runs check safety, or steps, without fairness.

## 4. What is proved

Six components, the pure decisions and two algorithms have proofs, in modules of their
own next to those they are about; TLAPS checks every step down to the last leaf.  A
theorem holds for every value of the constants that satisfies the named assumptions of
the modules it is about, which TLC evaluates on the run of that module.

### The session

`AgentSession_proofs` holds for every registry, set of calls, permission and routing
configuration, set of tasks, round limit, number of tasks and number of calls in a
response.  The assumptions are `SessionAssumption`: a call has a
name and arguments, the round limit is a positive natural number, the other bounds
are natural numbers.

| Theorem | Says |
|---|---|
| `Invariance` | `Spec => []IndInv` |
| `TypeCorrectness` | `Spec => []TypeOK`; with it, the rounds of a task never pass the limit |
| `PermissionSafety` | `Spec => []ExecutedOnlyIfPermitted`: a tool runs only for a call of a registered tool that the policy allows, or asks about and the user consented to |
| `ExecutionOrder` | `Spec => []CallsRunOnceInOrder`: no call runs twice, none out of order |
| `CallsAreAnswered` | `Spec => []EveryCallAnsweredOnce`: when the conversation goes to the provider, and when a task is over, every call ever requested has exactly one result in it, in the order of the calls |
| `LogTellsWhatRan` | `Spec => []AuditTellsWhatRan`: a healthy log has one entry per settled call, "Denied" exactly if the tool did not run |
| `AllowAllIsRemembered` | `Spec => []NoPromptAfterAllowAll`: after "allow all" no later call is put to the user, in this task or the next |
| `ConversationInOrder` | `Spec => []ResultsInOrder`: the results in the conversation are those of calls 1, 2, ... as far as they are settled, in that order |
| `Refinement` | `Spec => ImplementsToolGate` |

The argument.  `ExecutedOnlyIfPermitted` alone is not inductive: a tool runs some
steps after its call was decided, and nothing in the property remembers the
decision.  `IndInv` adds what is known on the way:

- `CallsInPhase`: in which phases there is a call at hand, and that the round
  counter is below the limit wherever another round may follow;
- `CallAtHand`: a call put to the user is one the policy asks about, and a call on
  its way to its tool is already permitted;
- `AllowAllWasSaid`: an "allow all" in force, in the task or kept by the session,
  was said to a call not later than any still waiting, hence covers them all;
- `CallsInOrder`: the calls waiting are increasing and none of them has run, except
  the one at hand after its tool ran and before its result is emitted;
- `CallsSettled`: the calls requested are those settled, followed by those waiting;
  each settled one has its result, and the results are in increasing order;
- `LogInStep`: the healthy log has the settled calls, each once, and what it says of
  them is so; before `emit` the outcome at hand is already true of its call;
- `UserAsked`: who is being asked is in interactive mode without "allow all", and an
  "allow all" once said is in the flag of the running task, or of the session between
  two tasks, unless a failed task ended the session: this is what copying the flag
  into the task and back has to achieve;
- `RefusedForCause`: a call whose refusal is about to be emitted was refused by the
  policy or by the user.

Permission also has to be stable: consent is only ever added, and a call is never
changed once requested (`HistoryStable`, `PermittedStable`).  Each conjunct is then
a lemma about one step, `Invariance` puts them together, and the others follow.
The decision itself enters through two lemmas about the pure functions:
`DecisionType` and `VerdictSound`.  TLC checks `IndInv` as an invariant in
`agent_repl`.

The refinement maps a session to the calls requested, the calls settled and the
consent.  A streamed tool call is a request of `ToolGate` (`StreamToolUseRequests`);
`emit` settles the first open one (`HeadIsCurrent`), with the verdict the policy and
the consent give it (`EmitSettles`, from `RefusedForCause` and `PermissionSafety`);
an answer of the user changes the consent only; everything else is a stutter
(`QuietSteps`).  What is settled is computed from the conversation by a recursive
function, so the proof needs what that function gives for one message more
(`ResultsAppend`).

### The stream of an answer

`ChatStream_proofs` holds for every set of frames, every meaning of their payloads,
every number of retries and of frames, and every bound of the decoder.  The assumptions:
`DecoderAssumption` (the three bounds are natural numbers, a payload means a sequence
of items) and `StreamAssumption` (so are the retries and numbers of frames, a frame is
a sequence of units).

| Theorem | Says |
|---|---|
| `RetriesAreBounded` | `Spec => []RetriesOnlyTransient` |
| `BuffersStayBounded` | `Spec => []BuffersBounded` |
| `StreamInvariance` | `Spec => [](StreamTyped /\ StreamInStep)` |
| `ChunksMakeNoDifference` | `Spec => []DecodedAsOne`: a stream that ends without an error has delivered what the body decodes to in one piece; one that ends with an error, a beginning of that |
| `ErrorsComeLast` | `Spec => []ErrorsEndTheStream`: after an error only errors follow, and a broken connection is never taken for the end of the body |

The argument.  For the retries, `AnswersSoFar` counts: while the loop runs, every
answer was transient and used up one attempt; once it is left, the last answer decided.
For the bounds, `Sound` says what a decoder is between two chunks, and a lemma per
operator of `SseDecoder` (`FlushKeeps`, `AccumulateKeeps`, `ProcessLineKeeps`, ...)
that it stays so; a decoder past a bound is poisoned and keeps nothing.

That chunks make no difference needs a relation between two decoders: `Follows(e, d, p)`
says that p holds what d holds and has reported the events e before.  Every operator
preserves it (`FlushFollows`, `ItemFollows`, `ConsumeFollows`, ...), because none
reads the events it has reported; hence units consumed in two parts leave what they
leave in one (`ConsumedInTurn`).  The invariant is then `CaughtUp`: as long as no
error has occurred, some beginning of the body has been received, the rest is on the
wire, and what the consumer got or is about to poll, followed by the decoder as it is,
is what that beginning decodes to.  `StreamInStep` adds what is left when the stream
has ended, and that errors come last.

### The audit log

`AuditLog_proofs` holds for one writer, every size limit, number of files (at least
one), set of entry sizes (positive), and every number of entries, failing calls and
crashes (`AuditAssumption`).  The theorems are stated `ASSUME NEW w, Writers = {w}`:
with two writers they are false, as the hazard about two processes says.

| Theorem | Says |
|---|---|
| `Invariance` | `Spec => []Inv(w)` |
| `FilesStayInOrder` | `Spec => []FilesInOrder`: across the files from the oldest on, entries are in the order they were logged, and `read_last` tells the last ones of the active file |
| `RotationDropsOldest` | `Spec => []OnlyOldestDropped`: only the oldest entries go, only to make room, and an entry answered with Ok that is nowhere comes after one answered with Err |
| `LogIsBounded` | `Spec => []DiskBounded` |

The argument.  A rotation is many system calls, any of which may fail or be the last.
`Directory` says what holds between them: no file has two names, the slot about to be
renamed into is free, and the file held is the active one.  `InFile` and `AcrossFiles`
order the entries in a file and from file to file, whatever the names are at the
moment.  `Sizes` accounts for the first line of a file, which `current_size` does not
count, so that a limit on the counter is a limit on the file.  `OldestDropped` and
`NoGaps` say that what is gone is older than what is there, and that without failures
the numbered files have no hole but the one the rotation is moving; `Answered` relates
what `log` returned to what was written.

### The reference store

`ReferenceStore_proofs` holds for every set of ids and entries and any number of
operations, failing or cut writes, crashes and restarts.  `ReferenceAssumption`:
entries that can be stored are entries, the schema version and the three bounds are
natural numbers, and a torn write leaves a part of a line or a line that is not ended.

| Theorem | Says |
|---|---|
| `Invariance` | `Spec => []Inv` |
| `LogMirrors` | `Spec => []LogMirrorsMap`: an intact log replays to the map in memory; a log that `open` accepts has, for every id without a failed operation, what the operations that returned Ok left there |
| `Refinement` | `Spec => ImplementsMap`: through failures, crashes and restarts the map changes by one operation on one id at a time |

The argument.  The hard case is a log whose last line was not ended: the operation
failed, so the map in memory lacks it, but `replay` would read it, until the next write
joins it and makes one line of garbage of both, which `open` then refuses.  `MapOfLog`
says that the map is what the log replays to, or one operation behind it and then the
log is not clean; `LogHolds` compares the log with what was acknowledged, for ids that
are not in doubt.  `replay` is a recursive function of the log; that it exists, and
that one line more is one operation more, is proved by induction (`ReplayIs`,
`ReplayAppend`).  For the refinement a store that is closed is mapped to what its log
holds (`KeptIs`), so that opening it is a stutter; an operation that failed, or was cut
by a crash, with its whole record in the log takes effect when the store closes.

### The tools

`Workspace_proofs` holds for every workspace, permission policy, set of calls and time
limit, and every set of disks as `WorkspaceAssumption` has them: paths are sequences of
names, a disk is a tree, and there is no link on the way to where a link leads, there,
or below, so that one link at most is followed.  That is the assumption under
which the model of `canonicalize` is what the operating system does.

| Theorem | Says |
|---|---|
| `Invariance` | `WorkspaceSpec => []Inv` |
| `OnlyAllowedIsTouched` | `WorkspaceSpec => []TouchesOnlyAllowed`: whatever ".." and links make of a path, the one that is used is the one that was checked |
| `ResultsTell` | `WorkspaceSpec => []ResultTellsWhatHappened` |

The argument.  The path is checked on one disk and used on later ones.  `DiskInStep`
says what may have changed in between as long as no other process meddles: only
directories on the way to the target and the target itself, and the disk is still a
tree.  Such growth leaves what a checked path really is unchanged (`TreeGrows`,
`RealSame`, `RealOfPart`), hence `AllowedInUse`: what is about to be used is allowed.
`CheckedLeadsToAllowed` connects the check, which resolves the nearest parent that
exists, with the real path of the target.  With a meddling process, or through a link
that leads nowhere, the properties promise nothing about what is touched: that is the
gap between check and use listed under `hazards`.

### The TurboVec store

`TurboVecStore_proofs` holds for every number of tasks, every set of ids, entries
and vectors, every assignment of slots to ids, colliding or not, and any number of
dropped operations; of `TurboVecAssumption` it uses only that the limit of a search
is a natural number.

| Theorem | Says |
|---|---|
| `MirrorInvariance` | `Spec => []MirrorInv` |
| `MirrorCorrect` | `Spec => []MirrorsWithoutRaces`: unless two mutations of one id overlapped, or one was dropped, an update finds its entry and an index at rest is the one `open` would build |
| `SearchStaysInWorkspace` | `Spec => WorkspaceRespected`: no result of another workspace, unless two ids share a slot |
| `ScoresBelongToEntries` | `Spec => ScoredByOwnVector`: a result is scored by the vector of its entry, unless that entry is being mutated |
| `SearchMisses` | `Spec => SearchMissesNothing`: a search without filters returns as many entries as it was asked for and as there are, unless two ids share a slot |

The argument.  `MirrorsWithoutRaces` speaks of a store at rest and says nothing of
the steps in between, in which several ids may be half-way at once.  `MirrorInv`
says what the index holds meanwhile: the ids of the store whose add is not half-way,
and those whose delete is (`InIndex`), each at its own slot (`KeyedBySlot`), and with
its current vector if nothing is half-way for it (`HoldsInIndex`).  What a task is
about to tell the index is what the store holds (`HalfDone`), because no two tasks
mutate one id (`Exclusive`); `raced` records when that fails.  The first half of a
mutation leaves `InIndex` as it is (`BeginKeepsMirror`), the second moves one id
(`IndexedKeepsMirror`, `IndexDeleteKeepsMirror`), an index that becomes unavailable
promises nothing, and `BuiltHolds` and `HoldsIsBuilt` tie `HoldsInIndex` to
`build_index`.  The two properties of searches follow from what a result can be
(`ResultOfSearch`).

`SearchMisses` compares numbers, and adds to `MirrorInv` that the store is finite and
that the index and the mutations under way know ids of `Ids` only (`Counted`, inductive
with it).  The slots of a workspace are then as many as its entries
(`SlotsOfWorkspace`); the index answers only when it knows every one of these slots,
and then has an entry at each it is asked for (`IndexFindsAll`); otherwise the search of
the reference store counts the entries themselves (`SearchFindsEnough`).

### The decisions

`DecisionEdits_proofs` holds for every table of permission entries, registry, list of
rules, contract, plan, recording of events, configuration file and environment, for
patterns that match whatever they match, and for any number of edits.  The assumptions,
each of them a fact about data as the program can have them: a pattern matches in an
allow list only what it would match in a deny list (`MatchAssumption`, of which
`AllowedIsDenied` says that the matcher satisfies it); lists have
positions from one on (`ListAssumption`); a contract file says one thing of a field or
nothing, and of a policy what its parser knows (`ContractAssumption`); a path of a plan
is a sequence of names (`PlanAssumption`); a file is missing, no TOML, or has sections
(`FileAssumption`); the bounds of a bundle are natural numbers (`BundleAssumption`).

| Theorem | Says |
|---|---|
| `ShapeInvariance` | `DecisionsSpec => []Shaped` |
| `ExplicitAllow` | `DecisionsSpec => []AllowIsExplicit`: only an explicit "allow" of the governing entry, or else of the default, runs a call without approval, and patterns let nothing through that they cannot be matched against |
| `PatternEdits` | `DecisionsSpec => PatternEditsAreMonotone`: one more deny pattern never makes a call easier, nor does the first allow pattern; a further one never makes it harder |
| `RoutedProviders` | `DecisionsSpec => []RoutesToUsable`: a route names a registered and enabled provider, and one other than ollama only if a matching rule or the fallback names it; routing fails only for a placeholder model, or without ollama |
| `RoutesStay` | `DecisionsSpec => UnusedProviderIrrelevant`: turning off a provider that a task does not use leaves its route alone |
| `DataBoundary` | `DecisionsSpec => []BoundaryKeepsDataLocal`: under a local data boundary, written or implied, a plan that passes uses a local provider and local hosts |
| `DefaultDenials` | `DecisionsSpec => []DefaultDenialsReach`: a contract silent on denied paths guards `.git`, `target`, `node_modules` and `.env` at any depth |
| `Omissions` | `DecisionsSpec => OmissionFailsClosed`: leaving out a field of `FailClosed` opens nothing, but for local providers, and drops no approval |
| `Tampering` | `DecisionsSpec => []TamperingShows`: a chain that verifies and has the recorded head is the one recorded; one not computed afresh is a beginning of it, and the event count shows what is missing |
| `StaysLocal` | `DecisionsSpec => []LocalUnlessEnabled`: no task goes to a cloud provider that the file does not enable, nor a key off the machine in the clear, but for a base URL that is `Misread` |
| `ShownRoundTrip` | `DecisionsSpec => ShownReloads`: what is shown of a configuration is loaded as that configuration |

The argument.  Most properties speak of one input and its edit, and would follow from
lemmas about the pure functions alone, were an input any value at all.  It is not: an
edited bundle has the fields of a bundle, an edited contract says one thing of a field.
`Shaped` says what stays true of the input under edits.  It says most of a bundle
(`IsBundleCase`): every hash in an edited chain, altered, moved or copied, is the digest
of a sequence of events, and of the recorded ones as long as no chain was computed
afresh, because hashing is a constructor and an edit can only use the hashes that are
there.

- *Bundles.*  By induction over sequences of events, a digest tells what was hashed
  (`DigestTells`).  A chain that verifies is therefore determined by its events
  (`VerifiedFollows`), and the hashes that an edit left in place, being digests of the
  recorded events, give those events away (`VerifiedIsRecorded`).
- *Routes.*  `RouteOfSession` reduces the route of a session, with its pruned rules and
  fallback and its computed cloud opt-in, to the first matching rule among usable
  providers; the checks of `resolve_route` then never refuse.  A provider that is
  turned off takes its rules with it, and the first of those left is the first as
  before if it was left (`FirstOfFewer`).
- *Contracts.*  A field left out is its default (`OmittedField`), and every check of
  the preflight of a contract with a default has at least the failures, and the
  approvals, of the one that was written (`StricterChecks`, `ApprovalsKept`).
- *Configurations.*  A loaded configuration has the fields of the defaults in every
  section (`LoadedComplete`), so that laying a shown one over the defaults leaves
  nothing of them (`Reread`); keys are not shown and come from the environment
  (`ProvidersKeyed`), which is applied twice to the same effect (`OverriddenOnce`); what
  is valid stays valid when it is read back (`ValidReadBack`).  For `StaysLocal`, a
  provider of the session was built (`RegisteredIsBuilt`), hence enabled by the file,
  since by default none but ollama is (`EnabledByFile`); and a plain http base URL
  with a key is of this machine unless it is misread (`LocalOrMisread`).

### Two algorithms

`DecisionEdits_proofs` ends with theorems about two algorithms, for every input
instead of the small ones of the run `decisions`.

| Theorem | Says |
|---|---|
| `MatcherCorrect` | for every pattern, and every text without a star, `glob_match` accepts what the pattern means: `glob_match(pattern, text) <=> Matches(pattern, text)` |
| `AllowedIsDenied` | a target whose command has no star, and that an allow pattern matches, is matched by the same pattern in a deny list: `MatchAssumption` holds of the matcher for such commands |
| `ChunksCoverText` | for every text, size and overlap: `Covers(chunk_text(words, size, overlap), words, size, overlap)`, that is no word is lost or moved, each chunk brings a word, none is too long, and each begins with the words the one before ends with |

The matcher keeps one star to come back to and forgets those before it; that this
loses no match is the theorem.  What a pattern means is restated as a cut of the text,
one piece for each character of the pattern (`Cuts`, `Fits`, and `MatchesCuts` that it
is the same), and the loop as a function of its state, which exists because its
iterations stay among `States` and do not go on forever (`LoopExists`).  The
invariant of the loop (`Promising`) says: the text is matched as a whole if and only if
the rest of it is matched by the rest of the pattern, from here or with a longer run
for the last star.  A mismatch rules out the present run (`NothingFits`), and the loop
tries the next longer one; a later star makes the earlier ones irrelevant, since
whatever a longer run of these leads to, it leads to as well by taking more
(`LongerRun`, from `Shifted`); and where the text ends only stars may be left
(`StarsFit`).
Every iteration moves the start of the last run, or else the pattern or the text, so
the induction is on these two (`LoopDecides`).  The text has no star because the code
compares a star of the text with one of the pattern before it takes the latter as
a wildcard (`glob_star` in section 5); the theorem says that only on such texts the
matcher can go wrong.  `"end"`, which the theorem excludes too, is no character: `At`
gives it beyond the pattern.

For chunks, the definition by recursion from each word has a solution, as the
limit of iterating it (`CuttingExists`); its first value begins its chunks one step
apart (`CutsBegin`); and a chunk without what it shares goes on where the one before
ends (`NextChunk`), so that the pieces are the text again (`FlattenIs`).

### Induction

The library's induction theorems take an operator as a parameter, which the installed
provers cannot instantiate.  `Induction` therefore states induction about sets
(`NaturalsFromZero`, `IntervalFromZero`), proved from the pigeonhole principle: were a
number missing from a set closed under successor, adding one would map the elements
below it one to one onto fewer.  From it follow `LeastExists`, `GreatestExists` and
`RunExists`, that a function defined from each value to the next exists; with
it the proofs speak about `replay`, `results` and what a decoder makes of a sequence
of units.

### What is only model-checked

- Liveness, `TaskReturns` and `StreamEnds`: out of the prover's reach.
- `ChunkingIrrelevant`, `NothingFabricated` and `ErrIffFailure`: they compare what was
  delivered with what the frames of the body mean, for which a proof needs how the
  units of a frame relate to its payload.  That chunks make no difference, that nothing
  follows an error and that a broken connection is an error is proved.
- `SearchRanks`, `AnswersSurviveReplay` and `RedactionReaches`: what a sort, a filter, a
  fold or a recursive operator makes of every sequence, that is induction over data; the
  modules of `MCAlgorithms` may use RECURSIVE operators, as `redact` does.
- Of `PatternsMean`, how a target is made of the arguments of a call and normalised,
  and of `ChunksCover`, the length of an embedding; the matcher and the chunks are
  proved, but as theorems about the operators, since `MCAlgorithms` itself is out of
  the prover's reach.  The other properties of `decisions` are proved.
- The audit log with several writers, where the properties do not hold.

## 5. Where the code and its words disagree

Six are runs of their own, each with one property quoted from the repository
that TLC refutes:

- `agent_antecedent`: `execute_task` adds the results of tools to the conversation
  but never the assistant turn that asked for them; `sc-provider-core/src/lib.rs`
  232-234 says that strict endpoints reject such a conversation.
- `audit_dropped`: `rotate` gives up its file before the calls that may fail, and
  `log` without a file returns Ok and writes nothing, until a later rotation or a
  restart.
- `memory_nan`: an embedding that is not finite is accepted, written as `null`, and
  makes `open` refuse the whole log, although a store is "safe to reopen".
- `turbovec_stale`: two mutations of one id may reach the index in the opposite
  order, after which it does not mirror the store; `MirrorsWithoutRaces` says that
  nothing else can bring this about.
- `glob_star`: the matcher compares bytes before it looks for a `*`, so that a `*` of
  a pattern that meets a `*` in the text is taken literally: the pattern `*` does not
  match `**`, although "`*` in `pattern` matches any run of bytes".  `PatternsMean`
  says that patterns mean what they should of every text without a `*`.
- `shell_timeout`: `SandboxedCommand` is given a timeout, and `execute` does not use
  it, although "shell commands run as an argument vector with a timeout".

Also seen with TLC while these models were written, on properties that no run
keeps, or visible in the models' definitions:

- The round limit is reported as exceeded when it is reached: with a limit of 3,
  the third response that asks for tools is not served (`RoundLimit`).
- A tool may run and leave no audit entry, since `emit` ignores the logger's
  result; `AuditTellsWhatRan` therefore has the premise of a healthy logger.
- A line of the audit log that a fault left torn swallows the next entry, which
  is written to the same line.
- The active audit file may exceed `max_size_mb` by one line, the one that caused
  the rotation and is not counted (`DiskBounded` states the true bound).
- Two processes that share an audit log rotate it under each other and lose newer
  entries while older ones stay; the properties of `audit` are those of one.
- `read_last` reads only the active file, and returns the oldest of its entries
  first.
- After a decoder error the stream may yield the error again when polled on, and
  nothing else; `ErrIffFailure` says so.
- A memory log whose last line is torn is refused as a whole.  The code says so
  itself; it is a choice, not counted as a divergence.
- An update that reaches the index before the add it follows makes the index
  unavailable, reported as a broken invariant, and searches fall back.
- With a shared slot, a search between the two halves of an add may return an
  entry of another workspace; `WorkspaceRespected` has an exception for it.
- Whether a key may be attached to a plain http base URL is decided on the text of the
  URL, and every host that starts with "127." counts as local, also a name that is no
  address (`is_local_host`), although the client is documented to refuse a key "unless
  that URL points at a local/loopback host (`localhost`, `127.0.0.1`, `::1`)"
  (`openai_compat.rs` 208-212).  `LocalUnlessEnabled` has the exception (`Misread`).
- User information is taken to end at the last "@" of a base URL, also when that
  stands in its path: the host that is judged is then not the one that is connected
  to (`extract_host`, and `Misread` of `LocalUnlessEnabled`).
- A listing says of a link whether it leads to a directory, wherever it leads
  (`ListDir`).
- `max_files = 0` keeps one rotated file, as 1 does (`AuditAssumption`).
- A contract without `provider_policy` admits local providers that an explicit
  allow list without them would refuse (`OmissionFailsClosed` has the exception).
- A plan without a provider passes the provider check but counts as a transfer to
  the cloud.
- A request to Ollama leaves out the system prompt, the tool calls of earlier turns
  and the ids their results answer; of a line of its answer with text and calls
  only the text is told, and of several calls only the first.  Arguments that are a
  JSON object and not a string become null (`parse_ollama_chat_line`).
- Text the model wrote next to its tool calls is not kept in the session's
  conversation.
- A token that follows `Bearer` after two spaces escapes that rule, and a known prefix is
  seen only at the start of a word (`ScrubWord`); the description of an event is not
  redacted (`AuditEvent`).
- A link that leads nowhere counts as a path that does not exist yet, and what is
  written through it is not checked (`TouchesOnlyAllowed` has the exception); nor is
  anything that another process changes after the check.
- An empty table of tools is not shown by `config show`, and a file without one means
  the default table (`ShownReloads` has the exception); `init` overwrites a
  configuration that is there; the key that a configuration carries is never used,
  since a client reads the environment.
- A score that is not a number compares equal to every other, so that a search that
  meets one may return anything, or panic (`Sorted`, `SearchRanks` has the premise).

## 6. What is not modelled

`PROJECT.json` lists every component with its status.  In short:

- the benchmark and the consumer of the public API are no part of the program;
- the parsing of arguments, terminal input and output, and wording: prompts, previews,
  the explanation of a contract, the summary of a bundle;
- arithmetic and hashing: floating-point rounding, SHA-256 is a constructor, the hash of a contract and its canonical form are left out;
- the serialisation of messages, except where a property is about it, and error types;
- the redaction of error messages in the client (that of bundles is in `Redaction`);
- the resolution of the data directory and of the audit path, expansion of `~` and
  of environment variables in paths and patterns of the workspace (the path that is
  checked is expanded twice, the one that is used once), and what the sandbox does on
  other systems than Unix;
- where in a line a write was torn: a torn character makes `open` of a memory log
  report Io and not Corrupt, and `read_last` fail;
- the carriage return at the end of a line of a stream, and whether the arguments of a
  call parse; an unparsable text becomes null (`flush_tool_calls`);
- `list_models` and `health_check` of Ollama, tables of context windows;
- the empty lines a prompt reads again at the end of its input.

## 7. Plan

Done: the core of the session, what it calls (permissions, patterns, routing), what
it writes (audit log), what it reads (streaming client, complete answers), the memory
stores and retrieval, contracts and proof bundles, the configuration, the sandbox and
the tools; and the proofs of section 4.  Next:

1. *Proofs.*  What a body of well-formed frames decodes to, so that
   `ChunkingIrrelevant` and `NothingFabricated` follow from `DecodedAsOne`.
2. *Composition*: `AgentSession` over `ChatStream`, so that the provider's answers
   are those of the client, and over `AuditLog` with its faults.
