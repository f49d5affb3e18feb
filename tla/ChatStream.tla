----------------------------- MODULE ChatStream -----------------------------
(***************************************************************************)
(* The requests of OpenAiCompatClient                                      *)
(* (crates/sc-provider-core/src/openai_compat.rs).  All have the same      *)
(* retries.  chat_completion and list_models then read the whole body;     *)
(* chat_completion_stream returns a stream that decodes the body as it     *)
(* arrives and that its consumer polls.  Each action is one iteration of   *)
(* the request loop or of the unfold loop.                                 *)
(*                                                                         *)
(* The server is external: what it answers, the body it sends, how the     *)
(* network cuts the body into chunks and where it breaks off are all       *)
(* nondeterministic.                                                       *)
(***************************************************************************)
EXTENDS SseDecoder

CONSTANTS Frames,       \* what a server sends: its units, its payload and its kind
                        \* ("fine", "faulty", or "long": an overlong line)
          MaxFrames,    \* bound: frames in one body
          MaxLateFrames, \* bound: frames in the body that answers a retry
          max_retries

ASSUME StreamAssumption ==
  /\ {max_retries, MaxFrames, MaxLateFrames} \subseteq Nat
  /\ \A f \in Frames : f.units \in Seq(STRING)

VARIABLES
  call,       \* which of the three requests it is
  phase,      \* "sending", "streaming", "closed" (the stream returned None),
              \* "answered" (a response was returned), "failed"
  has_key,    \* the API key was found
  attempt, error,
  wire,       \* units sent and not yet received
  decoder,    \* the SseDecoder
  pending, ended,
  delivered,  \* items the consumer has polled
  \* history
  answers,    \* what the requests were answered with
  frames,     \* the frames sent whole
  tail,       \* the units of a frame that the end of the body cuts off
  broken      \* a transport error ended the body

request == <<call, has_key, attempt, error, answers>>
stream  == <<wire, decoder, pending, ended, delivered, broken>>
body    == <<frames, tail>>
vars    == <<call, phase, has_key, attempt, error, wire, decoder, pending, ended, delivered,
             answers, frames, tail, broken>>

Answers == {"Success", "Auth", "RateLimited", "ModelNotFound", "ServerError", "Api",
            "Timeout", "Network", "Http"}

Init ==
  /\ call \in {"chat_completion", "chat_completion_stream", "list_models"}
  /\ phase = "sending" /\ has_key \in BOOLEAN
  /\ attempt = 0 /\ error = "None"
  /\ wire = <<>> /\ decoder = NewDecoder
  /\ pending = <<>> /\ ended = FALSE /\ delivered = <<>>
  /\ answers = <<>> /\ frames = <<>> /\ tail = <<>> /\ broken = FALSE

-----------------------------------------------------------------------------
is_retryableRateLimited(err) == err \in {"ServerError", "Timeout", "Network", "RateLimited"}

is_retryable(err) == err \in {"ServerError", "Timeout", "Network"}

MayRetry(err) == is_retryable(err) /\ attempt < max_retries

\* auth_header fails: nothing is sent.
NoKey ==
  /\ phase = "sending" /\ ~has_key
  /\ phase' = "failed" /\ error' = "Auth"
  /\ UNCHANGED <<call, has_key, attempt, answers, body, stream>>

Parts == UNION {{SubSeq(f.units, 1, cut) : cut \in 0..(Len(f.units) - 1)} : f \in Frames}

\* The server accepts and will send frames, and the start of another one.
Accepted ==
  /\ phase = "sending" /\ has_key /\ call = "chat_completion_stream"
  /\ answers' = Append(answers, "Success")
  /\ phase' = "streaming"
  /\ \E n \in 0..(IF attempt = 0 THEN MaxFrames ELSE MaxLateFrames) : \E whole \in [1..n -> Frames] :
         /\ frames' = whole
         /\ tail' \in Parts
         /\ wire' = FlattenSeq([i \in 1..n |-> whole[i].units]) \o tail'
  /\ UNCHANGED <<call, has_key, attempt, error, decoder, pending, ended, delivered, broken>>

\* A body read whole: it breaks off, does not parse, or holds no choice.  None
\* of these failures goes back to the retries.
BodyErrors ==
  {"Http", "Serialization"} \cup (IF call = "chat_completion" THEN {"Api"} ELSE {})

ReadBody ==
  /\ phase = "sending" /\ has_key /\ call # "chat_completion_stream"
  /\ answers' = Append(answers, "Success")
  /\ \/ phase' = "answered" /\ UNCHANGED error
     \/ phase' = "failed" /\ error' \in BodyErrors
  /\ UNCHANGED <<call, has_key, attempt, body, stream>>

\* The request fails: it is retried after a pause, or the error is returned.
Refused(err) ==
  /\ phase = "sending" /\ has_key
  /\ answers' = Append(answers, err)
  /\ IF MayRetry(err)
     THEN attempt' = attempt + 1 /\ UNCHANGED <<phase, error>>
     ELSE phase' = "failed" /\ error' = err /\ UNCHANGED attempt
  /\ UNCHANGED <<call, has_key, body, stream>>

-----------------------------------------------------------------------------
Polling == phase = "streaming" /\ pending = <<>> /\ ~ended

Deliver ==
  /\ phase = "streaming" /\ pending # <<>>
  /\ delivered' = Append(delivered, Head(pending))
  /\ pending' = Tail(pending)
  /\ UNCHANGED <<phase, request, wire, decoder, ended, body, broken>>

\* The next chunk of the body, of any size.
Receive(n) ==
  /\ Polling /\ n \in 1..Len(wire)
  /\ decoder' = feed(decoder, SubSeq(wire, 1, n))
  /\ pending' = decoder'.events
  /\ wire' = SubSeq(wire, n + 1, Len(wire))
  /\ UNCHANGED <<phase, request, ended, delivered, body, broken>>

\* The connection breaks, or the client's timeout strikes.
TransportErrorAsEnd == pending' = <<>> /\ ended' = TRUE

TransportError == pending' = <<Err>> /\ ended' = TRUE

BodyBreaks ==
  /\ Polling
  /\ TransportError
  /\ broken' = TRUE
  /\ UNCHANGED <<phase, request, wire, decoder, delivered, body>>

BodyEnds ==
  /\ Polling /\ wire = <<>>
  /\ decoder' = finish(decoder)
  /\ pending' = decoder'.events
  /\ ended' = TRUE
  /\ UNCHANGED <<phase, request, wire, delivered, body, broken>>

CloseAfterWholeLine ==
  /\ phase = "streaming" /\ pending = <<>> /\ ended
  /\ phase' = IF decoder.line_buffer = <<>> THEN "closed" ELSE phase
  /\ UNCHANGED <<request, body, stream>>

Close ==
  /\ phase = "streaming" /\ pending = <<>> /\ ended
  /\ phase' = "closed"
  /\ UNCHANGED <<request, body, stream>>

Terminated == phase \in {"closed", "answered", "failed"} /\ UNCHANGED vars

Request == NoKey \/ Accepted \/ ReadBody \/ \E err \in Answers \ {"Success"} : Refused(err)
Poll    == Deliver \/ BodyBreaks \/ BodyEnds \/ Close \/ \E n \in 1..Len(wire) : Receive(n)

Next == Request \/ Poll \/ Terminated

Spec == Init /\ [][Next]_vars

\* The client's timeout answers a request the server leaves open and breaks a
\* body that stalls, and execute_task polls until the stream is over.
FairSpec == Spec /\ WF_vars(Request) /\ WF_vars(Poll)

-----------------------------------------------------------------------------
(* Properties. *)

Items == FlattenSeq([i \in DOMAIN frames |->
           IF frames[i].payload \in DOMAIN Chunks THEN Chunks[frames[i].payload] ELSE <<>>])

\* What frames sent whole mean, said of their items and not of a decoder: the
\* calls of an end are those with a delta since the end before it, each with
\* the last id and name and all the argument fragments it was given.
Ends(items) == {i \in DOMAIN items : items[i].kind = "end"}

DeltasBetween(items, a, b, index) ==
  SelectSeq(SubSeq(items, a + 1, b - 1), LAMBDA d : d.kind = "delta" /\ d.index = index)

ArgsOf(deltas) == FlattenSeq([j \in DOMAIN deltas |-> deltas[j].args])

CallsBetween(items, a, b) ==
  LET deltas(index) == DeltasBetween(items, a, b, index)
      given(index, field) == SelectSeq([k \in DOMAIN deltas(index) |-> deltas(index)[k][field]],
                                       LAMBDA v : v # "")
      calls == {items[i].index : i \in {j \in (a + 1)..(b - 1) : items[j].kind = "delta"}}
      whole == {index \in calls : given(index, "id") # <<>> /\ given(index, "name") # <<>>}
  IN  [k \in 1..Cardinality(whole) |->
         LET index == InOrder(whole)[k]
         IN  ToolUse(Last(given(index, "id")), Last(given(index, "name")), ArgsOf(deltas(index)))]

Meaning(items) ==
  LET before(i) == Max({0} \cup {j \in Ends(items) : j < i})
      of(i) == CASE items[i].kind = "text"  -> <<TextDelta>>
                 [] items[i].kind = "delta" -> <<>>
                 [] items[i].kind = "end"   -> Append(CallsBetween(items, before(i), i), End)
  IN  FlattenSeq([i \in DOMAIN items |-> of(i)])
        \o CallsBetween(items, Max({0} \cup Ends(items)), Len(items) + 1)

Events == SelectSeq(delivered \o pending, LAMBDA item : item # Err)

HasErr == Err \in ToSet(delivered \o pending)

\* However the network cuts the body into chunks, a stream that ends without an
\* error has delivered what the frames of the body mean: no event is lost,
\* repeated or reordered, and no tool call is mixed up with another one that
\* is streamed at the same time.
ChunkingIrrelevant == phase = "closed" /\ ~HasErr => delivered = Meaning(Items)

\* The arguments of a call, since the end before it, grow beyond their bound.
OversizedCall ==
  \E i \in DOMAIN Items, j \in DOMAIN Items :
    /\ Items[i].kind = "delta" /\ Ends(Items) \cap (i..j) = {}
    /\ Len(ArgsOf(DeltasBetween(Items, i - 1, j + 1, Items[i].index))) > max_tool_call_args

\* Errors are told exactly when there is something to tell.  A body that keeps
\* the format and the bounds is never refused: an error has its cause in the
\* connection, in a line or an event, or in a call's arguments.  A body that was
\* broken off, or that does not parse, is never taken for one that ended: the
\* consumer gets an error before the stream closes, and no event after it.
ErrIffFailure ==
  /\ HasErr =>
       \/ broken \/ OversizedCall
       \/ \E f \in Frames : /\ f.kind # "fine"
                            /\ f \in ToSet(frames) \/ (Len(tail) > 1 /\ IsPrefix(tail, f.units))
  /\ phase = "closed" /\ (broken \/ \E i \in DOMAIN frames : frames[i].kind = "faulty")
       => HasErr
  /\ \A i, j \in DOMAIN delivered : i < j /\ delivered[i] = Err => delivered[j] = Err

\* Whatever fails, nothing is made up: what was delivered is how the meaning of
\* the body begins.
NothingFabricated == IsPrefix(Events, Meaning(Items))

\* A request is repeated only after failures that may pass, at most max_retries
\* times, and its last answer is the one returned; once a body has started it is
\* never requested again, however reading it fails.
RetriesOnlyTransient ==
  /\ Len(answers) <= max_retries + 1
  /\ \A i \in 1..(Len(answers) - 1) : answers[i] \in {"ServerError", "Timeout", "Network"}
  /\ phase = "failed" /\ answers # <<>> =>
       /\ error = Last(answers) \/ (Last(answers) = "Success" /\ error \in BodyErrors)
       /\ error \in {"ServerError", "Timeout", "Network"} => Len(answers) = max_retries + 1
  /\ phase \in {"streaming", "closed", "answered"} => Last(answers) = "Success"

\* Between two chunks the decoder holds no more than its three bounds allow.
BuffersBounded ==
  ~decoder.poisoned =>
    /\ Len(decoder.line_buffer) <= max_line_buffer
    /\ decoder.event_payload_len <= max_event_payload
    /\ \A i \in DOMAIN decoder.tool_calls :
         Len(decoder.tool_calls[i].args) <= max_tool_call_args

\* A request comes to an end: it fails, returns its answer, or its stream closes.
StreamEnds == <>(phase \in {"closed", "answered", "failed"})
=============================================================================
