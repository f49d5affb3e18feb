-------------------------- MODULE ChatStream_proofs --------------------------
(***************************************************************************)
(* Theorems about the requests of the OpenAI-compatible client and the     *)
(* stream it decodes, for every set of frames, every table of payloads and *)
(* every value of the bounds.                                              *)
(***************************************************************************)
EXTENDS ChatStream, Induction, SequenceTheorems, FiniteSetTheorems, TLAPS

(***************************************************************************)
(* The retries.                                                            *)
(***************************************************************************)
Transient == {"ServerError", "Timeout", "Network"}

\* As long as the loop goes on every answer so far was transient and has used
\* up an attempt; when it is left, the last answer decided.
AnswersSoFar ==
  /\ attempt \in 0..max_retries /\ answers \in Seq(Answers)
  /\ \A i \in 1..(Len(answers) - 1) : answers[i] \in Transient
  /\ ~has_key => answers = <<>>
  /\ phase = "sending" =>
       Len(answers) = attempt /\ \A i \in 1..Len(answers) : answers[i] \in Transient
  /\ answers # <<>> /\ phase # "sending" =>
       /\ Len(answers) = attempt + 1
       /\ phase # "failed" => answers[Len(answers)] = "Success"
  /\ phase \in {"streaming", "closed", "answered"} => answers # <<>>
  /\ phase = "failed" /\ answers # <<>> =>
       /\ error = answers[Len(answers)] \/ (answers[Len(answers)] = "Success" /\ error \in BodyErrors)
       /\ error \in Transient => attempt = max_retries

\* One more answer at the end of the answers.
LEMMA OneMore ==
  ASSUME NEW S, NEW s \in Seq(S), NEW x \in S
  PROVE  /\ Append(s, x) \in Seq(S) /\ Len(Append(s, x)) = Len(s) + 1 /\ Len(s) \in Nat
         /\ Append(s, x)[Len(s) + 1] = x /\ Append(s, x) # <<>>
         /\ \A i \in 1..Len(s) : Append(s, x)[i] = s[i]
  OBVIOUS

LEMMA RequestStep ==
  ASSUME AnswersSoFar, Request
  PROVE  AnswersSoFar'
<1> USE StreamAssumption
<1>1. max_retries \in Nat /\ attempt \in 0..max_retries /\ answers \in Seq(Answers) /\ Len(answers) \in Nat
  BY DEF AnswersSoFar
<1>2. phase = "sending"
  BY DEF Request, NoKey, Accepted, ReadBody, Refused
<1>3. Len(answers) = attempt /\ \A i \in 1..Len(answers) : answers[i] \in Transient
  BY <1>2 DEF AnswersSoFar
<1>4. CASE NoKey
  <2>1. answers = <<>>
    BY <1>4 DEF AnswersSoFar, NoKey
  <2> QED BY <1>1, <1>4, <2>1 DEF AnswersSoFar, NoKey, request, stream, body
<1>5. CASE Accepted
  <2>1. answers' = Append(answers, "Success") /\ "Success" \in Answers
    BY <1>5 DEF Accepted, Answers
  <2>2. answers' \in Seq(Answers) /\ Len(answers') = attempt + 1 /\ answers' # <<>>
        /\ answers'[Len(answers')] = "Success" /\ \A i \in 1..Len(answers) : answers'[i] = answers[i]
    BY <1>1, <1>3, <2>1, OneMore
  <2>3. \A i \in 1..(Len(answers') - 1) : answers'[i] \in Transient
    BY <1>1, <1>3, <2>2
  <2>4. phase' = "streaming" /\ has_key' = has_key /\ has_key /\ attempt' = attempt
    BY <1>5 DEF Accepted
  <2> QED BY <1>1, <2>2, <2>3, <2>4 DEF AnswersSoFar
<1>6. CASE ReadBody
  <2>1. answers' = Append(answers, "Success") /\ "Success" \in Answers
    BY <1>6 DEF ReadBody, Answers
  <2>2. answers' \in Seq(Answers) /\ Len(answers') = attempt + 1 /\ answers' # <<>>
        /\ answers'[Len(answers')] = "Success" /\ \A i \in 1..Len(answers) : answers'[i] = answers[i]
    BY <1>1, <1>3, <2>1, OneMore
  <2>3. \A i \in 1..(Len(answers') - 1) : answers'[i] \in Transient
    BY <1>1, <1>3, <2>2
  <2>4. has_key' = has_key /\ has_key /\ attempt' = attempt /\ call' = call
    BY <1>6 DEF ReadBody
  <2>5. phase' = "answered" \/ (phase' = "failed" /\ error' \in BodyErrors)
    BY <1>6 DEF ReadBody
  <2>6. BodyErrors' = BodyErrors /\ BodyErrors \cap Transient = {}
    BY <2>4 DEF BodyErrors, Transient
  <2> QED BY <1>1, <2>2, <2>3, <2>4, <2>5, <2>6 DEF AnswersSoFar
<1>7. ASSUME NEW err \in Answers \ {"Success"}, Refused(err) PROVE AnswersSoFar'
  <2>1. answers' = Append(answers, err) /\ err \in Answers
    BY <1>7 DEF Refused
  <2>2. answers' \in Seq(Answers) /\ Len(answers') = attempt + 1 /\ answers' # <<>>
        /\ answers'[Len(answers')] = err /\ \A i \in 1..Len(answers) : answers'[i] = answers[i]
    BY <1>1, <1>3, <2>1, OneMore
  <2>3. \A i \in 1..(Len(answers') - 1) : answers'[i] \in Transient
    BY <1>1, <1>3, <2>2
  <2>4. has_key' = has_key /\ has_key /\ call' = call
    BY <1>7 DEF Refused
  <2>5. CASE MayRetry(err)
    <3>1. attempt' = attempt + 1 /\ phase' = "sending" /\ err \in Transient /\ attempt < max_retries
      BY <1>2, <1>7, <2>5 DEF Refused, MayRetry, is_retryable, Transient
    <3>2. \A i \in 1..Len(answers') : answers'[i] \in Transient
      BY <1>1, <1>3, <2>2, <3>1
    <3> QED BY <1>1, <2>2, <2>3, <2>4, <3>1, <3>2 DEF AnswersSoFar
  <2>6. CASE ~MayRetry(err)
    <3>1. attempt' = attempt /\ phase' = "failed" /\ error' = err
      BY <1>7, <2>6 DEF Refused
    <3>2. err \in Transient => attempt = max_retries
      BY <1>1, <2>6 DEF MayRetry, is_retryable, Transient
    <3> QED BY <1>1, <2>2, <2>3, <2>4, <3>1, <3>2 DEF AnswersSoFar
  <2> QED BY <2>5, <2>6
<1> QED BY <1>4, <1>5, <1>6, <1>7 DEF Request

\* Once a body has started no request is made.
LEMMA PollKeepsRequest ==
  ASSUME Poll
  PROVE  /\ phase = "streaming" /\ phase' \in {"streaming", "closed"}
         /\ UNCHANGED request /\ UNCHANGED body
  BY DEF Poll, Deliver, BodyBreaks, BodyEnds, Close, Receive, Polling, request, body, stream

LEMMA AnswersSoFarStep ==
  ASSUME AnswersSoFar, [Next]_vars
  PROVE  AnswersSoFar'
<1>1. CASE Request
  BY <1>1, RequestStep
<1>2. CASE Poll
  BY <1>2, PollKeepsRequest DEF AnswersSoFar, request, BodyErrors
<1>3. CASE UNCHANGED vars
  BY <1>3 DEF AnswersSoFar, vars, BodyErrors
<1> QED BY <1>1, <1>2, <1>3 DEF Next, Terminated

LEMMA AnswersSoFarInit == Init => AnswersSoFar
  BY StreamAssumption DEF Init, AnswersSoFar

LEMMA AnswersDecide ==
  ASSUME AnswersSoFar
  PROVE  RetriesOnlyTransient
<1>1. answers \in Seq(Answers) /\ Len(answers) \in Nat /\ attempt \in 0..max_retries /\ max_retries \in Nat
  BY StreamAssumption DEF AnswersSoFar
<1>2. Len(answers) <= max_retries + 1
  <2>1. CASE answers = <<>>
    BY <1>1, <2>1
  <2>2. CASE answers # <<>>
    BY <1>1, <2>2 DEF AnswersSoFar
  <2> QED BY <2>1, <2>2
<1>3. \A i \in 1..(Len(answers) - 1) : answers[i] \in {"ServerError", "Timeout", "Network"}
  BY DEF AnswersSoFar, Transient
<1>4. ASSUME phase = "failed", answers # <<>>
      PROVE  /\ error = Last(answers) \/ (Last(answers) = "Success" /\ error \in BodyErrors)
             /\ error \in {"ServerError", "Timeout", "Network"} => Len(answers) = max_retries + 1
  BY <1>1, <1>4 DEF AnswersSoFar, Transient, Last
<1>5. phase \in {"streaming", "closed", "answered"} => Last(answers) = "Success"
  BY <1>1 DEF AnswersSoFar, Last
<1> QED BY <1>2, <1>3, <1>4, <1>5 DEF RetriesOnlyTransient

\* RetriesOnlyTransient is an invariant: whatever the server answers and however
\* often, OpenAiCompatClient repeats a request only after a failure that may
\* pass, at most max_retries times, never once a body has started, and returns
\* the last failure.
THEOREM RetriesAreBounded == Spec => []RetriesOnlyTransient
<1>1. AnswersSoFar /\ [Next]_vars => AnswersSoFar'
  BY AnswersSoFarStep
<1>2. AnswersSoFar => RetriesOnlyTransient
  BY AnswersDecide
<1> QED BY <1>1, <1>2, AnswersSoFarInit, PTL DEF Spec

-----------------------------------------------------------------------------
(***************************************************************************)
(* The decoder: what it holds, and that it stays within its bounds.        *)
(***************************************************************************)
Given == STRING \cup {""}

Acc == [id : Given, name : Given, args : Seq(STRING)]

Indices == {D \in SUBSET Nat : IsFiniteSet(D)}

Calls == UNION {[D -> Acc] : D \in Indices}

Use(calls, whole, k) ==
  ToolUse(calls[InOrder(whole)[k]].id, calls[InOrder(whole)[k]].name, calls[InOrder(whole)[k]].args)

Uses == {Use(calls, whole, k) : calls \in Calls, whole \in Indices, k \in Nat}

Reported == {TextDelta, End, Err} \cup Uses

Decoder ==
  [line_buffer : Seq(STRING), data_lines : Seq(Seq(STRING)), event_payload_len : Nat,
   tool_calls : Calls, poisoned : BOOLEAN, events : Seq(Reported)]

Within(d) ==
  /\ d.event_payload_len <= max_event_payload
  /\ \A i \in DOMAIN d.tool_calls : Len(d.tool_calls[i].args) <= max_tool_call_args

NoErr(s) == \A i \in 1..Len(s) : s[i] # Err

\* The first error is the last thing a chunk reports.
ErrOnlyLast(d) ==
  IF d.poisoned
  THEN d.events # <<>> /\ d.events[Len(d.events)] = Err
         /\ \A i \in 1..(Len(d.events) - 1) : d.events[i] # Err
  ELSE NoErr(d.events)

\* Decoders in the middle of an event, and between units.
Busy  == {d \in Decoder : Within(d) /\ NoErr(d.events)}
Sound == {d \in Decoder : Within(d) /\ ErrOnlyLast(d)}

LEMMA ErrIsReported ==
  Err \in Reported /\ TextDelta \in Reported /\ End \in Reported /\ TextDelta # Err /\ End # Err
  BY DEF Reported, TextDelta, End, Err

LEMMA FieldsTold ==
  ASSUME NEW d \in Decoder
  PROVE  /\ d.line_buffer \in Seq(STRING) /\ d.data_lines \in Seq(Seq(STRING)) /\ d.event_payload_len \in Nat
         /\ d.tool_calls \in Calls /\ d.poisoned \in BOOLEAN /\ d.events \in Seq(Reported)
  BY DEF Decoder

\* The changes a step makes to a decoder.
LEMMA Changes ==
  ASSUME NEW d \in Decoder
  PROVE  /\ \A x \in Seq(STRING) : [d EXCEPT !.line_buffer = x] \in Decoder
         /\ \A x \in Seq(Reported) : [d EXCEPT !.events = x] \in Decoder
         /\ [d EXCEPT !.poisoned = TRUE] \in Decoder
         /\ \A x \in Calls : [d EXCEPT !.tool_calls = x] \in Decoder
         /\ \A x \in Seq(Seq(STRING)), n \in Nat :
              [d EXCEPT !.data_lines = x, !.event_payload_len = n] \in Decoder
  BY DEF Decoder

LEMMA OneErr ==
  ASSUME NEW s \in Seq(Reported), NEW x \in Reported, NoErr(s)
  PROVE  /\ x # Err => NoErr(Append(s, x))
         /\ Append(s, x) # <<>> /\ Append(s, x)[Len(Append(s, x))] = x
         /\ \A i \in 1..(Len(Append(s, x)) - 1) : Append(s, x)[i] # Err
  BY OneMore DEF NoErr

\* An error is reported once, last.
LEMMA Poisoned ==
  ASSUME NEW d \in Busy
  PROVE  poison_and_report(d) \in Sound /\ poison_and_report(d).poisoned
<1>1. d \in Decoder /\ Within(d) /\ NoErr(d.events) /\ d.events \in Seq(Reported)
  BY FieldsTold DEF Busy
<1> DEFINE new == Append(d.events, Err)
           p == [d EXCEPT !.poisoned = TRUE, !.events = new]
<1>2. new \in Seq(Reported) /\ new # <<>> /\ new[Len(new)] = Err /\ \A i \in 1..(Len(new) - 1) : new[i] # Err
  BY <1>1, ErrIsReported, OneErr, OneMore
<1>3. poison_and_report(d) = p
  BY DEF poison_and_report
<1> HIDE DEF new
<1>4. p \in Decoder /\ p.poisoned /\ p.events = new /\ p.event_payload_len = d.event_payload_len
        /\ p.tool_calls = d.tool_calls
  BY <1>1, <1>2 DEF Decoder
<1> HIDE DEF p
<1>5. Within(p)
  BY <1>1, <1>4 DEF Within
<1>6. ErrOnlyLast(p)
  BY <1>2, <1>4 DEF ErrOnlyLast
<1> QED BY <1>3, <1>4, <1>5, <1>6 DEF Sound

LEMMA UseIsNoErr ==
  ASSUME NEW calls, NEW whole, NEW k
  PROVE  Use(calls, whole, k) # Err
  BY DEF Use, ToolUse, Err

LEMMA CallsTyped ==
  /\ <<>> \in Calls
  /\ \A calls \in Calls : DOMAIN calls \in Indices /\ \A i \in DOMAIN calls : calls[i] \in Acc
<1>1. {} \in Indices
  BY FS_EmptySet DEF Indices
<1>2. <<>> \in [{} -> Acc]
  OBVIOUS
<1> QED BY <1>1, <1>2 DEF Calls

\* What flush_tool_calls reports, and what it leaves.
Whole(calls) == {i \in DOMAIN calls : calls[i].id # "" /\ calls[i].name # ""}
UsesOf(calls) == [k \in 1..Cardinality(Whole(calls)) |-> Use(calls, Whole(calls), k)]

LEMMA Flushes ==
  ASSUME NEW d
  PROVE  flush_tool_calls(d) = [d EXCEPT !.tool_calls = <<>>, !.events = @ \o UsesOf(d.tool_calls)]
  BY DEF flush_tool_calls, UsesOf, Use, Whole

LEMMA UsesTyped ==
  ASSUME NEW calls \in Calls
  PROVE  UsesOf(calls) \in Seq(Reported) /\ NoErr(UsesOf(calls))
<1>1. Whole(calls) \in Indices
  <2>1. DOMAIN calls \in SUBSET Nat /\ IsFiniteSet(DOMAIN calls)
    BY CallsTyped DEF Indices
  <2>2. Whole(calls) \subseteq DOMAIN calls
    BY DEF Whole
  <2>3. IsFiniteSet(Whole(calls))
    BY <2>1, <2>2, FS_Subset
  <2> QED BY <2>1, <2>2, <2>3 DEF Indices
<1> DEFINE W == Whole(calls)
           n == Cardinality(W)
           s == [k \in 1..n |-> Use(calls, W, k)]
<1>2. n \in Nat
  BY <1>1, FS_CardinalityType DEF Indices
<1>3. W \in Indices
  BY <1>1
<1>4. s = UsesOf(calls)
  BY DEF UsesOf
<1> HIDE DEF W, n
<1>5. \A k \in 1..n : Use(calls, W, k) \in Reported /\ Use(calls, W, k) # Err
  <2> SUFFICES ASSUME NEW k \in 1..n PROVE Use(calls, W, k) \in Reported /\ Use(calls, W, k) # Err
    OBVIOUS
  <2>1. k \in Nat
    BY <1>2
  <2>2. Use(calls, W, k) \in Uses
    BY <1>3, <2>1 DEF Uses
  <2> QED BY <2>2, UseIsNoErr DEF Reported
<1>6. s \in [1..n -> Reported]
  BY <1>5
<1>7. s \in Seq(Reported) /\ Len(s) = n
  BY <1>2, <1>6
<1>8. \A i \in 1..n : s[i] # Err
  BY <1>5
<1> HIDE DEF s
<1> QED BY <1>4, <1>7, <1>8 DEF NoErr

LEMMA NoErrTwice ==
  ASSUME NEW s \in Seq(Reported), NEW t \in Seq(Reported), NoErr(s), NoErr(t)
  PROVE  s \o t \in Seq(Reported) /\ NoErr(s \o t)
<1>1. s \o t \in Seq(Reported) /\ Len(s \o t) = Len(s) + Len(t) /\ Len(s) \in Nat /\ Len(t) \in Nat
       /\ \A i \in 1..Len(s) + Len(t) : (s \o t)[i] = IF i <= Len(s) THEN s[i] ELSE t[i - Len(s)]
  BY ConcatProperties, LenProperties
<1>2. ASSUME NEW i \in 1..Len(s \o t) PROVE (s \o t)[i] # Err
  <2>1. CASE i <= Len(s)
    BY <1>1, <2>1 DEF NoErr
  <2>2. CASE i > Len(s)
    <3>1. i - Len(s) \in 1..Len(t)
      BY <1>1, <2>2
    <3> QED BY <1>1, <2>2, <3>1 DEF NoErr
  <2> QED BY <1>1, <2>1, <2>2
<1> QED BY <1>1, <1>2 DEF NoErr

LEMMA FlushKeeps ==
  ASSUME NEW d \in Busy
  PROVE  flush_tool_calls(d) \in Busy /\ flush_tool_calls(d).poisoned = d.poisoned
<1>1. d \in Decoder /\ Within(d) /\ NoErr(d.events) /\ d.events \in Seq(Reported) /\ d.tool_calls \in Calls
  BY FieldsTold DEF Busy
<1> DEFINE new == d.events \o UsesOf(d.tool_calls)
           p == [d EXCEPT !.tool_calls = <<>>, !.events = new]
<1>2. new \in Seq(Reported) /\ NoErr(new)
  BY <1>1, UsesTyped, NoErrTwice
<1>3. flush_tool_calls(d) = p
  BY Flushes
<1> HIDE DEF new
<1>4. p \in Decoder /\ p.poisoned = d.poisoned /\ p.events = new /\ p.event_payload_len = d.event_payload_len
        /\ p.tool_calls = <<>>
  BY <1>1, <1>2, CallsTyped DEF Decoder
<1> HIDE DEF p
<1>5. Within(p)
  BY <1>1, <1>4 DEF Within
<1> QED BY <1>2, <1>3, <1>4, <1>5 DEF Busy

LEMMA ItemTold ==
  ASSUME NEW item \in Item
  PROVE  \/ item.kind = "text"
         \/ item.kind = "end"
         \/ /\ item.kind = "delta" /\ item.index \in Nat /\ item.id \in STRING /\ item.name \in STRING
            /\ item.args \in Seq(STRING)
  BY DEF Item

LEMMA AccumulatorTyped ==
  ASSUME NEW d, d.tool_calls \in Calls, NEW index \in Nat
  PROVE  Accumulator(d, index) \in Acc
<1>1. CASE index \in DOMAIN d.tool_calls
  BY <1>1, CallsTyped DEF Accumulator
<1>2. CASE index \notin DOMAIN d.tool_calls
  <2>1. Accumulator(d, index) = [id |-> "", name |-> "", args |-> <<>>]
    BY <1>2 DEF Accumulator
  <2>2. <<>> \in Seq(STRING)
    OBVIOUS
  <2>3. [id |-> "", name |-> "", args |-> <<>>] \in Acc
    BY <2>2 DEF Acc, Given
  <2> QED BY <2>1, <2>3
<1> QED BY <1>1, <1>2

LEMMA MergedTyped ==
  ASSUME NEW c \in Acc, NEW item, item.id \in STRING, item.name \in STRING, item.args \in Seq(STRING)
  PROVE  Merged(c, item) \in Acc /\ Merged(c, item).args = c.args \o item.args
                 /\ Len(Merged(c, item).args) = Len(c.args) + Len(item.args)
<1>1. c.args \in Seq(STRING) /\ c.id \in Given /\ c.name \in Given
  BY DEF Acc
<1>2. c.args \o item.args \in Seq(STRING) /\ Len(c.args \o item.args) = Len(c.args) + Len(item.args)
  BY <1>1, ConcatProperties
<1> QED BY <1>1, <1>2 DEF Merged, Acc, Given

IsPut(new, calls, index, c) ==
  /\ DOMAIN new = DOMAIN calls \cup {index} /\ new[index] = c
  /\ \A i \in DOMAIN calls : i # index => new[i] = calls[i]

LEMMA PutTyped ==
  ASSUME NEW calls \in Calls, NEW index \in Nat, NEW c \in Acc
  PROVE  Put(calls, index, c) \in Calls /\ IsPut(Put(calls, index, c), calls, index, c)
<1>1. DOMAIN calls \in SUBSET Nat /\ IsFiniteSet(DOMAIN calls) /\ \A i \in DOMAIN calls : calls[i] \in Acc
  BY CallsTyped DEF Indices
<1> DEFINE D == DOMAIN calls \cup {index}
<1>2. D \in Indices
  <2>1. IsFiniteSet(D)
    BY <1>1, FS_AddElement
  <2> QED BY <1>1, <2>1 DEF Indices
<1>3. Put(calls, index, c) = [i \in D |-> IF i = index THEN c ELSE calls[i]]
  BY DEF Put
<1>4. Put(calls, index, c) \in [D -> Acc]
  BY <1>1, <1>3
<1>5. Put(calls, index, c) \in Calls
  BY <1>2, <1>4 DEF Calls
<1>6. IsPut(Put(calls, index, c), calls, index, c)
  BY <1>3 DEF IsPut
<1> QED BY <1>5, <1>6

LEMMA AccumulateKeeps ==
  ASSUME NEW d \in Busy, NEW item \in Item, item.kind = "delta", ~Overflows(d, item)
  PROVE  Accumulate(d, item) \in Busy /\ Accumulate(d, item).poisoned = d.poisoned
<1>1. d \in Decoder /\ Within(d) /\ NoErr(d.events) /\ d.tool_calls \in Calls
  BY FieldsTold DEF Busy
<1>2. item.index \in Nat /\ item.id \in STRING /\ item.name \in STRING /\ item.args \in Seq(STRING)
  BY ItemTold
<1> DEFINE c == Merged(Accumulator(d, item.index), item)
           calls == Put(d.tool_calls, item.index, c)
           p == [d EXCEPT !.tool_calls = calls]
<1>3. c \in Acc /\ Len(c.args) = Len(Accumulator(d, item.index).args) + Len(item.args)
  BY <1>1, <1>2, AccumulatorTyped, MergedTyped
<1>4. Len(c.args) <= max_tool_call_args
  <2>1. c.args \in Seq(STRING)
    BY <1>3 DEF Acc
  <2>2. Len(c.args) \in Nat /\ max_tool_call_args \in Nat
    BY <2>1, LenProperties, DecoderAssumption
  <2>3. ~(Len(c.args) > max_tool_call_args)
    BY <1>3 DEF Overflows
  <2> QED BY <2>2, <2>3
<1> HIDE DEF c
<1>5. calls \in Calls /\ DOMAIN calls = DOMAIN d.tool_calls \cup {item.index}
       /\ calls[item.index] = c /\ \A i \in DOMAIN d.tool_calls : i # item.index => calls[i] = d.tool_calls[i]
  <2>1. calls \in Calls /\ IsPut(calls, d.tool_calls, item.index, c)
    BY <1>1, <1>2, <1>3, PutTyped
  <2> QED BY <2>1 DEF IsPut
<1>6. Accumulate(d, item) = p
  BY DEF Accumulate, c
<1> HIDE DEF calls
<1>7. p \in Decoder /\ p.poisoned = d.poisoned /\ p.events = d.events
        /\ p.event_payload_len = d.event_payload_len
        /\ p.tool_calls = calls
  BY <1>1, <1>5 DEF Decoder
<1> HIDE DEF p
<1>8. \A i \in DOMAIN calls : Len(calls[i].args) <= max_tool_call_args
  BY <1>1, <1>4, <1>5 DEF Within
<1>9. Within(p)
  BY <1>1, <1>7, <1>8 DEF Within
<1> QED BY <1>1, <1>6, <1>7, <1>9 DEF Busy

LEMMA DispatchItemKeeps ==
  ASSUME NEW d \in Busy, NEW item \in Item
  PROVE  DispatchItem(d, item) \in Busy
<1>1. d \in Decoder /\ Within(d) /\ NoErr(d.events) /\ d.events \in Seq(Reported) /\ d.poisoned \in BOOLEAN
  BY FieldsTold DEF Busy
<1>2. \A x \in Seq(Reported) : NoErr(x) => [d EXCEPT !.events = x] \in Busy
  <2> SUFFICES ASSUME NEW x \in Seq(Reported), NoErr(x) PROVE [d EXCEPT !.events = x] \in Busy
    OBVIOUS
  <2> DEFINE p == [d EXCEPT !.events = x]
  <2>1. p \in Decoder /\ p.events = x /\ p.event_payload_len = d.event_payload_len
          /\ p.tool_calls = d.tool_calls
    BY <1>1 DEF Decoder
  <2> HIDE DEF p
  <2>2. Within(p)
    BY <1>1, <2>1 DEF Within
  <2>3. p \in Busy
    BY <2>1, <2>2 DEF Busy
  <2> QED BY <2>3 DEF p
<1>3. CASE d.poisoned
  BY <1>3 DEF DispatchItem
<1>4. CASE ~d.poisoned /\ item.kind = "text"
  <2> DEFINE new == Append(d.events, TextDelta)
  <2>1. new \in Seq(Reported) /\ NoErr(new)
    BY <1>1, ErrIsReported, OneErr, OneMore
  <2>2. DispatchItem(d, item) = [d EXCEPT !.events = new]
    BY <1>4 DEF DispatchItem
  <2> QED BY <1>2, <2>1, <2>2
<1>5. CASE ~d.poisoned /\ item.kind = "end"
  <2> DEFINE flushed == flush_tool_calls(d)
             p == [flushed EXCEPT !.events = Append(@, End)]
  <2>1. flushed \in Busy
    BY FlushKeeps
  <2>2. DispatchItem(d, item) = p
    BY <1>5 DEF DispatchItem
  <2> HIDE DEF flushed
  <2>3. flushed \in Decoder /\ Within(flushed) /\ NoErr(flushed.events) /\ flushed.events \in Seq(Reported)
    BY <2>1, FieldsTold DEF Busy
  <2> DEFINE new == Append(flushed.events, End)
  <2>4. new \in Seq(Reported) /\ NoErr(new)
    BY <2>3, ErrIsReported, OneErr, OneMore
  <2> HIDE DEF new
  <2>5. p = [flushed EXCEPT !.events = new]
    BY DEF new
  <2>6. p \in Decoder /\ p.events = new /\ p.event_payload_len = flushed.event_payload_len
          /\ p.tool_calls = flushed.tool_calls
    BY <2>3, <2>4, <2>5 DEF Decoder
  <2> HIDE DEF p
  <2>7. Within(p)
    BY <2>3, <2>6 DEF Within
  <2> QED BY <2>2, <2>4, <2>6, <2>7 DEF Busy
<1>6. CASE ~d.poisoned /\ item.kind = "delta" /\ Overflows(d, item)
  <2> DEFINE p == [d EXCEPT !.poisoned = TRUE]
  <2>1. DispatchItem(d, item) = p
    BY <1>6 DEF DispatchItem
  <2>2. p \in Decoder /\ p.events = d.events /\ p.event_payload_len = d.event_payload_len
          /\ p.tool_calls = d.tool_calls
    BY <1>1 DEF Decoder
  <2> HIDE DEF p
  <2>3. Within(p)
    BY <1>1, <2>2 DEF Within
  <2> QED BY <1>1, <2>1, <2>2, <2>3 DEF Busy
<1>7. CASE ~d.poisoned /\ item.kind = "delta" /\ ~Overflows(d, item)
  <2>1. DispatchItem(d, item) = Accumulate(d, item)
    BY <1>7 DEF DispatchItem
  <2> QED BY <1>7, <2>1, AccumulateKeeps
<1> QED BY <1>1, <1>3, <1>4, <1>5, <1>6, <1>7, ItemTold

\* f tells what the first items of a chunk make of d.
ItemRun(f, d, items) ==
  /\ f \in [0..Len(items) -> Busy] /\ f[0] = d
  /\ \A n \in 0..(Len(items) - 1) : f[n + 1] = DispatchItem(f[n], items[n + 1])

LEMMA ItemsAreRun ==
  ASSUME NEW d \in Busy, NEW items \in Seq(Item)
  PROVE  \E f : ItemRun(f, d, items) /\ dispatched(d, items) = f[Len(items)]
<1> DEFINE k == Len(items)
           out == CHOOSE f : f = [n \in 0..k |-> IF n = 0 THEN d ELSE DispatchItem(f[n - 1], items[n])]
           step == [n \in 1..k |-> [x \in Busy |-> DispatchItem(x, items[n])]]
<1>1. k \in Nat /\ \A n \in 1..k : items[n] \in Item
  BY LenProperties, ElementOfSeq
<1>2. dispatched(d, items) = out[k]
  BY DEF dispatched
<1> HIDE DEF k
<1>3. step \in [1..k -> [Busy -> Busy]]
  BY <1>1, DispatchItemKeeps
<1>4. \A n \in 1..k : \A x \in Busy : step[n][x] = DispatchItem(x, items[n])
  OBVIOUS
<1> HIDE DEF step
<1>5. PICK f : IsRun(f, Busy, d, step, k)
  BY <1>1, <1>3, RunExists
<1>6. f \in [0..k -> Busy] /\ \A n \in 0..k : f[n] = IF n = 0 THEN d ELSE step[n][f[n - 1]]
  BY <1>5 DEF IsRun
<1>7. \A n \in 0..k : f[n] = IF n = 0 THEN d ELSE DispatchItem(f[n - 1], items[n])
  <2> SUFFICES ASSUME NEW n \in 0..k PROVE f[n] = IF n = 0 THEN d ELSE DispatchItem(f[n - 1], items[n])
    OBVIOUS
  <2>1. n # 0 => n \in 1..k /\ n - 1 \in 0..k
    BY <1>1
  <2>2. n # 0 => f[n - 1] \in Busy
    BY <1>6, <2>1
  <2> QED BY <1>4, <1>6, <2>1, <2>2
<1>8. f = [n \in 0..k |-> IF n = 0 THEN d ELSE DispatchItem(f[n - 1], items[n])]
  <2>1. f = [n \in 0..k |-> f[n]]
    BY <1>6
  <2>2. [n \in 0..k |-> f[n]] = [n \in 0..k |-> IF n = 0 THEN d ELSE DispatchItem(f[n - 1], items[n])]
    BY <1>7
  <2> QED BY <2>1, <2>2
<1>9. out = [n \in 0..k |-> IF n = 0 THEN d ELSE DispatchItem(out[n - 1], items[n])]
  BY <1>8
<1> HIDE DEF out
<1>10. out[0] = d /\ \A n \in 0..(k - 1) : out[n + 1] = DispatchItem(out[n], items[n + 1])
  <2>1. out[0] = d
    BY <1>1, <1>9
  <2>2. ASSUME NEW n \in 0..(k - 1) PROVE out[n + 1] = DispatchItem(out[n], items[n + 1])
    <3>1. n + 1 \in 0..k /\ n + 1 # 0 /\ (n + 1) - 1 = n
      BY <1>1
    <3> QED BY <1>9, <3>1
  <2> QED BY <2>1, <2>2
<1> DEFINE T == {n \in 0..k : out[n] \in Busy}
<1>11. 0..k \subseteq T
  <2>1. 0 \in T
    BY <1>1, <1>10
  <2>2. ASSUME NEW n \in 0..(k - 1), n \in T PROVE n + 1 \in T
    <3>1. n + 1 \in 0..k /\ n + 1 \in 1..k
      BY <1>1
    <3>2. out[n] \in Busy /\ items[n + 1] \in Item
      BY <1>1, <2>2, <3>1
    <3>3. DispatchItem(out[n], items[n + 1]) \in Busy
      BY <3>2, DispatchItemKeeps
    <3> QED BY <1>10, <3>1, <3>3
  <2> HIDE DEF T
  <2> QED BY <1>1, <2>1, <2>2, IntervalFromZero
<1>12. out \in [0..k -> Busy]
  <2>1. out = [n \in 0..k |-> out[n]]
    BY <1>9
  <2>2. \A n \in 0..k : out[n] \in Busy
    BY <1>11
  <2> QED BY <2>1, <2>2
<1>13. ItemRun(out, d, items)
  BY <1>10, <1>12 DEF ItemRun, k
<1> QED BY <1>2, <1>13 DEF k

LEMMA DispatchedIsBusy ==
  ASSUME NEW d \in Busy, NEW items \in Seq(Item)
  PROVE  dispatched(d, items) \in Busy
<1>1. PICK f : ItemRun(f, d, items) /\ dispatched(d, items) = f[Len(items)]
  BY ItemsAreRun
<1>2. Len(items) \in Nat
  BY LenProperties
<1> QED BY <1>1, <1>2 DEF ItemRun

\* Before the first error the decoder is in the middle of an event.
LEMMA SoundIsBusy ==
  ASSUME NEW d \in Decoder, ~d.poisoned
  PROVE  d \in Sound <=> d \in Busy
  BY DEF Sound, Busy, ErrOnlyLast

LEMMA SameBounds ==
  ASSUME NEW d \in Decoder, NEW p \in Decoder, p.event_payload_len <= max_event_payload,
         p.tool_calls = d.tool_calls, p.events = d.events, Within(d), NoErr(d.events)
  PROVE  p \in Busy
<1>1. Within(p)
  BY DEF Within
<1> QED BY <1>1 DEF Busy

\* An event cleared for its dispatch, and a line taken off the buffer.
LEMMA ClearedIsBusy ==
  ASSUME NEW d \in Busy
  PROVE  [d EXCEPT !.data_lines = <<>>, !.event_payload_len = 0] \in Busy
<1> DEFINE cleared == [d EXCEPT !.data_lines = <<>>, !.event_payload_len = 0]
<1>1. d \in Decoder /\ Within(d) /\ NoErr(d.events)
  BY DEF Busy
<1>2. cleared \in Decoder /\ cleared.event_payload_len = 0 /\ cleared.tool_calls = d.tool_calls
       /\ cleared.events = d.events
  <2>1. <<>> \in Seq(Seq(STRING)) /\ 0 \in Nat
    OBVIOUS
  <2> QED BY <1>1, <2>1 DEF Decoder
<1> HIDE DEF cleared
<1>3. cleared.event_payload_len <= max_event_payload
  BY <1>2, DecoderAssumption
<1>4. cleared \in Busy
  BY <1>1, <1>2, <1>3, SameBounds
<1> QED BY <1>4 DEF cleared

LEMMA TakenIsBusy ==
  ASSUME NEW d \in Busy
  PROVE  [d EXCEPT !.line_buffer = <<>>] \in Busy
<1> DEFINE taken == [d EXCEPT !.line_buffer = <<>>]
<1>1. d \in Decoder /\ Within(d) /\ NoErr(d.events)
  BY DEF Busy
<1>2. taken \in Decoder /\ taken.event_payload_len = d.event_payload_len /\ taken.tool_calls = d.tool_calls
       /\ taken.events = d.events
  <2>1. <<>> \in Seq(STRING)
    OBVIOUS
  <2> QED BY <1>1, <2>1 DEF Decoder
<1> HIDE DEF taken
<1>3. taken \in Busy
  BY <1>1, <1>2, SameBounds DEF Within
<1> QED BY <1>3 DEF taken

LEMMA DispatchEventKeeps ==
  ASSUME NEW d \in Busy, ~d.poisoned
  PROVE  dispatch_event(d) \in Sound
<1>1. d \in Decoder /\ Within(d) /\ NoErr(d.events)
  BY DEF Busy
<1> DEFINE payload == d.data_lines
           cleared == [d EXCEPT !.data_lines = <<>>, !.event_payload_len = 0]
           done == dispatched(cleared, Chunks[payload])
<1>3. cleared \in Busy
  BY ClearedIsBusy
<1>4. dispatch_event(d) = IF payload = <<>> THEN d
                          ELSE IF payload \notin DOMAIN Chunks THEN poison_and_report(cleared)
                          ELSE IF done.poisoned THEN poison_and_report(cleared) ELSE done
  BY DEF dispatch_event
<1> HIDE DEF cleared
<1>5. CASE payload = <<>>
  BY <1>1, <1>4, <1>5, SoundIsBusy
<1>6. poison_and_report(cleared) \in Sound
  BY <1>3, Poisoned
<1>7. CASE payload \in DOMAIN Chunks
  <2>1. Chunks[payload] \in Seq(Item)
    BY <1>7, DecoderAssumption
  <2>2. done \in Busy
    BY <1>3, <2>1, DispatchedIsBusy
  <2>3. done \in Decoder
    BY <2>2 DEF Busy
  <2> HIDE DEF done
  <2>4. ~done.poisoned => done \in Sound
    BY <2>2, <2>3, SoundIsBusy
  <2> QED BY <1>1, <1>4, <1>6, <1>7, <2>4, SoundIsBusy
<1> HIDE DEF done
<1> QED BY <1>4, <1>5, <1>6, <1>7

LEMMA ProcessLineKeeps ==
  ASSUME NEW d \in Busy, ~d.poisoned
  PROVE  process_line(d) \in Sound
<1>1. d \in Decoder /\ Within(d) /\ NoErr(d.events) /\ d.line_buffer \in Seq(STRING)
       /\ d.data_lines \in Seq(Seq(STRING)) /\ d.event_payload_len \in Nat
  BY FieldsTold DEF Busy
<1> DEFINE line == d.line_buffer
           taken == [d EXCEPT !.line_buffer = <<>>]
           size == d.event_payload_len + Len(line) - 1
           longer == [taken EXCEPT !.data_lines = Append(@, Tail(line)), !.event_payload_len = size]
<1>2. taken \in Decoder /\ taken.event_payload_len = d.event_payload_len /\ taken.tool_calls = d.tool_calls
       /\ taken.events = d.events /\ ~taken.poisoned /\ taken.data_lines = d.data_lines
  <2>1. <<>> \in Seq(STRING)
    OBVIOUS
  <2> QED BY <1>1, <2>1 DEF Decoder
<1>3. process_line(d) = IF "bad" \in ToSet(line) THEN poison_and_report(taken)
                        ELSE IF line = <<>> THEN dispatch_event(taken)
                        ELSE IF Head(line) # "data" THEN taken
                        ELSE IF size > max_event_payload THEN poison_and_report(taken)
                        ELSE longer
  BY DEF process_line
<1> HIDE DEF taken
<1>4. taken \in Busy
  BY <1>1, <1>2, SameBounds DEF Within
<1>5. poison_and_report(taken) \in Sound /\ dispatch_event(taken) \in Sound /\ taken \in Sound
  BY <1>2, <1>4, Poisoned, DispatchEventKeeps, SoundIsBusy
<1>6. CASE line # <<>> /\ ~(size > max_event_payload)
  <2>1. Tail(line) \in Seq(STRING) /\ Len(line) \in Nat \ {0}
    BY <1>1, <1>6, HeadTailProperties, EmptySeq
  <2> DEFINE rest == Tail(line)
             lines == Append(taken.data_lines, rest)
  <2>2. lines \in Seq(Seq(STRING))
    <3> HIDE DEF rest
    <3> DEFINE S == Seq(STRING)
    <3>1. rest \in S /\ taken.data_lines \in Seq(S)
      BY <1>1, <1>2, <2>1 DEF rest
    <3> HIDE DEF S
    <3>2. lines \in Seq(S)
      BY <3>1, OneMore
    <3> QED BY <3>2 DEF S
  <2>3. size \in Nat /\ size <= max_event_payload
    BY <1>1, <1>6, <2>1, DecoderAssumption
  <2>4. longer = [taken EXCEPT !.data_lines = lines, !.event_payload_len = size]
    OBVIOUS
  <2> HIDE DEF lines, size
  <2>5. longer \in Decoder /\ longer.event_payload_len = size /\ longer.tool_calls = taken.tool_calls
         /\ longer.events = taken.events /\ ~longer.poisoned
    BY <1>2, <2>2, <2>3, <2>4 DEF Decoder
  <2> HIDE DEF longer
  <2>6. longer \in Busy
    BY <1>1, <1>2, <1>4, <2>3, <2>5, SameBounds DEF Busy
  <2>7. longer \in Sound
    BY <2>5, <2>6, SoundIsBusy
  <2> QED BY <1>3, <1>5, <2>7
<1> HIDE DEF longer, size, line
<1> QED BY <1>3, <1>5, <1>6

LEMMA ConsumeKeeps ==
  ASSUME NEW d \in Sound, NEW unit \in STRING
  PROVE  Consume(d, unit) \in Sound
<1>1. d \in Decoder /\ d.poisoned \in BOOLEAN /\ d.line_buffer \in Seq(STRING)
  BY FieldsTold DEF Sound
<1>2. CASE d.poisoned
  BY <1>2 DEF Consume
<1>3. CASE ~d.poisoned
  <2>1. d \in Busy
    BY <1>1, <1>3, SoundIsBusy
  <2>2. CASE unit = "nl"
    BY <1>3, <2>1, <2>2, ProcessLineKeeps DEF Consume
  <2>3. CASE unit # "nl"
    <3> DEFINE buffer == Append(d.line_buffer, unit)
               p == [d EXCEPT !.line_buffer = buffer]
    <3>1. Consume(d, unit) = p
      BY <1>3, <2>3 DEF Consume
    <3>2. buffer \in Seq(STRING)
      BY <1>1, OneMore
    <3> HIDE DEF buffer
    <3>3. p \in Decoder /\ p.event_payload_len = d.event_payload_len /\ p.tool_calls = d.tool_calls
           /\ p.events = d.events /\ ~p.poisoned
      BY <1>1, <1>3, <3>2 DEF Decoder
    <3> HIDE DEF p
    <3>4. p \in Busy
      BY <2>1, <3>3, SameBounds DEF Busy, Within
    <3> QED BY <3>1, <3>3, <3>4, SoundIsBusy
  <2> QED BY <2>2, <2>3
<1> QED BY <1>1, <1>2, <1>3

\* f tells what the first units make of d.
UnitRun(f, d, bytes) ==
  /\ f \in [0..Len(bytes) -> Sound] /\ f[0] = d
  /\ \A n \in 0..(Len(bytes) - 1) : f[n + 1] = Consume(f[n], bytes[n + 1])

LEMMA UnitsAreRun ==
  ASSUME NEW d \in Sound, NEW bytes \in Seq(STRING)
  PROVE  \E f : UnitRun(f, d, bytes) /\ consumed(d, bytes) = f[Len(bytes)]
<1> DEFINE k == Len(bytes)
           out == CHOOSE f : f = [n \in 0..k |-> IF n = 0 THEN d ELSE Consume(f[n - 1], bytes[n])]
           step == [n \in 1..k |-> [x \in Sound |-> Consume(x, bytes[n])]]
<1>1. k \in Nat /\ \A n \in 1..k : bytes[n] \in STRING
  BY LenProperties, ElementOfSeq
<1>2. consumed(d, bytes) = out[k]
  BY DEF consumed
<1> HIDE DEF k
<1>3. step \in [1..k -> [Sound -> Sound]]
  BY <1>1, ConsumeKeeps
<1>4. \A n \in 1..k : \A x \in Sound : step[n][x] = Consume(x, bytes[n])
  OBVIOUS
<1> HIDE DEF step
<1>5. PICK f : IsRun(f, Sound, d, step, k)
  BY <1>1, <1>3, RunExists
<1>6. f \in [0..k -> Sound] /\ \A n \in 0..k : f[n] = IF n = 0 THEN d ELSE step[n][f[n - 1]]
  BY <1>5 DEF IsRun
<1>7. \A n \in 0..k : f[n] = IF n = 0 THEN d ELSE Consume(f[n - 1], bytes[n])
  <2> SUFFICES ASSUME NEW n \in 0..k PROVE f[n] = IF n = 0 THEN d ELSE Consume(f[n - 1], bytes[n])
    OBVIOUS
  <2>1. n # 0 => n \in 1..k /\ n - 1 \in 0..k
    BY <1>1
  <2>2. n # 0 => f[n - 1] \in Sound
    BY <1>6, <2>1
  <2> QED BY <1>4, <1>6, <2>1, <2>2
<1>8. f = [n \in 0..k |-> IF n = 0 THEN d ELSE Consume(f[n - 1], bytes[n])]
  <2>1. f = [n \in 0..k |-> f[n]]
    BY <1>6
  <2>2. [n \in 0..k |-> f[n]] = [n \in 0..k |-> IF n = 0 THEN d ELSE Consume(f[n - 1], bytes[n])]
    BY <1>7
  <2> QED BY <2>1, <2>2
<1>9. out = [n \in 0..k |-> IF n = 0 THEN d ELSE Consume(out[n - 1], bytes[n])]
  BY <1>8
<1> HIDE DEF out
<1>10. out[0] = d /\ \A n \in 0..(k - 1) : out[n + 1] = Consume(out[n], bytes[n + 1])
  <2>1. out[0] = d
    BY <1>1, <1>9
  <2>2. ASSUME NEW n \in 0..(k - 1) PROVE out[n + 1] = Consume(out[n], bytes[n + 1])
    <3>1. n + 1 \in 0..k /\ n + 1 # 0 /\ (n + 1) - 1 = n
      BY <1>1
    <3> QED BY <1>9, <3>1
  <2> QED BY <2>1, <2>2
<1> DEFINE T == {n \in 0..k : out[n] \in Sound}
<1>11. 0..k \subseteq T
  <2>1. 0 \in T
    BY <1>1, <1>10
  <2>2. ASSUME NEW n \in 0..(k - 1), n \in T PROVE n + 1 \in T
    <3>1. n + 1 \in 0..k /\ n + 1 \in 1..k
      BY <1>1
    <3>2. out[n] \in Sound /\ bytes[n + 1] \in STRING
      BY <1>1, <2>2, <3>1
    <3>3. Consume(out[n], bytes[n + 1]) \in Sound
      BY <3>2, ConsumeKeeps
    <3> QED BY <1>10, <3>1, <3>3
  <2> HIDE DEF T
  <2> QED BY <1>1, <2>1, <2>2, IntervalFromZero
<1>12. out \in [0..k -> Sound]
  <2>1. out = [n \in 0..k |-> out[n]]
    BY <1>9
  <2>2. \A n \in 0..k : out[n] \in Sound
    BY <1>11
  <2> QED BY <2>1, <2>2
<1>13. UnitRun(out, d, bytes)
  BY <1>10, <1>12 DEF UnitRun, k
<1> QED BY <1>2, <1>13 DEF k

LEMMA ConsumedIsSound ==
  ASSUME NEW d \in Sound, NEW bytes \in Seq(STRING)
  PROVE  consumed(d, bytes) \in Sound
<1>1. PICK f : UnitRun(f, d, bytes) /\ consumed(d, bytes) = f[Len(bytes)]
  BY UnitsAreRun
<1>2. Len(bytes) \in Nat
  BY LenProperties
<1> QED BY <1>1, <1>2 DEF UnitRun

\* What a decoder starts a chunk with.
Fresh(d) == [d EXCEPT !.events = <<>>]

LEMMA FreshIsBusy ==
  ASSUME NEW d \in Sound
  PROVE  /\ Fresh(d) \in Busy /\ Fresh(d).poisoned = d.poisoned /\ Fresh(d).events = <<>>
         /\ ~d.poisoned => Fresh(d) \in Sound
<1>1. d \in Decoder /\ Within(d)
  BY DEF Sound
<1>2. <<>> \in Seq(Reported) /\ NoErr(<<>>)
  BY DEF NoErr
<1> DEFINE p == Fresh(d)
<1>3. p \in Decoder /\ p.events = <<>> /\ p.poisoned = d.poisoned /\ p.tool_calls = d.tool_calls
       /\ p.event_payload_len = d.event_payload_len
  BY <1>1, <1>2 DEF Decoder, Fresh
<1> HIDE DEF p
<1>4. p \in Busy
  BY <1>1, <1>2, <1>3 DEF Busy, Within
<1> QED BY <1>3, <1>4, SoundIsBusy DEF p

\* A decoder that failed before answers every chunk with its error.
LEMMA FailedBefore ==
  ASSUME NEW d \in Sound, d.poisoned
  PROVE  /\ [d EXCEPT !.events = <<Err>>] \in Sound /\ [d EXCEPT !.events = <<Err>>].poisoned
         /\ [d EXCEPT !.events = <<Err>>].events = <<Err>>
<1>1. d \in Decoder /\ Within(d)
  BY DEF Sound
<1> DEFINE new == <<Err>>
           p == [d EXCEPT !.events = new]
<1>2. new \in Seq(Reported) /\ new # <<>> /\ new[Len(new)] = Err /\ \A i \in 1..(Len(new) - 1) : new[i] # Err
  BY ErrIsReported
<1> HIDE DEF new
<1>3. p \in Decoder /\ p.events = new /\ p.poisoned /\ p.tool_calls = d.tool_calls
       /\ p.event_payload_len = d.event_payload_len
  BY <1>1, <1>2 DEF Decoder
<1> HIDE DEF p
<1>4. p \in Sound
  BY <1>1, <1>2, <1>3 DEF Sound, Within, ErrOnlyLast
<1> QED BY <1>3, <1>4 DEF p, new

LEMMA FeedKeeps ==
  ASSUME NEW d \in Sound, NEW bytes \in Seq(STRING)
  PROVE  /\ feed(d, bytes) \in Sound
         /\ ~feed(d, bytes).poisoned => Len(feed(d, bytes).line_buffer) <= max_line_buffer
<1> DEFINE fed == consumed(Fresh(d), bytes)
<1>1. feed(d, bytes) = IF d.poisoned THEN [d EXCEPT !.events = <<Err>>]
                       ELSE IF ~fed.poisoned /\ Len(fed.line_buffer) > max_line_buffer
                            THEN poison_and_report(fed) ELSE fed
  BY DEF feed, Fresh
<1>2. CASE d.poisoned
  BY <1>1, <1>2, FailedBefore
<1>3. CASE ~d.poisoned
  <2>1. fed \in Sound
    BY <1>3, FreshIsBusy, ConsumedIsSound
  <2> HIDE DEF fed
  <2>2. fed \in Decoder /\ Len(fed.line_buffer) \in Nat /\ max_line_buffer \in Nat
    BY <2>1, FieldsTold, LenProperties, DecoderAssumption DEF Sound
  <2>3. CASE ~fed.poisoned /\ Len(fed.line_buffer) > max_line_buffer
    BY <1>1, <1>3, <2>1, <2>2, <2>3, SoundIsBusy, Poisoned
  <2>4. CASE ~(~fed.poisoned /\ Len(fed.line_buffer) > max_line_buffer)
    BY <1>1, <1>3, <2>1, <2>2, <2>4
  <2> QED BY <2>3, <2>4
<1> QED BY <1>2, <1>3

LEMMA FinishKeeps ==
  ASSUME NEW d \in Sound
  PROVE  finish(d) \in Sound /\ finish(d).poisoned = d.poisoned /\ finish(d).line_buffer = d.line_buffer
<1>1. d \in Decoder /\ d.poisoned \in BOOLEAN
  BY FieldsTold DEF Sound
<1>2. CASE d.poisoned
  <2> DEFINE p == [d EXCEPT !.events = <<Err>>]
  <2>1. finish(d) = p /\ p.line_buffer = d.line_buffer /\ p.poisoned = d.poisoned
    BY <1>1, <1>2 DEF finish, Decoder
  <2>2. p \in Sound
    BY <1>2, FailedBefore
  <2> HIDE DEF p
  <2> QED BY <2>1, <2>2
<1>3. CASE ~d.poisoned
  <2> DEFINE p == Fresh(d)
  <2>1. finish(d) = flush_tool_calls(p)
    BY <1>3 DEF finish, Fresh
  <2>2. p \in Busy /\ p.poisoned = d.poisoned
    BY FreshIsBusy
  <2>3. p.line_buffer = d.line_buffer
    BY <1>1 DEF Fresh, Decoder
  <2> HIDE DEF p
  <2>4. flush_tool_calls(p) \in Busy /\ flush_tool_calls(p).poisoned = d.poisoned
    BY <2>2, FlushKeeps
  <2>5. flush_tool_calls(p).line_buffer = p.line_buffer
    BY <2>2, Flushes DEF Busy, Decoder
  <2> DEFINE q == flush_tool_calls(p)
  <2>6. q \in Busy /\ q \in Decoder /\ q.poisoned = d.poisoned /\ q.line_buffer = d.line_buffer
    BY <2>3, <2>4, <2>5 DEF Busy
  <2> HIDE DEF q
  <2>7. q \in Sound
    BY <1>3, <2>6, SoundIsBusy
  <2> QED BY <2>1, <2>6, <2>7 DEF q
<1> QED BY <1>1, <1>2, <1>3

LEMMA NewIsSound ==
  NewDecoder \in Sound /\ ~NewDecoder.poisoned /\ NewDecoder.line_buffer = <<>> /\ NewDecoder.events = <<>>
<1> DEFINE nothing == <<>>
           p == [line_buffer |-> nothing, data_lines |-> nothing, event_payload_len |-> 0,
                 tool_calls |-> nothing, poisoned |-> FALSE, events |-> nothing]
<1>1. nothing \in Seq(STRING) /\ nothing \in Seq(Seq(STRING)) /\ nothing \in Seq(Reported)
       /\ nothing \in Calls /\ DOMAIN nothing = {} /\ NoErr(nothing)
  BY CallsTyped DEF NoErr
<1>2. NewDecoder = p
  BY DEF NewDecoder
<1> HIDE DEF nothing
<1>3. p \in Decoder /\ p.event_payload_len = 0 /\ p.tool_calls = nothing /\ p.events = nothing
       /\ p.line_buffer = nothing /\ p.poisoned = FALSE
  BY <1>1 DEF Decoder
<1> HIDE DEF p
<1>4. p \in Sound
  BY <1>1, <1>3, DecoderAssumption DEF Sound, Within, ErrOnlyLast
<1> QED BY <1>2, <1>3, <1>4 DEF nothing

\* Sequences put end to end are a sequence.
LEMMA FlattenTyped ==
  ASSUME NEW S, NEW seqs \in Seq(Seq(S))
  PROVE  FlattenSeq(seqs) \in Seq(S)
<1> DEFINE T == Seq(S)
           nothing == <<>>
           k == Len(seqs)
           flatten == CHOOSE f : f = [i \in 1..k |-> IF i = 1 THEN seqs[i] ELSE f[i - 1] \o seqs[i]]
           step == [i \in 1..k |-> [x \in T |-> x \o seqs[i]]]
<1>1. k \in Nat /\ \A i \in 1..k : seqs[i] \in T
  BY LenProperties, ElementOfSeq
<1>2. nothing \in T /\ (\A x \in T, y \in T : x \o y \in T) /\ (\A x \in T : nothing \o x = x)
  BY ConcatProperties, ConcatEmptySeq
<1>3. FlattenSeq(seqs) = IF k = 0 THEN seqs ELSE flatten[k]
  BY DEF FlattenSeq
<1>4. CASE k = 0
  <2>1. seqs = <<>>
    BY <1>4, EmptySeq
  <2> QED BY <1>2, <1>3, <1>4, <2>1
<1>5. CASE k # 0
  <2> HIDE DEF k, T, nothing
  <2>1. step \in [1..k -> [T -> T]] /\ \A n \in 1..k : \A x \in T : step[n][x] = x \o seqs[n]
    BY <1>1, <1>2
  <2> HIDE DEF step
  <2>2. PICK g : IsRun(g, T, nothing, step, k)
    BY <1>1, <1>2, <2>1, RunExists
  <2>3. g \in [0..k -> T] /\ \A n \in 0..k : g[n] = IF n = 0 THEN nothing ELSE step[n][g[n - 1]]
    BY <2>2 DEF IsRun
  <2> DEFINE f == [i \in 1..k |-> g[i]]
  <2>4. ASSUME NEW i \in 1..k PROVE f[i] = IF i = 1 THEN seqs[i] ELSE f[i - 1] \o seqs[i]
    <3>1. i \in 0..k /\ i # 0 /\ i - 1 \in 0..k /\ (i # 1 => i - 1 \in 1..k)
      BY <1>1
    <3>2. g[i] = step[i][g[i - 1]] /\ g[i - 1] \in T
      BY <2>3, <3>1
    <3>3. g[i] = g[i - 1] \o seqs[i]
      BY <2>1, <3>2
    <3>4. CASE i = 1
      <4>1. g[i - 1] = nothing
        BY <2>3, <3>1, <3>4
      <4> QED BY <1>1, <1>2, <3>3, <3>4, <4>1
    <3>5. CASE i # 1
      <4>1. f[i - 1] = g[i - 1]
        BY <3>1, <3>5
      <4> QED BY <3>3, <3>5, <4>1
    <3> QED BY <3>4, <3>5
  <2>5. f = [i \in 1..k |-> IF i = 1 THEN seqs[i] ELSE f[i - 1] \o seqs[i]]
    <3>1. f = [i \in 1..k |-> f[i]]
      OBVIOUS
    <3> HIDE DEF f
    <3>2. [i \in 1..k |-> f[i]] = [i \in 1..k |-> IF i = 1 THEN seqs[i] ELSE f[i - 1] \o seqs[i]]
      BY <2>4
    <3> QED BY <3>1, <3>2
  <2> HIDE DEF f
  <2>6. flatten = [i \in 1..k |-> IF i = 1 THEN seqs[i] ELSE flatten[i - 1] \o seqs[i]]
    BY <2>5
  <2> HIDE DEF flatten
  <2> DEFINE Typed == {n \in 0..(k - 1) : flatten[n + 1] \in T}
             last == k - 1
  <2>7. last \in Nat
    BY <1>1, <1>5
  <2>8. 0 \in Typed
    BY <1>1, <1>5, <2>6
  <2>9. ASSUME NEW n \in 0..(last - 1), n \in Typed PROVE n + 1 \in Typed
    <3>1. n + 1 \in 0..last /\ (n + 1) + 1 \in 1..k /\ (n + 1) + 1 # 1 /\ ((n + 1) + 1) - 1 = n + 1
      BY <1>1, <2>7
    <3>2. flatten[(n + 1) + 1] = flatten[n + 1] \o seqs[(n + 1) + 1]
      BY <2>6, <3>1
    <3>3. flatten[n + 1] \in T /\ seqs[(n + 1) + 1] \in T
      BY <1>1, <2>9, <3>1
    <3> QED BY <1>2, <3>1, <3>2, <3>3
  <2> HIDE DEF Typed
  <2>10. 0..last \subseteq Typed
    <3> HIDE DEF last
    <3> QED BY <2>7, <2>8, <2>9, IntervalFromZero
  <2>11. last \in Typed /\ last + 1 = k
    BY <1>1, <2>7, <2>10
  <2>12. flatten[k] \in T
    BY <2>11 DEF Typed
  <2> QED BY <1>3, <1>5, <2>12 DEF T
<1> QED BY <1>4, <1>5
-----------------------------------------------------------------------------
\* The units of the frames sent whole, and of the one that was cut off.
Body == FlattenSeq([i \in DOMAIN frames |-> frames[i].units]) \o tail

LEMMA BodyTyped ==
  ASSUME NEW n \in Nat, NEW whole \in [1..n -> Frames], NEW cut \in Parts
  PROVE  FlattenSeq([i \in 1..n |-> whole[i].units]) \o cut \in Seq(STRING)
<1>1. \A i \in 1..n : whole[i].units \in Seq(STRING)
  BY StreamAssumption
<1> DEFINE S == Seq(STRING)
           seqs == [i \in 1..n |-> whole[i].units]
<1>2. seqs \in Seq(S)
  <2>1. \A i \in 1..n : whole[i].units \in S
    BY <1>1
  <2> HIDE DEF S
  <2>2. seqs \in [1..n -> S]
    BY <2>1
  <2> HIDE DEF seqs
  <2> QED BY <2>2
<1> HIDE DEF seqs
<1>3. FlattenSeq(seqs) \in Seq(STRING)
  BY <1>2, FlattenTyped
<1>4. cut \in Seq(STRING)
  <2>0. PICK f \in Frames : \E c \in 0..(Len(f.units) - 1) : cut = SubSeq(f.units, 1, c)
    BY DEF Parts
  <2>1. PICK c \in 0..(Len(f.units) - 1) : cut = SubSeq(f.units, 1, c)
    BY <2>0
  <2>2. f.units \in Seq(STRING) /\ Len(f.units) \in Nat
    BY StreamAssumption, LenProperties
  <2>3. \A i \in 1..c : f.units[i] \in STRING
    BY <2>2, ElementOfSeq
  <2> HIDE DEF S
  <2> QED BY <2>1, <2>2, <2>3, SubSeqProperties
<1> QED BY <1>3, <1>4, ConcatProperties DEF seqs

\* A piece of the body taken off the wire.
LEMMA Taken ==
  ASSUME NEW w \in Seq(STRING), NEW n \in 1..Len(w)
  PROVE  /\ SubSeq(w, 1, n) \in Seq(STRING) /\ SubSeq(w, n + 1, Len(w)) \in Seq(STRING)
         /\ SubSeq(w, 1, n) \o SubSeq(w, n + 1, Len(w)) = w
<1>1. Len(w) \in Nat /\ \A i \in 1..Len(w) : w[i] \in STRING
  BY LenProperties, ElementOfSeq
<1>2. SubSeq(w, 1, n) \in Seq(STRING)
  BY <1>1, SubSeqProperties
<1>3. SubSeq(w, n + 1, Len(w)) \in Seq(STRING)
  BY <1>1, SubSeqProperties
<1>4. SubSeq(w, 1, n) \o SubSeq(w, n + 1, Len(w)) = SubSeq(w, 1, Len(w))
  <2>1. 1 \in 1..Len(w) + 1 /\ n \in (1 - 1)..Len(w) /\ Len(w) \in n..Len(w)
    BY <1>1
  <2> QED BY <2>1, ConcatAdjacentSubSeq
<1>5. SubSeq(w, 1, Len(w)) = w
  BY SubSeqFull
<1> QED BY <1>2, <1>3, <1>4, <1>5

\* What the stream is made of, as it is between two steps.
StreamTyped ==
  /\ wire \in Seq(STRING) /\ decoder \in Sound
  /\ ~decoder.poisoned => Len(decoder.line_buffer) <= max_line_buffer

LEMMA StreamTypedInit == Init => StreamTyped
<1> SUFFICES ASSUME Init PROVE StreamTyped
  OBVIOUS
<1>1. wire = <<>> /\ decoder = NewDecoder
  BY DEF Init
<1>2. wire \in Seq(STRING)
  BY <1>1
<1>3. Len(decoder.line_buffer) = 0 /\ 0 <= max_line_buffer
  BY <1>1, NewIsSound, DecoderAssumption
<1> QED BY <1>1, <1>2, <1>3, NewIsSound DEF StreamTyped

\* The server's answer is the body on the wire.
LEMMA AcceptedSends ==
  ASSUME Accepted
  PROVE  wire' = Body' /\ wire' \in Seq(STRING)
<1>1. PICK n \in 0..(IF attempt = 0 THEN MaxFrames ELSE MaxLateFrames) : \E whole \in [1..n -> Frames] :
        /\ frames' = whole /\ tail' \in Parts
        /\ wire' = FlattenSeq([i \in 1..n |-> whole[i].units]) \o tail'
  BY DEF Accepted
<1>2. PICK whole \in [1..n -> Frames] :
        /\ frames' = whole /\ tail' \in Parts
        /\ wire' = FlattenSeq([i \in 1..n |-> whole[i].units]) \o tail'
  BY <1>1
<1>3. n \in Nat
  BY <1>1, StreamAssumption
<1>4. wire' \in Seq(STRING)
  BY <1>2, <1>3, BodyTyped
<1>5. DOMAIN frames' = 1..n
  BY <1>2
<1>6. Body' = FlattenSeq([i \in DOMAIN frames' |-> frames'[i].units]) \o tail'
  BY DEF Body
<1>7. Body' = FlattenSeq([i \in 1..n |-> whole[i].units]) \o tail'
  BY <1>2, <1>5, <1>6
<1> QED BY <1>2, <1>4, <1>7

LEMMA StreamTypedStep ==
  ASSUME StreamTyped, [Next]_vars
  PROVE  StreamTyped'
<1>1. wire \in Seq(STRING) /\ decoder \in Sound
  BY DEF StreamTyped
<1>2. CASE Accepted
  BY <1>1, <1>2, AcceptedSends DEF StreamTyped, Accepted
<1>3. ASSUME NEW n \in 1..Len(wire), Receive(n) PROVE StreamTyped'
  <2>1. decoder' = feed(decoder, SubSeq(wire, 1, n)) /\ wire' = SubSeq(wire, n + 1, Len(wire))
    BY <1>3 DEF Receive
  <2>2. SubSeq(wire, 1, n) \in Seq(STRING) /\ wire' \in Seq(STRING)
    BY <1>1, <2>1, Taken
  <2>3. decoder' \in Sound /\ (~decoder'.poisoned => Len(decoder'.line_buffer) <= max_line_buffer)
    BY <1>1, <2>1, <2>2, FeedKeeps
  <2> QED BY <2>2, <2>3 DEF StreamTyped
<1>4. CASE BodyEnds
  <2>1. decoder' = finish(decoder) /\ wire' = wire
    BY <1>4 DEF BodyEnds
  <2>2. finish(decoder) \in Sound /\ finish(decoder).poisoned = decoder.poisoned
         /\ finish(decoder).line_buffer = decoder.line_buffer
    BY <1>1, FinishKeeps
  <2> QED BY <2>1, <2>2 DEF StreamTyped
<1>5. CASE UNCHANGED <<wire, decoder>>
  BY <1>5 DEF StreamTyped
<1> QED BY <1>2, <1>3, <1>4, <1>5
       DEF Next, Request, NoKey, ReadBody, Refused, Poll, Deliver, BodyBreaks, Close, Terminated, vars, stream

\* BuffersBounded is an invariant: however the network cuts whatever the server
\* sends into chunks, between two chunks the line, the event and the arguments
\* of every call that SseDecoder keeps are within their bounds.
THEOREM BuffersStayBounded == Spec => []BuffersBounded
<1>1. StreamTyped /\ [Next]_vars => StreamTyped'
  BY StreamTypedStep
<1>2. StreamTyped => BuffersBounded
  BY DEF StreamTyped, Sound, Within, BuffersBounded
<1> QED BY <1>1, <1>2, StreamTypedInit, PTL DEF Spec

-----------------------------------------------------------------------------
(***************************************************************************)
(* Chunks: where the network cuts the body makes no difference.            *)
(***************************************************************************)

\* t is s with e before it.
Preceded(e, s, t) == t = e \o s

\* p is d with the events e reported before its own.
Follows(e, d, p) ==
  /\ p.line_buffer = d.line_buffer /\ p.data_lines = d.data_lines
  /\ p.event_payload_len = d.event_payload_len /\ p.tool_calls = d.tool_calls
  /\ p.poisoned = d.poisoned /\ Preceded(e, d.events, p.events)

\* Events added to those reported before.
LEMMA AddedAfter ==
  ASSUME NEW e \in Seq(Reported), NEW s \in Seq(Reported), NEW t, Preceded(e, s, t), NEW x \in Reported
  PROVE  Preceded(e, Append(s, x), Append(t, x))
<1>1. e \o Append(s, x) = Append(e \o s, x)
  OBVIOUS
<1> QED BY <1>1 DEF Preceded

LEMMA JoinedAfter ==
  ASSUME NEW e \in Seq(Reported), NEW s \in Seq(Reported), NEW t, Preceded(e, s, t),
         NEW u \in Seq(Reported)
  PROVE  Preceded(e, s \o u, t \o u)
<1>1. (e \o s) \o u = e \o (s \o u)
  BY ConcatAssociative
<1> QED BY <1>1 DEF Preceded

\* The events are told apart from the rest of a decoder.
LEMMA EventsFollow ==
  ASSUME NEW e, NEW d \in Decoder, NEW p \in Decoder, Follows(e, d, p),
         NEW a, NEW b, Preceded(e, a, b)
  PROVE  Follows(e, [d EXCEPT !.events = a], [p EXCEPT !.events = b])
  BY DEF Follows, Decoder

LEMMA PoisonFollows ==
  ASSUME NEW e \in Seq(Reported), NEW d \in Decoder, NEW p \in Decoder, Follows(e, d, p)
  PROVE  Follows(e, poison_and_report(d), poison_and_report(p))
<1> DEFINE a == Append(d.events, Err)
           b == Append(p.events, Err)
<1>1. Preceded(e, a, b)
  <2>1. d.events \in Seq(Reported) /\ Preceded(e, d.events, p.events) /\ Err \in Reported
    BY FieldsTold, ErrIsReported DEF Follows
  <2> QED BY <2>1, AddedAfter
<1>2. poison_and_report(d) = [d EXCEPT !.poisoned = TRUE, !.events = a]
  BY DEF poison_and_report
<1>3. poison_and_report(p) = [p EXCEPT !.poisoned = TRUE, !.events = b]
  BY DEF poison_and_report
<1> HIDE DEF a, b
<1> QED BY <1>1, <1>2, <1>3 DEF Follows, Decoder

LEMMA FlushFollows ==
  ASSUME NEW e \in Seq(Reported), NEW d \in Decoder, NEW p \in Decoder, Follows(e, d, p)
  PROVE  Follows(e, flush_tool_calls(d), flush_tool_calls(p))
<1>1. d.events \in Seq(Reported) /\ d.tool_calls \in Calls /\ p.tool_calls = d.tool_calls
  BY FieldsTold DEF Follows
<1> DEFINE u == UsesOf(d.tool_calls)
           a == d.events \o u
           b == p.events \o u
<1>2. u \in Seq(Reported)
  BY <1>1, UsesTyped
<1>3. Preceded(e, a, b)
  <2>1. Preceded(e, d.events, p.events)
    BY DEF Follows
  <2> HIDE DEF u
  <2> QED BY <1>1, <1>2, <2>1, JoinedAfter
<1>4. flush_tool_calls(d) = [d EXCEPT !.tool_calls = <<>>, !.events = a]
  BY Flushes
<1>5. flush_tool_calls(p) = [p EXCEPT !.tool_calls = <<>>, !.events = b]
  BY <1>1, Flushes
<1> HIDE DEF a, b
<1> QED BY <1>3, <1>4, <1>5 DEF Follows, Decoder

LEMMA ItemFollows ==
  ASSUME NEW e \in Seq(Reported), NEW d \in Busy, NEW p \in Busy, Follows(e, d, p), NEW item \in Item
  PROVE  Follows(e, DispatchItem(d, item), DispatchItem(p, item))
<1>1. d \in Decoder /\ p \in Decoder /\ d.events \in Seq(Reported) /\ d.poisoned \in BOOLEAN
       /\ d.poisoned = p.poisoned /\ p.tool_calls = d.tool_calls /\ Preceded(e, d.events, p.events)
  BY FieldsTold DEF Busy, Follows
<1>2. CASE d.poisoned
  <2>1. DispatchItem(d, item) = d /\ DispatchItem(p, item) = p
    BY <1>1, <1>2 DEF DispatchItem
  <2> QED BY <2>1
<1>3. CASE ~d.poisoned /\ item.kind = "text"
  <2> DEFINE a == Append(d.events, TextDelta)
             b == Append(p.events, TextDelta)
  <2>1. DispatchItem(d, item) = [d EXCEPT !.events = a]
    BY <1>3 DEF DispatchItem
  <2>2. DispatchItem(p, item) = [p EXCEPT !.events = b]
    BY <1>1, <1>3 DEF DispatchItem
  <2>3. Preceded(e, a, b)
    BY <1>1, ErrIsReported, AddedAfter
  <2> HIDE DEF a, b
  <2>4. d \in Decoder /\ p \in Decoder
    BY <1>1
  <2> QED BY <2>1, <2>2, <2>3, <2>4, EventsFollow
<1>4. CASE ~d.poisoned /\ item.kind = "end"
  <2> DEFINE df == flush_tool_calls(d)
             pf == flush_tool_calls(p)
             a == Append(df.events, End)
             b == Append(pf.events, End)
  <2>1. DispatchItem(d, item) = [df EXCEPT !.events = a]
    BY <1>4 DEF DispatchItem
  <2>2. DispatchItem(p, item) = [pf EXCEPT !.events = b]
    BY <1>1, <1>4 DEF DispatchItem
  <2>3. df \in Decoder /\ pf \in Decoder
    BY FlushKeeps DEF Busy
  <2>4. Follows(e, df, pf)
    BY <1>1, FlushFollows
  <2> HIDE DEF df, pf
  <2>5. df.events \in Seq(Reported) /\ Preceded(e, df.events, pf.events)
    BY <2>3, <2>4, FieldsTold DEF Follows
  <2>6. Preceded(e, a, b)
    BY <2>5, ErrIsReported, AddedAfter
  <2> HIDE DEF a, b
  <2> QED BY <2>1, <2>2, <2>3, <2>4, <2>6, EventsFollow
<1>5. CASE ~d.poisoned /\ item.kind = "delta"
  <2>1. Accumulator(d, item.index) = Accumulator(p, item.index)
    BY <1>1 DEF Accumulator
  <2>2. Overflows(d, item) <=> Overflows(p, item)
    BY <2>1 DEF Overflows
  <2>3. CASE Overflows(d, item)
    <3>1. DispatchItem(d, item) = [d EXCEPT !.poisoned = TRUE]
      BY <1>5, <2>3 DEF DispatchItem
    <3>2. DispatchItem(p, item) = [p EXCEPT !.poisoned = TRUE]
      BY <1>1, <1>5, <2>2, <2>3 DEF DispatchItem
    <3> QED BY <1>1, <3>1, <3>2 DEF Follows, Decoder
  <2>4. CASE ~Overflows(d, item)
    <3> DEFINE new == Put(d.tool_calls, item.index, Merged(Accumulator(d, item.index), item))
    <3>1. DispatchItem(d, item) = [d EXCEPT !.tool_calls = new]
      BY <1>5, <2>4 DEF DispatchItem, Accumulate
    <3>2. DispatchItem(p, item) = [p EXCEPT !.tool_calls = new]
      BY <1>1, <1>5, <2>1, <2>2, <2>4 DEF DispatchItem, Accumulate
    <3> HIDE DEF new
    <3> QED BY <1>1, <3>1, <3>2 DEF Follows, Decoder
  <2> QED BY <2>3, <2>4
<1> QED BY <1>1, <1>2, <1>3, <1>4, <1>5, ItemTold

LEMMA ItemsFollow ==
  ASSUME NEW e \in Seq(Reported), NEW d \in Busy, NEW p \in Busy, Follows(e, d, p), NEW items \in Seq(Item)
  PROVE  Follows(e, dispatched(d, items), dispatched(p, items))
<1>1. PICK f : ItemRun(f, d, items) /\ dispatched(d, items) = f[Len(items)]
  BY ItemsAreRun
<1>2. PICK g : ItemRun(g, p, items) /\ dispatched(p, items) = g[Len(items)]
  BY ItemsAreRun
<1> DEFINE k == Len(items)
           T == {n \in 0..k : Follows(e, f[n], g[n])}
<1>3. k \in Nat /\ \A n \in 1..k : items[n] \in Item
  BY LenProperties, ElementOfSeq
<1>4. f \in [0..k -> Busy] /\ f[0] = d /\ \A n \in 0..(k - 1) : f[n + 1] = DispatchItem(f[n], items[n + 1])
  BY <1>1 DEF ItemRun
<1>5. g \in [0..k -> Busy] /\ g[0] = p /\ \A n \in 0..(k - 1) : g[n + 1] = DispatchItem(g[n], items[n + 1])
  BY <1>2 DEF ItemRun
<1> HIDE DEF k
<1>6. 0 \in T
  BY <1>3, <1>4, <1>5
<1>7. ASSUME NEW n \in 0..(k - 1), n \in T PROVE n + 1 \in T
  <2>1. n \in 0..k /\ n + 1 \in 0..k /\ n + 1 \in 1..k
    BY <1>3
  <2>2. f[n] \in Busy /\ g[n] \in Busy /\ Follows(e, f[n], g[n]) /\ items[n + 1] \in Item
    BY <1>3, <1>4, <1>5, <1>7, <2>1
  <2>3. Follows(e, DispatchItem(f[n], items[n + 1]), DispatchItem(g[n], items[n + 1]))
    BY <2>2, ItemFollows
  <2> QED BY <1>4, <1>5, <2>1, <2>3
<1> HIDE DEF T
<1>8. 0..k \subseteq T
  BY <1>3, <1>6, <1>7, IntervalFromZero
<1>9. k \in T
  BY <1>3, <1>8
<1> QED BY <1>1, <1>2, <1>9 DEF T, k

LEMMA DispatchEventFollows ==
  ASSUME NEW e \in Seq(Reported), NEW d \in Busy, NEW p \in Busy, Follows(e, d, p)
  PROVE  Follows(e, dispatch_event(d), dispatch_event(p))
<1>1. d \in Decoder /\ p \in Decoder /\ p.data_lines = d.data_lines
  BY DEF Busy, Follows
<1> DEFINE payload == d.data_lines
           dc == [d EXCEPT !.data_lines = <<>>, !.event_payload_len = 0]
           pc == [p EXCEPT !.data_lines = <<>>, !.event_payload_len = 0]
           dd == dispatched(dc, Chunks[payload])
           pd == dispatched(pc, Chunks[payload])
<1>2. Follows(e, dc, pc)
  BY <1>1 DEF Follows, Decoder
<1>3. dispatch_event(d) = IF payload = <<>> THEN d
                          ELSE IF payload \notin DOMAIN Chunks THEN poison_and_report(dc)
                          ELSE IF dd.poisoned THEN poison_and_report(dc) ELSE dd
  BY DEF dispatch_event
<1>4. dispatch_event(p) = IF payload = <<>> THEN p
                          ELSE IF payload \notin DOMAIN Chunks THEN poison_and_report(pc)
                          ELSE IF pd.poisoned THEN poison_and_report(pc) ELSE pd
  BY <1>1 DEF dispatch_event
<1>5. dc \in Busy /\ pc \in Busy
  BY ClearedIsBusy
<1> HIDE DEF dc, pc
<1>6. Follows(e, poison_and_report(dc), poison_and_report(pc))
  BY <1>2, <1>5, PoisonFollows DEF Busy
<1>7. CASE payload \in DOMAIN Chunks
  <2>1. Chunks[payload] \in Seq(Item)
    BY <1>7, DecoderAssumption
  <2>2. Follows(e, dd, pd)
    BY <1>2, <1>5, <2>1, ItemsFollow
  <2>3. pd.poisoned = dd.poisoned
    BY <2>2 DEF Follows
  <2> HIDE DEF dd, pd
  <2> QED BY <1>3, <1>4, <1>6, <1>7, <2>2, <2>3
<1> HIDE DEF dd, pd
<1> QED BY <1>3, <1>4, <1>6, <1>7

LEMMA ProcessLineFollows ==
  ASSUME NEW e \in Seq(Reported), NEW d \in Busy, NEW p \in Busy, Follows(e, d, p)
  PROVE  Follows(e, process_line(d), process_line(p))
<1>1. d \in Decoder /\ p \in Decoder /\ p.line_buffer = d.line_buffer /\ p.data_lines = d.data_lines
       /\ p.event_payload_len = d.event_payload_len
  BY DEF Busy, Follows
<1> DEFINE line == d.line_buffer
           size == d.event_payload_len + Len(line) - 1
           dt == [d EXCEPT !.line_buffer = <<>>]
           pt == [p EXCEPT !.line_buffer = <<>>]
           dl == [dt EXCEPT !.data_lines = Append(@, Tail(line)), !.event_payload_len = size]
           pl == [pt EXCEPT !.data_lines = Append(@, Tail(line)), !.event_payload_len = size]
<1>2. Follows(e, dt, pt) /\ dt \in Decoder /\ pt \in Decoder
  <2>1. <<>> \in Seq(STRING)
    OBVIOUS
  <2> QED BY <1>1, <2>1 DEF Follows, Decoder
<1>3. dt \in Busy /\ pt \in Busy
  BY TakenIsBusy
<1>4. process_line(d) = IF "bad" \in ToSet(line) THEN poison_and_report(dt)
                        ELSE IF line = <<>> THEN dispatch_event(dt)
                        ELSE IF Head(line) # "data" THEN dt
                        ELSE IF size > max_event_payload THEN poison_and_report(dt)
                        ELSE dl
  BY DEF process_line
<1>5. process_line(p) = IF "bad" \in ToSet(line) THEN poison_and_report(pt)
                        ELSE IF line = <<>> THEN dispatch_event(pt)
                        ELSE IF Head(line) # "data" THEN pt
                        ELSE IF size > max_event_payload THEN poison_and_report(pt)
                        ELSE pl
  BY <1>1 DEF process_line
<1> HIDE DEF dt, pt
<1>6. Follows(e, poison_and_report(dt), poison_and_report(pt))
  BY <1>2, PoisonFollows
<1>7. Follows(e, dispatch_event(dt), dispatch_event(pt))
  BY <1>2, <1>3, DispatchEventFollows
<1>8. Follows(e, dl, pl)
  <2> DEFINE more == Append(dt.data_lines, Tail(line))
  <2>1. dl = [dt EXCEPT !.data_lines = more, !.event_payload_len = size]
    OBVIOUS
  <2>2. pl = [pt EXCEPT !.data_lines = more, !.event_payload_len = size]
    BY <1>2 DEF Follows
  <2> HIDE DEF more, size, dl, pl
  <2> QED BY <1>2, <2>1, <2>2 DEF Follows, Decoder
<1> HIDE DEF dl, pl, size, line
<1> QED BY <1>2, <1>4, <1>5, <1>6, <1>7, <1>8

LEMMA ConsumeFollows ==
  ASSUME NEW e \in Seq(Reported), NEW d \in Sound, NEW p \in Sound, Follows(e, d, p), NEW unit \in STRING
  PROVE  Follows(e, Consume(d, unit), Consume(p, unit))
<1>1. d \in Decoder /\ p \in Decoder /\ d.poisoned = p.poisoned /\ p.line_buffer = d.line_buffer
  BY DEF Sound, Follows
<1>2. CASE d.poisoned
  <2>1. Consume(d, unit) = d /\ Consume(p, unit) = p
    BY <1>1, <1>2 DEF Consume
  <2> QED BY <2>1
<1>3. CASE ~d.poisoned /\ unit = "nl"
  <2>1. Consume(d, unit) = process_line(d)
    BY <1>3 DEF Consume
  <2>2. Consume(p, unit) = process_line(p)
    BY <1>1, <1>3 DEF Consume
  <2>3. d \in Busy /\ p \in Busy
    BY <1>1, <1>3, SoundIsBusy
  <2> QED BY <2>1, <2>2, <2>3, ProcessLineFollows
<1>4. CASE ~d.poisoned /\ unit # "nl"
  <2> DEFINE buffer == Append(d.line_buffer, unit)
  <2>1. Consume(d, unit) = [d EXCEPT !.line_buffer = buffer]
    BY <1>4 DEF Consume
  <2>2. Consume(p, unit) = [p EXCEPT !.line_buffer = buffer]
    BY <1>1, <1>4 DEF Consume
  <2> HIDE DEF buffer
  <2> QED BY <1>1, <2>1, <2>2 DEF Follows, Decoder
<1> QED BY <1>2, <1>3, <1>4

LEMMA UnitsFollow ==
  ASSUME NEW e \in Seq(Reported), NEW d \in Sound, NEW p \in Sound, Follows(e, d, p),
         NEW bytes \in Seq(STRING)
  PROVE  Follows(e, consumed(d, bytes), consumed(p, bytes))
<1>1. PICK f : UnitRun(f, d, bytes) /\ consumed(d, bytes) = f[Len(bytes)]
  BY UnitsAreRun
<1>2. PICK g : UnitRun(g, p, bytes) /\ consumed(p, bytes) = g[Len(bytes)]
  BY UnitsAreRun
<1> DEFINE k == Len(bytes)
           T == {n \in 0..k : Follows(e, f[n], g[n])}
<1>3. k \in Nat /\ \A n \in 1..k : bytes[n] \in STRING
  BY LenProperties, ElementOfSeq
<1>4. f \in [0..k -> Sound] /\ f[0] = d /\ \A n \in 0..(k - 1) : f[n + 1] = Consume(f[n], bytes[n + 1])
  BY <1>1 DEF UnitRun
<1>5. g \in [0..k -> Sound] /\ g[0] = p /\ \A n \in 0..(k - 1) : g[n + 1] = Consume(g[n], bytes[n + 1])
  BY <1>2 DEF UnitRun
<1> HIDE DEF k
<1>6. 0 \in T
  BY <1>3, <1>4, <1>5
<1>7. ASSUME NEW n \in 0..(k - 1), n \in T PROVE n + 1 \in T
  <2>1. n \in 0..k /\ n + 1 \in 0..k /\ n + 1 \in 1..k
    BY <1>3
  <2>2. f[n] \in Sound /\ g[n] \in Sound /\ Follows(e, f[n], g[n]) /\ bytes[n + 1] \in STRING
    BY <1>3, <1>4, <1>5, <1>7, <2>1
  <2>3. Follows(e, Consume(f[n], bytes[n + 1]), Consume(g[n], bytes[n + 1]))
    BY <2>2, ConsumeFollows
  <2> QED BY <1>4, <1>5, <2>1, <2>3
<1> HIDE DEF T
<1>8. 0..k \subseteq T
  BY <1>3, <1>6, <1>7, IntervalFromZero
<1>9. k \in T
  BY <1>3, <1>8
<1> QED BY <1>1, <1>2, <1>9 DEF T, k

\* Two chunks are consumed as if they had arrived as one.
LEMMA ConsumedInTurn ==
  ASSUME NEW d \in Sound, NEW s \in Seq(STRING), NEW t \in Seq(STRING)
  PROVE  consumed(d, s \o t) = consumed(consumed(d, s), t)
<1> DEFINE j == Len(s)
           k == Len(t)
           both == s \o t
           middle == consumed(d, s)
<1>1. j \in Nat /\ k \in Nat /\ both \in Seq(STRING) /\ Len(both) = j + k
       /\ (\A i \in 1..j : both[i] = s[i]) /\ \A i \in 1..k : both[j + i] = t[i]
  <2>1. j \in Nat /\ k \in Nat
    BY LenProperties
  <2>2. both \in Seq(STRING) /\ Len(both) = j + k
         /\ \A i \in 1..(j + k) : both[i] = IF i <= j THEN s[i] ELSE t[i - j]
    BY ConcatProperties
  <2> HIDE DEF both, j, k
  <2>3. \A i \in 1..k : j + i \in 1..(j + k) /\ ~(j + i <= j) /\ (j + i) - j = i
    BY <2>1
  <2> QED BY <2>1, <2>2, <2>3
<1>2. middle \in Sound
  BY ConsumedIsSound
<1>3. PICK f : UnitRun(f, d, both) /\ consumed(d, both) = f[Len(both)]
  BY <1>1, UnitsAreRun
<1>4. PICK g : UnitRun(g, d, s) /\ middle = g[j]
  BY UnitsAreRun
<1> HIDE DEF middle
<1>5. PICK h : UnitRun(h, middle, t) /\ consumed(middle, t) = h[k]
  BY <1>2, UnitsAreRun
<1>6. f[0] = d /\ \A n \in 0..(j + k - 1) : f[n + 1] = Consume(f[n], both[n + 1])
  BY <1>1, <1>3 DEF UnitRun
<1>7. g[0] = d /\ \A n \in 0..(j - 1) : g[n + 1] = Consume(g[n], s[n + 1])
  BY <1>4 DEF UnitRun
<1>8. h[0] = middle /\ \A n \in 0..(k - 1) : h[n + 1] = Consume(h[n], t[n + 1])
  BY <1>5 DEF UnitRun
<1>9. consumed(d, both) = f[j + k]
  BY <1>1, <1>3
<1> HIDE DEF both, j, k
<1> DEFINE First == {n \in 0..j : f[n] = g[n]}
           Second == {n \in 0..k : f[j + n] = h[n]}
<1>10. f[j] = middle
  <2>1. 0 \in First
    BY <1>1, <1>6, <1>7
  <2>2. ASSUME NEW n \in 0..(j - 1), n \in First PROVE n + 1 \in First
    <3>1. n + 1 \in 0..j /\ n + 1 \in 1..j /\ n \in 0..(j + k - 1)
      BY <1>1
    <3>2. both[n + 1] = s[n + 1] /\ f[n] = g[n]
      BY <1>1, <2>2, <3>1
    <3> QED BY <1>6, <1>7, <3>1, <3>2
  <2> HIDE DEF First
  <2>3. 0..j \subseteq First
    BY <1>1, <2>1, <2>2, IntervalFromZero
  <2>4. j \in First
    BY <1>1, <2>3
  <2> QED BY <1>4, <2>4 DEF First
<1>11. f[j + k] = h[k]
  <2>1. 0 \in Second
    BY <1>1, <1>8, <1>10
  <2>2. ASSUME NEW n \in 0..(k - 1), n \in Second PROVE n + 1 \in Second
    <3>1. n + 1 \in 0..k /\ n + 1 \in 1..k /\ j + n \in 0..(j + k - 1) /\ (j + n) + 1 = j + (n + 1)
      BY <1>1
    <3>2. both[j + (n + 1)] = t[n + 1] /\ f[j + n] = h[n]
      BY <1>1, <2>2, <3>1
    <3>3. f[j + (n + 1)] = Consume(f[j + n], both[j + (n + 1)])
      BY <1>6, <3>1
    <3>4. f[j + (n + 1)] = h[n + 1]
      BY <1>8, <3>2, <3>3
    <3> QED BY <3>1, <3>4
  <2> HIDE DEF Second
  <2>3. 0..k \subseteq Second
    BY <1>1, <2>1, <2>2, IntervalFromZero
  <2>4. k \in Second
    BY <1>1, <2>3
  <2> QED BY <2>4 DEF Second
<1> QED BY <1>5, <1>9, <1>11 DEF both, middle

LEMMA ConsumedNothing ==
  ASSUME NEW d \in Sound
  PROVE  consumed(d, <<>>) = d
<1> DEFINE nothing == <<>>
<1>1. nothing \in Seq(STRING) /\ Len(nothing) = 0
  OBVIOUS
<1> HIDE DEF nothing
<1>2. PICK f : UnitRun(f, d, nothing) /\ consumed(d, nothing) = f[Len(nothing)]
  BY <1>1, UnitsAreRun
<1>3. f[0] = d
  BY <1>2 DEF UnitRun
<1>4. consumed(d, nothing) = d
  BY <1>1, <1>2, <1>3
<1> QED BY <1>4 DEF nothing

-----------------------------------------------------------------------------
(***************************************************************************)
(* The stream: the consumer polls what the body decodes to, and errors     *)
(* come last.                                                              *)
(***************************************************************************)

\* What the body decodes to if it arrives as one chunk.
AllAtOnce ==
  consumed(NewDecoder, Body).events \o finish(consumed(NewDecoder, Body)).events

Shown == delivered \o pending

ErrThenErrs(s) == \A i, j \in 1..Len(s) : i < j /\ s[i] = Err => s[j] = Err

\* s has no event that t does not have at the same place.
Begins(s, t) == \A i \in 1..Len(s) : s[i] # Err => i \in 1..Len(t) /\ t[i] = s[i]

Sent == phase \in {"streaming", "closed"}

\* As long as there is no error and the body goes on, the consumer has seen, or
\* is about to poll, what the units received so far decode to.
CaughtUp ==
  Sent /\ NoErr(Shown) /\ ~ended =>
    \E received \in Seq(STRING) :
      Body = received \o wire /\ Follows(Shown, Fresh(decoder), consumed(NewDecoder, received))

StreamInStep ==
  /\ delivered \in Seq(Reported) /\ pending \in Seq(Reported)
  /\ ended \in BOOLEAN /\ Body \in Seq(STRING)
  /\ phase \notin {"streaming", "closed"} =>
       delivered = <<>> /\ pending = <<>> /\ decoder = NewDecoder /\ ~ended /\ ~broken
  /\ phase = "closed" => ended /\ pending = <<>>
  /\ ErrThenErrs(Shown)
  /\ decoder.poisoned => ~NoErr(Shown)
  /\ ~NoErr(Shown) => ended \/ decoder.poisoned
  /\ broken => ~NoErr(Shown)
  /\ CaughtUp
  /\ Sent /\ NoErr(Shown) /\ ended => Shown = AllAtOnce
  /\ Sent => Begins(Shown, AllAtOnce)

\* However the network cuts the body into chunks, a stream that ends without an
\* error has delivered what the body decodes to in one piece, and one that ends
\* with an error has delivered a beginning of it.
DecodedAsOne ==
  /\ phase = "closed" /\ ~HasErr => delivered = AllAtOnce
  /\ Sent => Begins(delivered, AllAtOnce)

\* After an error the consumer gets errors only, and a connection that broke is
\* never taken for the end of the body.
ErrorsEndTheStream ==
  /\ \A i, j \in DOMAIN delivered : i < j /\ delivered[i] = Err => delivered[j] = Err
  /\ phase = "closed" /\ broken => HasErr

LEMMA FollowsFresh ==
  ASSUME NEW d \in Decoder
  PROVE  Follows(d.events, Fresh(d), d)
<1>1. d.events \in Seq(Reported)
  BY FieldsTold
<1>2. d.events \o <<>> = d.events
  BY <1>1, ConcatEmptySeq
<1> QED BY <1>2 DEF Follows, Preceded, Fresh, Decoder

\* A decoder that has failed reads nothing more.
LEMMA FailedStays ==
  ASSUME NEW d \in Sound, d.poisoned, NEW bytes \in Seq(STRING)
  PROVE  consumed(d, bytes) = d
<1>1. PICK f : UnitRun(f, d, bytes) /\ consumed(d, bytes) = f[Len(bytes)]
  BY UnitsAreRun
<1> DEFINE k == Len(bytes)
           T == {n \in 0..k : f[n] = d}
<1>2. k \in Nat
  BY LenProperties
<1>3. f[0] = d /\ \A n \in 0..(k - 1) : f[n + 1] = Consume(f[n], bytes[n + 1])
  BY <1>1 DEF UnitRun
<1> HIDE DEF k
<1>4. 0 \in T
  BY <1>2, <1>3
<1>5. ASSUME NEW n \in 0..(k - 1), n \in T PROVE n + 1 \in T
  <2>1. Consume(d, bytes[n + 1]) = d
    BY DEF Consume
  <2>2. n + 1 \in 0..k
    BY <1>2
  <2> QED BY <1>3, <1>5, <2>1, <2>2
<1> HIDE DEF T
<1>6. 0..k \subseteq T
  BY <1>2, <1>4, <1>5, IntervalFromZero
<1>7. k \in T
  BY <1>2, <1>6
<1> QED BY <1>1, <1>7 DEF T, k

\* What is decoded of the first units is how everything decoded begins.
LEMMA EventsOnlyGrow ==
  ASSUME NEW d \in Sound, NEW bytes \in Seq(STRING)
  PROVE  \E u \in Seq(Reported) : consumed(d, bytes).events = d.events \o u
<1>1. d \in Decoder /\ d.events \in Seq(Reported) /\ d.poisoned \in BOOLEAN
  BY FieldsTold DEF Sound
<1>2. CASE d.poisoned
  <2>1. consumed(d, bytes).events = d.events
    BY <1>2, FailedStays
  <2>2. d.events \o <<>> = d.events /\ <<>> \in Seq(Reported)
    BY <1>1, ConcatEmptySeq
  <2> QED BY <2>1, <2>2
<1>3. CASE ~d.poisoned
  <2> DEFINE e == d.events
             p == Fresh(d)
             u == consumed(p, bytes).events
  <2>1. p \in Sound /\ Follows(e, p, d) /\ e \in Seq(Reported)
    BY <1>1, <1>3, FreshIsBusy, FollowsFresh
  <2> HIDE DEF e, p
  <2>2. Follows(e, consumed(p, bytes), consumed(d, bytes))
    BY <2>1, UnitsFollow
  <2>3. consumed(p, bytes) \in Decoder
    BY <2>1, ConsumedIsSound DEF Sound
  <2>4. u \in Seq(Reported)
    BY <2>3, FieldsTold
  <2> QED BY <2>2, <2>4 DEF Follows, Preceded, e
<1> QED BY <1>1, <1>2, <1>3

LEMMA AllAtOnceGoesOn ==
  ASSUME NEW received \in Seq(STRING), NEW rest \in Seq(STRING), Body = received \o rest
  PROVE  \E u \in Seq(Reported) : AllAtOnce = consumed(NewDecoder, received).events \o u
<1> DEFINE new == NewDecoder
           whole == consumed(new, received)
           all == consumed(whole, rest)
           last == finish(all).events
<1>1. new \in Sound
  BY NewIsSound
<1> HIDE DEF new
<1>2. whole \in Sound
  BY <1>1, ConsumedIsSound
<1>3. consumed(new, received \o rest) = all
  BY <1>1, ConsumedInTurn
<1> HIDE DEF whole
<1>4. all \in Sound /\ finish(all) \in Sound
  BY <1>2, ConsumedIsSound, FinishKeeps
<1>5. PICK u \in Seq(Reported) : all.events = whole.events \o u
  BY <1>2, EventsOnlyGrow
<1>6. AllAtOnce = all.events \o last
  BY <1>3 DEF AllAtOnce, new
<1> HIDE DEF all
<1>7. last \in Seq(Reported) /\ whole.events \in Seq(Reported)
  BY <1>2, <1>4, FieldsTold DEF Sound
<1> HIDE DEF last
<1> DEFINE start == whole.events
           begin == start \o u
<1>8. AllAtOnce = begin \o last
  BY <1>5, <1>6
<1>9. start \in Seq(Reported) /\ begin = start \o u
  BY <1>7
<1> HIDE DEF start, begin
<1>10. begin \o last = start \o (u \o last)
  <2>1. Preceded(start, u, begin)
    BY <1>9 DEF Preceded
  <2>2. Preceded(start, u \o last, begin \o last)
    BY <1>7, <1>9, <2>1, JoinedAfter
  <2> QED BY <2>2 DEF Preceded
<1>11. u \o last \in Seq(Reported)
  BY <1>7, ConcatProperties
<1> QED BY <1>8, <1>10, <1>11 DEF start, whole, new

LEMMA BeginsTheRest ==
  ASSUME NEW s \in Seq(Reported), NEW u \in Seq(Reported), NEW t, t = s \o u
  PROVE  Begins(s, t)
<1>1. Len(s \o u) = Len(s) + Len(u) /\ Len(s) \in Nat /\ Len(u) \in Nat
       /\ \A i \in 1..Len(s) + Len(u) : (s \o u)[i] = IF i <= Len(s) THEN s[i] ELSE u[i - Len(s)]
  BY ConcatProperties, LenProperties
<1>2. \A i \in 1..Len(s) : i \in 1..Len(t) /\ t[i] = s[i]
  BY <1>1
<1> QED BY <1>2 DEF Begins

\* New events that end in the first error.
LEMMA EndsInErr ==
  ASSUME NEW s \in Seq(Reported), NoErr(s), NEW u \in Seq(Reported), u # <<>>, u[Len(u)] = Err,
         \A i \in 1..(Len(u) - 1) : u[i] # Err
  PROVE  ErrThenErrs(s \o u) /\ ~NoErr(s \o u)
<1>1. Len(s \o u) = Len(s) + Len(u) /\ Len(s) \in Nat /\ Len(u) \in Nat \ {0}
       /\ \A i \in 1..Len(s) + Len(u) : (s \o u)[i] = IF i <= Len(s) THEN s[i] ELSE u[i - Len(s)]
  BY ConcatProperties, LenProperties, EmptySeq
<1> DEFINE t == s \o u
           n == Len(s) + Len(u)
<1>2. n \in 1..Len(t) /\ t[n] = Err
  BY <1>1
<1>3. ASSUME NEW i \in 1..Len(t), i < n PROVE t[i] # Err
  <2>1. CASE i <= Len(s)
    BY <1>1, <2>1 DEF NoErr
  <2>2. CASE i > Len(s)
    <3>1. i - Len(s) \in 1..(Len(u) - 1)
      BY <1>1, <1>3, <2>2
    <3> QED BY <1>1, <2>2, <3>1
  <2> QED BY <1>1, <2>1, <2>2
<1>4. Len(t) = n
  BY <1>1
<1> HIDE DEF t, n
<1>5. ErrThenErrs(t)
  <2> SUFFICES ASSUME NEW i \in 1..Len(t), NEW j \in 1..Len(t), i < j, t[i] = Err PROVE FALSE
    BY DEF ErrThenErrs
  <2>1. i < n
    BY <1>2, <1>4
  <2> QED BY <1>3, <2>1
<1> QED BY <1>2, <1>5 DEF NoErr, t

\* One more error after what was shown.
LEMMA OneMoreErr ==
  ASSUME NEW s \in Seq(Reported), ErrThenErrs(s)
  PROVE  /\ s \o <<Err>> \in Seq(Reported) /\ ErrThenErrs(s \o <<Err>>) /\ ~NoErr(s \o <<Err>>)
         /\ \A t : Begins(s, t) => Begins(s \o <<Err>>, t)
<1> DEFINE u == <<Err>>
           all == s \o u
<1>1. u \in Seq(Reported) /\ Len(u) = 1 /\ u[1] = Err
  BY ErrIsReported
<1> HIDE DEF u
<1>2. all \in Seq(Reported) /\ Len(all) = Len(s) + 1 /\ Len(s) \in Nat
       /\ \A i \in 1..Len(s) + 1 : all[i] = IF i <= Len(s) THEN s[i] ELSE u[i - Len(s)]
  <2>1. all \in Seq(Reported) /\ Len(all) = Len(s) + Len(u)
         /\ \A i \in 1..Len(s) + Len(u) : all[i] = IF i <= Len(s) THEN s[i] ELSE u[i - Len(s)]
    BY <1>1, ConcatProperties
  <2> HIDE DEF all
  <2> QED BY <1>1, <2>1, LenProperties
<1> HIDE DEF all
<1>3. all[Len(s) + 1] = Err /\ \A i \in 1..Len(s) : all[i] = s[i]
  BY <1>1, <1>2
<1>4. ErrThenErrs(all)
  <2> SUFFICES ASSUME NEW i \in 1..Len(all), NEW j \in 1..Len(all), i < j, all[i] = Err PROVE all[j] = Err
    BY DEF ErrThenErrs
  <2>1. CASE j = Len(s) + 1
    BY <1>3, <2>1
  <2>2. CASE j \in 1..Len(s)
    <3>1. i \in 1..Len(s)
      BY <1>2, <2>2
    <3> QED BY <1>3, <2>2, <3>1 DEF ErrThenErrs
  <2> QED BY <1>2, <2>1, <2>2
<1>5. ~NoErr(all)
  BY <1>2, <1>3 DEF NoErr
<1>6. ASSUME NEW t, Begins(s, t) PROVE Begins(all, t)
  BY <1>2, <1>3, <1>6 DEF Begins
<1> QED BY <1>2, <1>4, <1>5, <1>6 DEF all, u

LEMMA StreamInStepInit == Init => StreamInStep
<1> SUFFICES ASSUME Init PROVE StreamInStep
  OBVIOUS
<1> DEFINE nothing == <<>>
<1>1. phase = "sending" /\ delivered = nothing /\ pending = nothing /\ decoder = NewDecoder /\ ended = FALSE
       /\ broken = FALSE /\ frames = nothing /\ tail = nothing
  BY DEF Init
<1>2. nothing \in Seq(Reported) /\ nothing \in Seq(STRING) /\ nothing \in Seq(Seq(STRING))
       /\ Len(nothing) = 0 /\ DOMAIN nothing = {} /\ nothing \o nothing = nothing
  OBVIOUS
<1>3. [i \in {} |-> frames[i].units] = nothing
  OBVIOUS
<1> HIDE DEF nothing
<1>4. Body = FlattenSeq(nothing) \o nothing
  BY <1>1, <1>2, <1>3 DEF Body
<1>5. Body \in Seq(STRING)
  BY <1>2, <1>4, FlattenTyped, ConcatProperties
<1>6. ErrThenErrs(Shown) /\ NoErr(Shown)
  BY <1>1, <1>2 DEF Shown, ErrThenErrs, NoErr
<1>7. ~decoder.poisoned /\ ~Sent
  BY <1>1, NewIsSound DEF Sent
<1> QED BY <1>1, <1>2, <1>5, <1>6, <1>7 DEF StreamInStep, CaughtUp, nothing

LEMMA ShownTyped ==
  ASSUME StreamInStep
  PROVE  Shown \in Seq(Reported) /\ (pending = <<>> => Shown = delivered)
  BY ConcatProperties, ConcatEmptySeq DEF StreamInStep, Shown

\* What is shown grows by what a step makes pending.
LEMMA ShownGrows ==
  ASSUME StreamInStep, pending = <<>>, delivered' = delivered
  PROVE  Shown' = Shown \o pending'
  BY ShownTyped DEF Shown

\* The step that adds an error to what was shown.
LEMMA ErrAdded ==
  ASSUME StreamInStep, Polling, pending' = <<Err>>, UNCHANGED <<delivered, phase, body>>,
         decoder'.poisoned \/ ended', ended' \in BOOLEAN
  PROVE  StreamInStep'
<1>1. phase = "streaming" /\ pending = <<>> /\ ~ended
  BY DEF Polling
<1> DEFINE u == <<Err>>
           s == Shown
<1>2. u \in Seq(Reported) /\ s \in Seq(Reported) /\ ErrThenErrs(s) /\ Begins(s, AllAtOnce)
  BY <1>1, ShownTyped, ErrIsReported DEF StreamInStep, Sent
<1>3. Shown' = s \o u
  BY <1>1, ShownGrows
<1>4. Body' = Body /\ AllAtOnce' = AllAtOnce
  BY DEF Body, body, AllAtOnce
<1> HIDE DEF s
<1>5. s \o u \in Seq(Reported) /\ ErrThenErrs(s \o u) /\ ~NoErr(s \o u) /\ Begins(s \o u, AllAtOnce)
  BY <1>2, OneMoreErr
<1> HIDE DEF u
<1>6. ErrThenErrs(Shown') /\ ~NoErr(Shown') /\ Begins(Shown', AllAtOnce')
  BY <1>3, <1>4, <1>5
<1>7. delivered' \in Seq(Reported) /\ pending' \in Seq(Reported) /\ Body' \in Seq(STRING)
  BY <1>2, <1>4 DEF StreamInStep, u
<1> QED BY <1>1, <1>6, <1>7 DEF StreamInStep, CaughtUp

\* As long as nothing failed, the units received so far.
LEMMA Received ==
  ASSUME StreamInStep, StreamTyped, Polling, NoErr(Shown)
  PROVE  /\ ~decoder.poisoned
         /\ \E received \in Seq(STRING) :
              Body = received \o wire /\ Follows(Shown, Fresh(decoder), consumed(NewDecoder, received))
  BY DEF StreamInStep, CaughtUp, Sent, Polling

\* A chunk that arrives while nothing failed.
LEMMA ReceiveGood ==
  ASSUME StreamInStep, StreamTyped, NEW n \in 1..Len(wire), Receive(n), NoErr(Shown)
  PROVE  StreamInStep'
<1>1. Polling /\ phase = "streaming" /\ pending = <<>> /\ ~ended
       /\ phase' = phase /\ ended' = ended /\ delivered' = delivered
       /\ broken' = broken /\ wire \in Seq(STRING) /\ decoder \in Sound
       /\ wire' = SubSeq(wire, n + 1, Len(wire)) /\ pending' = decoder'.events
  BY DEF Receive, Polling, request, StreamTyped
<1>2. ~decoder.poisoned
  BY <1>1, Received
<1>3. PICK received \in Seq(STRING) :
        Body = received \o wire /\ Follows(Shown, Fresh(decoder), consumed(NewDecoder, received))
  BY <1>1, Received
<1> DEFINE s == Shown
           chunk == SubSeq(wire, 1, n)
           later == received \o chunk
           whole == consumed(NewDecoder, received)
           fed == consumed(Fresh(decoder), chunk)
           all == consumed(NewDecoder, later)
<1>4. chunk \in Seq(STRING) /\ wire' \in Seq(STRING) /\ chunk \o wire' = wire
  BY <1>1, Taken
<1>5. later \in Seq(STRING) /\ Body = later \o wire'
  <2> DEFINE rest == wire'
  <2>1. chunk \in Seq(STRING) /\ rest \in Seq(STRING) /\ chunk \o rest = wire
    BY <1>4
  <2> HIDE DEF chunk, rest
  <2>2. (received \o chunk) \o rest = received \o (chunk \o rest)
    <3>1. chunk \in Seq(STRING) /\ rest \in Seq(STRING)
      BY <2>1
    <3> QED BY <3>1, ConcatAssociative
  <2>3. received \o chunk \in Seq(STRING)
    BY <2>1, ConcatProperties
  <2> QED BY <1>3, <2>1, <2>2, <2>3 DEF rest
<1>6. s \in Seq(Reported) /\ NoErr(s)
  BY ShownTyped
<1>7. whole \in Sound /\ Fresh(decoder) \in Sound
  BY <1>1, <1>2, NewIsSound, ConsumedIsSound, FreshIsBusy
<1>8. all = consumed(whole, chunk)
  BY <1>4, NewIsSound, ConsumedInTurn
<1>9. Follows(s, fed, all)
  <2> HIDE DEF s, chunk, whole, later, all
  <2>1. Follows(s, Fresh(decoder), whole)
    BY <1>3 DEF s, whole
  <2>2. Follows(s, fed, consumed(whole, chunk))
    BY <1>4, <1>6, <1>7, <2>1, UnitsFollow
  <2> QED BY <1>8, <2>2
<1>10. fed \in Sound /\ all \in Sound
  BY <1>4, <1>5, <1>7, NewIsSound, ConsumedIsSound
<1>11. Body' = Body /\ AllAtOnce' = AllAtOnce /\ Body \in Seq(STRING)
  BY DEF Receive, Body, body, AllAtOnce, StreamInStep
<1>12. Shown' = s \o decoder'.events
  BY <1>1, ShownGrows
<1>13. decoder' = IF ~fed.poisoned /\ Len(fed.line_buffer) > max_line_buffer
                  THEN poison_and_report(fed) ELSE fed
  BY <1>2 DEF Receive, feed, Fresh
<1>14. decoder' \in Sound /\ decoder' \in Decoder /\ decoder'.events \in Seq(Reported)
  <2>1. decoder' \in Sound
    BY <1>1, <1>4, FeedKeeps DEF Receive
  <2> QED BY <2>1, FieldsTold DEF Sound
<1>15. \E u \in Seq(Reported) : AllAtOnce = all.events \o u
  BY <1>4, <1>5, AllAtOnceGoesOn
<1> HIDE DEF s, chunk, later, whole, fed, all
<1>16. all.events = s \o fed.events /\ all.events \in Seq(Reported) /\ fed.events \in Seq(Reported)
  BY <1>9, <1>10, FieldsTold DEF Follows, Preceded, Sound
<1>17. Begins(all.events, AllAtOnce)
  BY <1>15, <1>16, BeginsTheRest
<1>18. CASE ~decoder'.poisoned
  <2>1. decoder' = fed
    BY <1>10, <1>13, <1>14, <1>18, SoundIsBusy, Poisoned DEF Sound
  <2>2. Shown' = all.events
    BY <1>12, <1>16, <2>1
  <2>3. NoErr(decoder'.events)
    BY <1>14, <1>18 DEF Sound, ErrOnlyLast
  <2>4. NoErr(Shown')
    BY <1>6, <1>12, <1>14, <2>3, NoErrTwice
  <2>5. ErrThenErrs(Shown')
    BY <2>4 DEF NoErr, ErrThenErrs
  <2>6. Follows(Shown', Fresh(decoder'), all)
    <3>1. Shown' \o <<>> = Shown'
      BY <1>16, <2>2, ConcatEmptySeq
    <3> QED BY <1>9, <1>14, <2>1, <2>2, <3>1 DEF Follows, Preceded, Fresh, Decoder
  <2>7. CaughtUp'
    BY <1>5, <1>11, <2>6 DEF CaughtUp, all
  <2>8. broken' => ~NoErr(Shown')
    BY <1>1, <1>6 DEF StreamInStep, s
  <2>9. Begins(Shown', AllAtOnce')
    BY <1>11, <1>17, <2>2
  <2>10. delivered' \in Seq(Reported) /\ pending' \in Seq(Reported) /\ ended' \in BOOLEAN
    BY <1>1, <1>14 DEF StreamInStep
  <2> QED BY <1>1, <1>11, <1>18, <2>4, <2>5, <2>7, <2>8, <2>9, <2>10 DEF StreamInStep
<1>19. CASE decoder'.poisoned
  <2> DEFINE u == decoder'.events
  <2>1. u # <<>> /\ u[Len(u)] = Err /\ \A i \in 1..(Len(u) - 1) : u[i] # Err
    BY <1>14, <1>19 DEF Sound, ErrOnlyLast
  <2>2. u \in Seq(Reported)
    BY <1>14
  <2> HIDE DEF u
  <2>3. ErrThenErrs(s \o u) /\ ~NoErr(s \o u)
    BY <1>6, <2>1, <2>2, EndsInErr
  <2>4. ErrThenErrs(Shown') /\ ~NoErr(Shown')
    BY <1>12, <2>3 DEF u
  <2>5. Begins(Shown', AllAtOnce)
    <3>1. CASE decoder' = fed
      BY <1>12, <1>16, <1>17, <3>1
    <3>2. CASE decoder' = poison_and_report(fed)
      <4> DEFINE w == fed.events
                 v == all.events
      <4>1. u = Append(w, Err)
        BY <1>10, <3>2 DEF u, poison_and_report, Sound, Decoder
      <4>2. w \in Seq(Reported) /\ v = s \o w
        BY <1>16
      <4> HIDE DEF w, v
      <4>3. s \o Append(w, Err) = Append(v, Err)
        <5>1. w \in Seq(Reported) /\ Preceded(s, w, v)
          BY <4>2 DEF Preceded
        <5>2. Preceded(s, Append(w, Err), Append(v, Err))
          BY <1>6, <5>1, AddedAfter, ErrIsReported
        <5> QED BY <5>2 DEF Preceded
      <4>4. v \in Seq(Reported) /\ Begins(v, AllAtOnce)
        BY <1>16, <1>17 DEF v
      <4>5. Begins(Append(v, Err), AllAtOnce)
        BY <4>4, ErrIsReported, OneMore DEF Begins
      <4>6. Shown' = Append(v, Err)
        BY <1>12, <4>1, <4>3 DEF u
      <4> QED BY <4>5, <4>6
    <3> QED BY <1>13, <3>1, <3>2
  <2>6. delivered' \in Seq(Reported) /\ pending' \in Seq(Reported) /\ ended' \in BOOLEAN
    BY <1>1, <1>14 DEF StreamInStep
  <2> QED BY <1>1, <1>11, <1>19, <2>4, <2>5, <2>6 DEF StreamInStep, CaughtUp
<1> QED BY <1>18, <1>19

\* A chunk that arrives after the decoder failed.
LEMMA ReceiveFailed ==
  ASSUME StreamInStep, StreamTyped, NEW n \in 1..Len(wire), Receive(n), ~NoErr(Shown)
  PROVE  StreamInStep'
<1>1. Polling /\ ~ended /\ decoder \in Sound /\ decoder.poisoned
  BY DEF Receive, Polling, StreamTyped, StreamInStep
<1>2. decoder' = [decoder EXCEPT !.events = <<Err>>] /\ pending' = decoder'.events
  BY <1>1 DEF Receive, feed
<1>3. decoder'.poisoned /\ pending' = <<Err>>
  BY <1>1, <1>2, FailedBefore
<1>4. UNCHANGED <<delivered, phase, body>> /\ ended' \in BOOLEAN
  BY DEF Receive, StreamInStep
<1> QED BY <1>1, <1>3, <1>4, ErrAdded

LEMMA BodyBreaksInStep ==
  ASSUME StreamInStep, BodyBreaks
  PROVE  StreamInStep'
  BY ErrAdded DEF BodyBreaks, TransportError

\* The calls that the end of the body flushes are those a whole body flushes.
LEMMA FinishedAlike ==
  ASSUME NEW d \in Sound, ~d.poisoned
  PROVE  /\ finish(d).events = UsesOf(d.tool_calls)
         /\ UsesOf(d.tool_calls) \in Seq(Reported) /\ NoErr(UsesOf(d.tool_calls))
<1>1. d \in Decoder /\ d.tool_calls \in Calls
  BY FieldsTold DEF Sound
<1> DEFINE u == UsesOf(d.tool_calls)
           p == Fresh(d)
<1>2. u \in Seq(Reported) /\ NoErr(u)
  BY <1>1, UsesTyped
<1>3. finish(d) = flush_tool_calls(p)
  BY DEF finish, Fresh
<1>4. p \in Decoder /\ p.events = <<>> /\ p.tool_calls = d.tool_calls
  <2>1. p \in Busy /\ p.events = <<>>
    BY FreshIsBusy
  <2> QED BY <1>1, <2>1 DEF Busy, Fresh, Decoder
<1> HIDE DEF p
<1>5. flush_tool_calls(p) = [p EXCEPT !.tool_calls = <<>>, !.events = <<>> \o u]
  BY <1>4, Flushes
<1> HIDE DEF u
<1>6. <<>> \o u = u
  BY <1>2, ConcatEmptySeq
<1> QED BY <1>2, <1>3, <1>4, <1>5, <1>6 DEF u, Decoder

LEMMA BodyEndsInStep ==
  ASSUME StreamInStep, StreamTyped, BodyEnds
  PROVE  StreamInStep'
<1>1. Polling /\ phase = "streaming" /\ pending = <<>> /\ ~ended /\ wire = <<>> /\ decoder \in Sound
       /\ decoder' = finish(decoder) /\ pending' = decoder'.events /\ ended' /\ ended' \in BOOLEAN
       /\ UNCHANGED <<delivered, phase, body, broken>>
  BY DEF BodyEnds, Polling, StreamTyped
<1>2. CASE ~NoErr(Shown)
  <2>1. decoder.poisoned
    BY <1>1, <1>2 DEF StreamInStep
  <2>2. decoder' = [decoder EXCEPT !.events = <<Err>>]
    BY <1>1, <2>1 DEF finish
  <2>3. pending' = <<Err>>
    BY <1>1, <2>1, <2>2, FailedBefore
  <2> QED BY <1>1, <2>3, ErrAdded
<1>3. CASE NoErr(Shown)
  <2>1. ~decoder.poisoned
    BY <1>1, <1>3, Received
  <2>2. PICK received \in Seq(STRING) :
          Body = received \o wire /\ Follows(Shown, Fresh(decoder), consumed(NewDecoder, received))
    BY <1>1, <1>3, Received
  <2>3. Body = received
    BY <1>1, <2>2, ConcatEmptySeq
  <2> DEFINE s == Shown
             u == UsesOf(decoder.tool_calls)
             whole == consumed(NewDecoder, Body)
  <2>4. Follows(s, Fresh(decoder), whole) /\ whole \in Sound
    BY <2>2, <2>3, NewIsSound, ConsumedIsSound
  <2>5. s \in Seq(Reported) /\ NoErr(s)
    BY <1>3, ShownTyped
  <2> HIDE DEF whole, s
  <2>6. whole.events = s /\ whole.tool_calls = decoder.tool_calls /\ ~whole.poisoned
    <3>1. Fresh(decoder).events = <<>> /\ Fresh(decoder).poisoned = decoder.poisoned
      BY <1>1, FreshIsBusy
    <3>2. Fresh(decoder).tool_calls = decoder.tool_calls
      BY <1>1 DEF Fresh, Sound, Decoder
    <3>3. s \o <<>> = s
      BY <2>5, ConcatEmptySeq
    <3> QED BY <2>1, <2>4, <3>1, <3>2, <3>3 DEF Follows, Preceded
  <2>7. decoder'.events = u /\ u \in Seq(Reported) /\ NoErr(u)
    BY <1>1, <2>1, FinishedAlike
  <2>8. finish(whole).events = u
    BY <2>4, <2>6, FinishedAlike
  <2> HIDE DEF u
  <2>9. AllAtOnce = s \o u
    BY <2>6, <2>8 DEF AllAtOnce, whole
  <2>10. Shown' = s \o u
    BY <1>1, <2>7, ShownGrows DEF s
  <2>11. NoErr(s \o u) /\ s \o u \in Seq(Reported)
    BY <2>5, <2>7, NoErrTwice
  <2>12. Body' = Body /\ AllAtOnce' = AllAtOnce
    BY <1>1 DEF Body, body, AllAtOnce
  <2>13. NoErr(Shown') /\ ErrThenErrs(Shown') /\ Shown' = AllAtOnce' /\ Begins(Shown', AllAtOnce')
    BY <2>9, <2>10, <2>11, <2>12 DEF NoErr, ErrThenErrs, Begins
  <2>14. ~broken' /\ ~decoder'.poisoned
    BY <1>1, <1>3, <2>1, FinishKeeps DEF StreamInStep
  <2>15. delivered' \in Seq(Reported) /\ pending' \in Seq(Reported) /\ Body' \in Seq(STRING)
    BY <1>1, <2>7, <2>12 DEF StreamInStep
  <2> QED BY <1>1, <2>13, <2>14, <2>15 DEF StreamInStep, CaughtUp
<1> QED BY <1>2, <1>3

LEMMA DeliverInStep ==
  ASSUME StreamInStep, StreamTyped, Deliver
  PROVE  StreamInStep'
<1>1. phase = "streaming" /\ pending # <<>>
       /\ delivered' = Append(delivered, Head(pending)) /\ pending' = Tail(pending)
       /\ UNCHANGED <<phase, wire, decoder, ended, body, broken>>
  BY DEF Deliver
<1>2. delivered \in Seq(Reported) /\ pending \in Seq(Reported)
  BY DEF StreamInStep
<1>3. Head(pending) \in Reported /\ Tail(pending) \in Seq(Reported)
  BY <1>1, <1>2, HeadTailProperties
<1>4. delivered' \in Seq(Reported) /\ pending' \in Seq(Reported)
  BY <1>1, <1>2, <1>3
<1>5. Shown' = Shown
  <2>1. Append(delivered, Head(pending)) \o Tail(pending) = delivered \o pending
    BY <1>1, <1>2
  <2> QED BY <1>1, <2>1 DEF Shown
<1>6. Body' = Body /\ AllAtOnce' = AllAtOnce
  BY <1>1 DEF Body, body, AllAtOnce
<1>7. CaughtUp'
  BY <1>1, <1>5, <1>6 DEF StreamInStep, CaughtUp, Sent
<1> QED BY <1>1, <1>4, <1>5, <1>6, <1>7 DEF StreamInStep, Sent

LEMMA AcceptedInStep ==
  ASSUME StreamInStep, Accepted
  PROVE  StreamInStep'
<1>1. phase = "sending" /\ phase' = "streaming" /\ UNCHANGED <<decoder, pending, ended, delivered, broken>>
  BY DEF Accepted
<1>2. delivered = <<>> /\ pending = <<>> /\ decoder = NewDecoder /\ ~ended /\ ~broken
  BY <1>1 DEF StreamInStep
<1>3. wire' = Body' /\ Body' \in Seq(STRING)
  BY AcceptedSends
<1>4. Shown' = <<>> /\ Shown = <<>>
  BY <1>1, <1>2 DEF Shown
<1>5. NoErr(Shown') /\ ErrThenErrs(Shown') /\ Begins(Shown', AllAtOnce')
  BY <1>4 DEF NoErr, ErrThenErrs, Begins
<1>6. CaughtUp'
  <2> DEFINE received == <<>>
             b == Body'
             new == NewDecoder
  <2>1. received \in Seq(STRING) /\ received \o b = b
    BY <1>3, ConcatEmptySeq
  <2>2. consumed(new, received) = new
    BY ConsumedNothing, NewIsSound
  <2>3. Follows(received, Fresh(new), new)
    BY FollowsFresh, NewIsSound DEF Sound
  <2> HIDE DEF received, new
  <2>4. Follows(Shown', Fresh(decoder'), consumed(NewDecoder, received))
    BY <1>1, <1>2, <1>4, <2>2, <2>3 DEF received, new
  <2> QED BY <1>3, <2>1, <2>4 DEF CaughtUp
<1> QED BY <1>1, <1>2, <1>3, <1>5, <1>6, NewIsSound DEF StreamInStep

LEMMA StreamInStepStep ==
  ASSUME StreamInStep, StreamTyped, [Next]_vars
  PROVE  StreamInStep'
<1>1. CASE Accepted
  BY <1>1, AcceptedInStep
<1>2. CASE NoKey \/ ReadBody \/ \E err \in Answers \ {"Success"} : Refused(err)
  <2>1. phase = "sending" /\ phase' \notin {"streaming", "closed"} /\ UNCHANGED stream /\ UNCHANGED body
    BY <1>2 DEF NoKey, ReadBody, Refused
  <2>2. UNCHANGED <<delivered, pending, decoder, ended, broken, frames, tail>>
    BY <2>1 DEF stream, body
  <2>3. Shown' = Shown /\ Body' = Body
    BY <2>2 DEF Shown, Body
  <2> QED BY <2>1, <2>2, <2>3 DEF StreamInStep, CaughtUp, Sent
<1>3. CASE Deliver
  BY <1>3, DeliverInStep
<1>4. CASE BodyBreaks
  BY <1>4, BodyBreaksInStep
<1>5. CASE BodyEnds
  BY <1>5, BodyEndsInStep
<1>6. CASE Close
  <2>1. phase = "streaming" /\ pending = <<>> /\ ended /\ phase' = "closed"
         /\ UNCHANGED stream /\ UNCHANGED body
    BY <1>6 DEF Close
  <2>2. UNCHANGED <<delivered, pending, decoder, ended, broken, frames, tail>>
    BY <2>1 DEF stream, body
  <2>3. Shown' = Shown /\ Body' = Body /\ AllAtOnce' = AllAtOnce
    BY <2>2 DEF Shown, Body, AllAtOnce
  <2> QED BY <2>1, <2>2, <2>3 DEF StreamInStep, CaughtUp, Sent
<1>7. ASSUME NEW n \in 1..Len(wire), Receive(n) PROVE StreamInStep'
  BY <1>7, ReceiveGood, ReceiveFailed
<1>8. CASE UNCHANGED vars
  <2>1. Shown' = Shown /\ Body' = Body /\ AllAtOnce' = AllAtOnce
    BY <1>8 DEF vars, Shown, Body, AllAtOnce
  <2> QED BY <1>8, <2>1 DEF vars, StreamInStep, CaughtUp, Sent
<1> QED BY <1>1, <1>2, <1>3, <1>4, <1>5, <1>6, <1>7, <1>8 DEF Next, Request, Poll, Terminated

LEMMA HasErrIsShown ==
  ASSUME StreamInStep
  PROVE  HasErr <=> ~NoErr(Shown)
<1>1. Shown \in Seq(Reported)
  BY ShownTyped
<1>2. DOMAIN Shown = 1..Len(Shown)
  BY <1>1, LenProperties
<1> QED BY <1>2 DEF HasErr, Shown, NoErr, ToSet

LEMMA StreamInStepTells ==
  ASSUME StreamInStep
  PROVE  DecodedAsOne /\ ErrorsEndTheStream
<1>1. /\ delivered \in Seq(Reported) /\ pending \in Seq(Reported)
      /\ Len(delivered) \in Nat /\ Len(pending) \in Nat
      /\ DOMAIN delivered = 1..Len(delivered)
  BY LenProperties DEF StreamInStep
<1>2. Len(Shown) = Len(delivered) + Len(pending) /\ \A i \in 1..Len(delivered) : Shown[i] = delivered[i]
  <2>1. Len(Shown) = Len(delivered) + Len(pending)
         /\ \A i \in 1..Len(delivered) + Len(pending) :
              Shown[i] = IF i <= Len(delivered) THEN delivered[i] ELSE pending[i - Len(delivered)]
    BY <1>1, ConcatProperties DEF Shown
  <2> QED BY <1>1, <2>1
<1>3. ASSUME phase = "closed", ~HasErr PROVE delivered = AllAtOnce
  <2>1. Shown = AllAtOnce /\ pending = <<>>
    BY <1>3, HasErrIsShown DEF StreamInStep, Sent
  <2> QED BY <2>1, ShownTyped
<1>4. ASSUME Sent PROVE Begins(delivered, AllAtOnce)
  <2>1. Begins(Shown, AllAtOnce)
    BY <1>4 DEF StreamInStep
  <2>2. \A i \in 1..Len(delivered) : i \in 1..Len(Shown)
    BY <1>1, <1>2
  <2> QED BY <1>2, <2>1, <2>2 DEF Begins
<1>5. ASSUME NEW i \in DOMAIN delivered, NEW j \in DOMAIN delivered, i < j, delivered[i] = Err
      PROVE  delivered[j] = Err
  <2>1. ErrThenErrs(Shown)
    BY DEF StreamInStep
  <2>2. i \in 1..Len(Shown) /\ j \in 1..Len(Shown) /\ Shown[i] = Err
    BY <1>1, <1>2, <1>5
  <2>3. Shown[j] = Err
    BY <1>5, <2>1, <2>2 DEF ErrThenErrs
  <2> QED BY <1>1, <1>2, <2>3
<1>6. phase = "closed" /\ broken => HasErr
  BY HasErrIsShown DEF StreamInStep
<1> QED BY <1>3, <1>4, <1>5, <1>6 DEF DecodedAsOne, ErrorsEndTheStream

THEOREM StreamInvariance == Spec => [](StreamTyped /\ StreamInStep)
<1>1. StreamTyped /\ StreamInStep /\ [Next]_vars => StreamTyped' /\ StreamInStep'
  BY StreamTypedStep, StreamInStepStep
<1> QED BY <1>1, StreamTypedInit, StreamInStepInit, PTL DEF Spec

\* DecodedAsOne is an invariant: feeding SseDecoder chunk by chunk, the stream of
\* chat_completion_stream delivers what the whole body would have given, for
\* every body, every cut and every break of the connection.
THEOREM ChunksMakeNoDifference == Spec => []DecodedAsOne
<1>1. StreamInStep => DecodedAsOne
  BY StreamInStepTells
<1> QED BY <1>1, StreamInvariance, PTL

\* ErrorsEndTheStream is an invariant: the unfold loop never polls an event out of
\* a decoder that failed or a connection that broke.
THEOREM ErrorsComeLast == Spec => []ErrorsEndTheStream
<1>1. StreamInStep => ErrorsEndTheStream
  BY StreamInStepTells
<1> QED BY <1>1, StreamInvariance, PTL

=============================================================================
