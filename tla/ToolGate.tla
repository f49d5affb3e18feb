------------------------------- MODULE ToolGate -------------------------------
(***************************************************************************)
(* What a session promises about the tool calls of a model, without its    *)
(* rounds, tasks, prompts and logs: calls are settled one at a time, in    *)
(* the order they were requested, none twice and none skipped, and each is *)
(* run or refused as its decision and the user's consent say.              *)
(***************************************************************************)
EXTENDS Sequences

CONSTANTS Calls,        \* the calls a model may request
          Judge(_)      \* the standing decision on a call: "Allow", "Ask" or "Deny"

VARIABLES open,     \* the session is running
          consent,  \* "none", "each" or "all": what the user is asked, and said
          pending,  \* calls requested and not settled
          done      \* calls settled: [call, ran]

gate == <<open, consent, pending, done>>

Init ==
  /\ open = TRUE
  /\ consent \in {"none", "each", "all"}
  /\ pending = <<>> /\ done = <<>>

\* Whether a call may be run, and whether it may be refused.
Runs(call) ==
  CASE Judge(call) = "Allow"                         -> {TRUE}
    [] Judge(call) = "Deny"                          -> {FALSE}
    [] Judge(call) = "Ask" /\ consent = "none"       -> {FALSE}
    [] Judge(call) = "Ask" /\ consent = "each"       -> BOOLEAN
    [] Judge(call) = "Ask" /\ consent = "all"        -> {TRUE}

Request(call) ==
  /\ open /\ pending' = Append(pending, call)
  /\ UNCHANGED <<open, consent, done>>

\* The user answers "allow all" when asked about the next call.
AllowAll ==
  /\ open /\ consent = "each" /\ pending # <<>> /\ Judge(Head(pending)) = "Ask"
  /\ consent' = "all"
  /\ UNCHANGED <<open, pending, done>>

Settle ==
  /\ open /\ pending # <<>>
  /\ \E ran \in Runs(Head(pending)) :
       done' = Append(done, [call |-> Head(pending), ran |-> ran])
  /\ pending' = Tail(pending)
  /\ UNCHANGED <<open, consent>>

\* The session ends; calls not settled are dropped.
Close ==
  /\ open /\ open' = FALSE
  /\ pending' = <<>>
  /\ UNCHANGED <<consent, done>>

Next == (\E call \in Calls : Request(call)) \/ AllowAll \/ Settle \/ Close

Spec == Init /\ [][Next]_gate
=============================================================================
