----------------------------- MODULE AgentSession -----------------------------
(***************************************************************************)
(* The agent session of sc-agent-core (crates/sc-agent-core/src/lib.rs):   *)
(* run_session / repl_loop, execute_task, dispatch_tool_call, resolve_ask  *)
(* and emit.  Each action is the code between two awaits: what the         *)
(* provider, the approval gate, the tool and the audit logger answer is    *)
(* chosen nondeterministically.                                            *)
(***************************************************************************)
EXTENDS ToolPermissions, Routing

CONSTANTS
  Registry,          \* names of the registered tools
  Calls,             \* [name, args] of the calls a model may request
  Permissions,       \* the permission configuration
  SessionConfig,     \* the routing configuration, see Routing
  Tasks,             \* task texts, each the set of keywords it contains
  MaxToolRounds,     \* MAX_TOOL_ROUNDS (the code's value is 3)
  MaxTasks,          \* bound: tasks typed in one session
  MaxCalls,          \* bound: tool calls in one provider response
  MaxAsked,          \* bound: tool calls of any kind requested in one session
  EndlessCalls,      \* bound: a session that requests no others may go on, one to a
  MaxEndless         \* response, up to as many more

ASSUME SessionAssumption ==
  /\ \A c \in Calls : DOMAIN c = {"name", "args"}
  /\ MaxToolRounds \in Nat \ {0}
  /\ MaxTasks \in Nat /\ MaxCalls \in Nat
  /\ MaxAsked \in Nat /\ MaxEndless \in Nat

VARIABLES
  \* Session and ApprovalState
  mode,                  \* ApprovalMode
  repl,                  \* run_session was given no task
  approval_auto_allow,   \* Session::approval_auto_allow
  allow_all,             \* ApprovalState::allow_all of the running task
  messages,              \* Session::messages: [role, id]
  logger,                \* the audit logger: absent, healthy or failing
  audit,                 \* entries in the log: [id, decision]; id 0 is a provider failure
  \* locals of execute_task
  phase,                 \* where execute_task is, see Phases
  route, tool_rounds,
  tool_calls_this_round, \* ids of the calls requested and not yet settled
  outcome,               \* the DispatchOutcome on its way to emit
  error,                 \* why execute_task returned Err
  \* history
  tasks,                 \* tasks started
  asked,                 \* every call a model requested; a call's id is its index
  executed,              \* ids of the calls whose tool was run, in order
  answers                \* <<id, answer>> of every consultation of the gate

session == <<mode, repl, logger>>
task    == <<route, tool_rounds>>
history == <<asked, executed, answers>>

vars == <<mode, repl, approval_auto_allow, allow_all, messages, logger, audit, phase, route,
          tool_rounds, tool_calls_this_round, outcome, error, tasks, asked, executed, answers>>

Phases == {"idle", "completing", "streaming", "dispatching", "asking", "executing",
           "emitting", "returned"}

NoOutcome == [executed |-> FALSE, decision |-> "None"]

-----------------------------------------------------------------------------
Init ==
  /\ mode \in {"AutoDeny", "Interactive", "AutoAllow"}
  /\ repl \in BOOLEAN
  /\ logger \in {"absent", "healthy", "failing"}
  /\ approval_auto_allow = FALSE /\ allow_all = FALSE
  /\ messages = <<>> /\ audit = <<>>
  /\ phase = "idle"
  /\ route = RouteError("Unresolved")
  /\ tool_rounds = 0 /\ tool_calls_this_round = <<>>
  /\ outcome = NoOutcome /\ error = "None"
  /\ tasks = 0
  /\ asked = <<>> /\ executed = <<>> /\ answers = {}

(***************************************************************************)
(* AuditLogger::log as its callers see it: they discard its result.  An    *)
(* absent logger records nothing, a failing one may or may not.            *)
(***************************************************************************)
Log(entry) ==
  \/ logger # "absent"  /\ audit' = Append(audit, entry)
  \/ logger # "healthy" /\ UNCHANGED audit

\* execute_task returns Err: run_session and repl_loop both pass it on and end.
Fail(why) == phase' = "returned" /\ error' = why

\* emit_provider_failure_audit, then the error is returned.
ProviderFailure ==
  /\ Log([id |-> 0, decision |-> "Error"])
  /\ Fail("Provider")

-----------------------------------------------------------------------------
StartTask(text) ==
  /\ phase = "idle" /\ tasks < MaxTasks /\ (repl \/ tasks = 0)
  /\ tasks' = tasks + 1
  /\ messages' = Append(messages, [role |-> "user", id |-> 0])
  /\ tool_rounds' = 0
  /\ \/ Fail("NoWorkingDir") /\ UNCHANGED <<allow_all, route>>
     \/ /\ allow_all' = approval_auto_allow
        /\ route' = SessionRoute(SessionConfig, text)
        /\ IF route'.ok THEN phase' = "completing" /\ UNCHANGED error
                        ELSE Fail("NoRoute")
  /\ UNCHANGED <<session, approval_auto_allow, audit, tool_calls_this_round, outcome, history>>

\* provider.complete(request) answers; the request carries all of messages.
Complete ==
  /\ phase = "completing"
  /\ IF \E i \in DOMAIN SessionConfig.providers : SessionConfig.providers[i] = route.provider
     THEN \/ phase' = "streaming" /\ UNCHANGED <<audit, error>>
          \/ ProviderFailure
     ELSE Fail("NotRegistered") /\ UNCHANGED audit
  /\ UNCHANGED <<session, approval_auto_allow, allow_all, messages, task,
                 tool_calls_this_round, outcome, tasks, history>>

\* Whether a request for this call is within the bounds.
WithinBounds(call) ==
  \/ Len(asked) < MaxAsked
  \/ /\ Len(asked) < MaxAsked + MaxEndless /\ tool_calls_this_round = <<>>
     /\ Append(asked, call) \in Seq(EndlessCalls)

\* A ToolUse event.  Text, End and Error events change no state.
StreamToolUse(call) ==
  /\ phase = "streaming" /\ Len(tool_calls_this_round) < MaxCalls /\ WithinBounds(call)
  /\ asked' = Append(asked, call)
  /\ tool_calls_this_round' = Append(tool_calls_this_round, Len(asked) + 1)
  /\ UNCHANGED <<session, approval_auto_allow, allow_all, messages, audit, phase, task,
                 outcome, error, tasks, executed, answers>>

\* An Err item in the stream: the calls collected so far are dropped.
StreamError ==
  /\ phase = "streaming"
  /\ ProviderFailure
  /\ UNCHANGED <<session, approval_auto_allow, allow_all, messages, task,
                 tool_calls_this_round, outcome, tasks, history>>

\* The loop ends with a response that asks for no tool.
FinishTaskForgettingAllowAll ==
  /\ phase' = IF repl THEN "idle" ELSE "returned"
  /\ UNCHANGED approval_auto_allow

FinishTask ==
  /\ phase' = IF repl THEN "idle" ELSE "returned"
  /\ approval_auto_allow' = allow_all

RoundLimitNever(rounds) == FALSE

RoundLimit(rounds) == rounds >= MaxToolRounds

StreamEnd ==
  /\ phase = "streaming"
  /\ IF tool_calls_this_round = <<>>
     THEN FinishTask /\ UNCHANGED <<tool_rounds, error>>
     ELSE /\ tool_rounds' = tool_rounds + 1
          /\ IF RoundLimit(tool_rounds') THEN Fail("MaxToolRounds")
                                         ELSE phase' = "dispatching" /\ UNCHANGED error
          /\ UNCHANGED approval_auto_allow
  /\ UNCHANGED <<session, allow_all, messages, audit, route, tool_calls_this_round, outcome,
                 tasks, history>>

-----------------------------------------------------------------------------
(* dispatch_tool_call on the first call not settled yet. *)

Current  == Head(tool_calls_this_round)
Decision(id) == check_permission(Permissions, asked[id].name, asked[id].args)

resolve_ask_EveryTime ==
  CASE mode = "AutoDeny"    -> "refuse"
    [] mode = "AutoAllow"   -> "approve"
    [] mode = "Interactive" -> "consult"

resolve_ask ==
  CASE allow_all                               -> "approve"
    [] ~allow_all /\ mode = "AutoDeny"         -> "refuse"
    [] ~allow_all /\ mode = "AutoAllow"        -> "approve"
    [] ~allow_all /\ mode = "Interactive"      -> "consult"

\* Decided before anything is executed.
Verdict(id) ==
  IF asked[id].name \notin Registry THEN "refuse"
  ELSE CASE Decision(id) = "Allow" -> "approve"
         [] Decision(id) = "Ask"   -> resolve_ask
         [] Decision(id) = "Deny"  -> "refuse"

Conclude(ran, decision) ==
  /\ outcome' = [executed |-> ran, decision |-> decision]
  /\ phase' = "emitting"

dispatch_tool_call ==
  /\ phase = "dispatching"
  /\ \/ Verdict(Current) = "approve" /\ phase' = "executing" /\ UNCHANGED outcome
     \/ Verdict(Current) = "consult" /\ phase' = "asking" /\ UNCHANGED outcome
     \/ Verdict(Current) = "refuse" /\ Conclude(FALSE, "Denied")
  /\ UNCHANGED <<session, approval_auto_allow, allow_all, messages, audit, task,
                 tool_calls_this_round, error, tasks, history>>

\* Whether an answer of the approval gate is remembered for later calls.
RemembersEveryYes(answer) == answer # "Deny"

Remembers(answer) == answer = "AllowAll"

\* CliApprovalGate: what is read at the prompt, if it can be read, is a decision.
ReplyOf(input) ==
  CASE input = "yes"                     -> "Allow"
    [] input = "all"                     -> "AllowAll"
    [] input \in {"other", "unreadable"} -> "Deny"

\* The approval gate answers.
request_approval(answer) ==
  /\ phase = "asking"
  /\ answers' = answers \cup {<<Current, answer>>}
  /\ allow_all' = (allow_all \/ Remembers(answer))
  /\ IF answer = "Deny" THEN Conclude(FALSE, "Denied")
                        ELSE phase' = "executing" /\ UNCHANGED outcome
  /\ UNCHANGED <<session, approval_auto_allow, messages, audit, task, tool_calls_this_round,
                 error, tasks, asked, executed>>

\* tool.execute returns a result, a result marked as an error, or Err.
ExecuteTool(result) ==
  /\ phase = "executing"
  /\ executed' = Append(executed, Current)
  /\ Conclude(TRUE, IF result = "Ok" THEN "Allowed" ELSE "Error")
  /\ UNCHANGED <<session, approval_auto_allow, allow_all, messages, audit, task,
                 tool_calls_this_round, error, tasks, asked, answers>>

\* emit, and the tool result is added to the conversation.  emit awaits the logger
\* in between; no one else has the session, so the two are one step.
AfterEmitDroppingTheRest ==
  tool_calls_this_round' = <<>> /\ phase' = "completing"

AfterEmitRetryingErrors ==
  /\ tool_calls_this_round' = IF outcome.decision = "Error" THEN tool_calls_this_round
                                                           ELSE Tail(tool_calls_this_round)
  /\ phase' = IF tool_calls_this_round' = <<>> THEN "completing" ELSE "dispatching"

AfterEmit ==
  /\ tool_calls_this_round' = Tail(tool_calls_this_round)
  /\ phase' = IF tool_calls_this_round' = <<>> THEN "completing" ELSE "dispatching"

EmitEntryAlwaysAllowed == [id |-> Current, decision |-> "Allowed"]

EmitEntry == [id |-> Current, decision |-> outcome.decision]

emit ==
  /\ phase = "emitting"
  /\ Log(EmitEntry)
  /\ messages' = Append(messages, [role |-> "tool", id |-> Current])
  /\ outcome' = NoOutcome
  /\ AfterEmit
  /\ UNCHANGED <<session, approval_auto_allow, allow_all, task, error, tasks, history>>

\* "/exit" at the prompt of the REPL.
Exit ==
  /\ phase = "idle" /\ repl
  /\ phase' = "returned"
  /\ UNCHANGED <<session, approval_auto_allow, allow_all, messages, audit, task,
                 tool_calls_this_round, outcome, error, tasks, history>>

Terminated == phase = "returned" /\ UNCHANGED vars

-----------------------------------------------------------------------------
Answers == {"Allow", "AllowAll", "Deny"}
Inputs  == {"yes", "all", "other", "unreadable"}

Provider == Complete \/ StreamError \/ StreamEnd \/ \E call \in Calls : StreamToolUse(call)
Gate     == \E input \in Inputs : request_approval(ReplyOf(input))
Tool     == \E result \in {"Ok", "IsError", "Err"} : ExecuteTool(result)
Agent    == dispatch_tool_call \/ emit
User     == Exit \/ \E text \in Tasks : StartTask(text)

Next == Provider \/ Gate \/ Tool \/ Agent \/ User \/ Terminated

Spec == Init /\ [][Next]_vars

\* A model that asks without end is not followed any further, so that nothing may be
\* assumed of how its response goes on.
CutOff == phase = "streaming" /\ tool_calls_this_round = <<>> /\ Len(asked) = MaxAsked + MaxEndless

(***************************************************************************)
(* The agent's own steps run to completion.  Every provider response ends  *)
(* (a finite body, or the client's timeout), and every gate and tool       *)
(* answers: a premise about the environment, not about this code, since    *)
(* neither the gate nor a tool is given a time limit.  That a model which  *)
(* asks for EndlessCalls ever answers without a call is not assumed.       *)
(***************************************************************************)
Fairness ==
  /\ WF_vars(Complete) /\ WF_vars(~CutOff /\ (StreamEnd \/ StreamError))
  /\ WF_vars(Gate) /\ WF_vars(Tool) /\ WF_vars(Agent)

FairSpec == Spec /\ Fairness
-----------------------------------------------------------------------------
(* Properties. *)

TypeOK ==
  /\ mode \in {"AutoDeny", "Interactive", "AutoAllow"} /\ repl \in BOOLEAN
  /\ logger \in {"absent", "healthy", "failing"}
  /\ approval_auto_allow \in BOOLEAN /\ allow_all \in BOOLEAN
  /\ messages \in Seq([role : {"user", "tool"}, id : Nat])
  /\ audit \in Seq([id : Nat, decision : {"Allowed", "Denied", "Error"}])
  /\ phase \in Phases
  /\ error \in {"None", "NoWorkingDir", "NoRoute", "NotRegistered", "Provider", "MaxToolRounds"}
  /\ tool_rounds \in 0..MaxToolRounds
  /\ asked \in Seq(Calls) /\ Len(tool_calls_this_round) <= MaxCalls
  /\ tool_calls_this_round \in Seq(1..Len(asked))
  /\ executed \in Seq(1..Len(asked))
  /\ answers \subseteq (1..Len(asked)) \X Answers
  /\ outcome \in [executed : BOOLEAN, decision : {"None", "Allowed", "Denied", "Error"}]
  /\ tasks \in 0..MaxTasks

\* The user said yes to this call, or "allow all" to it or to an earlier one.
Consented(id) ==
  \/ mode = "AutoAllow"
  \/ \E pair \in answers : \/ pair[1] = id /\ pair[2] = "Allow"
                           \/ pair[1] <= id /\ pair[2] = "AllowAll"

Permitted(id) ==
  /\ asked[id].name \in Registry
  /\ \/ Decision(id) = "Allow"
     \/ Decision(id) = "Ask" /\ Consented(id)

Executed == {executed[i] : i \in DOMAIN executed}

Answered == {messages[i].id : i \in {j \in DOMAIN messages : messages[j].role = "tool"}}

\* dispatch_tool_call decides before it executes: a tool runs only for a call
\* of a registered tool that the policy allows, or that it asks about and the
\* user consented to, in this task or by an "allow all" of an earlier one.
ExecutedOnlyIfPermitted == \A i \in DOMAIN executed : Permitted(executed[i])

\* No tool runs twice and none out of the order the model asked in, across the
\* rounds and tasks of a session: a later call may rely on an earlier one.
CallsRunOnceInOrder ==
  \A i, j \in DOMAIN executed : i < j => executed[i] < executed[j]

\* When the conversation is sent to the provider, and when a task is over,
\* every call the model ever requested has exactly one result, in the order of
\* the calls.
EveryCallAnsweredOnce ==
  phase \in {"idle", "completing"} =>
    LET found == {i \in DOMAIN messages : messages[i].role = "tool"}
    IN  /\ \A id \in 1..Len(asked) : \E i \in found : messages[i].id = id
        /\ \A i, j \in found : i < j => messages[i].id < messages[j].id

\* While the audit logger writes what it is given, the log holds exactly one
\* entry for each call that has a result, written before the result reaches
\* the conversation, and it says "denied" exactly for the calls not run.
AuditTellsWhatRan ==
  logger = "healthy" =>
    /\ \A id \in 1..Len(asked) :
         id \in Answered <=> \E i \in DOMAIN audit : audit[i].id = id
    /\ \A i, j \in DOMAIN audit : (i # j /\ audit[i].id = audit[j].id) => audit[i].id = 0
    /\ \A i \in DOMAIN audit : audit[i].id # 0 =>
         (audit[i].decision = "Denied" <=> audit[i].id \notin Executed)

\* After "allow all" the user is not asked again in the session, whichever
\* task the next question would come from.
NoPromptAfterAllowAll ==
  \A p, q \in answers : p[2] = "AllowAll" => q[1] <= p[1]

\* The inductive invariant behind the safety properties above: where the calls
\* of a round are in each phase, what is already known of the call at hand, and
\* that an "allow all" in force was said to no later call than those to come.
AtHand == phase \in {"dispatching", "asking", "executing", "emitting"}

CallsInPhase ==
  /\ AtHand => tool_calls_this_round # <<>>
  /\ phase \in {"idle", "completing"} => tool_calls_this_round = <<>>
  /\ phase \in {"completing", "streaming"} \/ AtHand => tool_rounds < MaxToolRounds

CallsInOrder ==
  /\ \A i, j \in DOMAIN tool_calls_this_round :
       i < j => tool_calls_this_round[i] < tool_calls_this_round[j]
  /\ \A i \in DOMAIN executed, j \in DOMAIN tool_calls_this_round :
       /\ executed[i] <= tool_calls_this_round[j]
       /\ executed[i] = tool_calls_this_round[j] => phase = "emitting"

CallAtHand ==
  /\ phase = "asking" => asked[Current].name \in Registry /\ Decision(Current) = "Ask"
  /\ phase = "executing" => Permitted(Current)
  /\ phase = "emitting" => outcome.decision # "None"

AllowAllWasSaid ==
  allow_all \/ approval_auto_allow =>
    \E pair \in answers : /\ pair[2] = "AllowAll"
                           /\ \A j \in DOMAIN tool_calls_this_round :
                                pair[1] <= tool_calls_this_round[j]

\* The calls requested so far are those settled, whose results are in the
\* conversation, and then those of the round still to be settled.
settled == Len(asked) - Len(tool_calls_this_round)

CallsSettled ==
  /\ settled \in Nat
  /\ \A i \in DOMAIN tool_calls_this_round : tool_calls_this_round[i] = settled + i
  /\ \A id \in 1..settled :
       \E i \in DOMAIN messages : messages[i].role = "tool" /\ messages[i].id = id
  /\ \A i \in DOMAIN messages : messages[i].role = "tool" =>
       /\ messages[i].id \in 1..settled
       /\ \A j \in 1..(i - 1) : messages[j].role = "tool" => messages[j].id < messages[i].id

\* The healthy log has one entry for each settled call, true of it.
LogInStep ==
  /\ phase = "emitting" => (outcome.decision = "Denied" <=> Current \notin Executed)
  /\ logger = "healthy" =>
       /\ \A id \in 1..settled : \E i \in DOMAIN audit : audit[i].id = id
       /\ \A i \in DOMAIN audit :
            /\ audit[i].id \in 0..settled
            /\ audit[i].id # 0 =>
                 /\ audit[i].decision = "Denied" <=> audit[i].id \notin Executed
                 /\ \A j \in 1..(i - 1) : audit[j].id # audit[i].id

\* Who was asked about what, and what an "allow all" is remembered in.
SaidAllowAll == \E pair \in answers : pair[2] = "AllowAll"

UserAsked ==
  /\ phase = "asking" => mode = "Interactive" /\ ~allow_all
  /\ \A pair \in answers :
       /\ mode = "Interactive"
       /\ \A j \in DOMAIN tool_calls_this_round : pair[1] <= tool_calls_this_round[j]
  /\ SaidAllowAll => phase = "returned" \/ IF phase = "idle" THEN approval_auto_allow ELSE allow_all

\* A call that was not run was refused by the policy or by the user.
RefusedForCause ==
  phase = "emitting" /\ Current \notin Executed =>
    ~ /\ asked[Current].name \in Registry
      /\ \/ Decision(Current) = "Allow"
         \/ Decision(Current) = "Ask" /\ (mode = "AutoAllow" \/ SaidAllowAll)

IndInv ==
  /\ TypeOK /\ CallsInPhase /\ CallsInOrder /\ CallAtHand /\ AllowAllWasSaid
  /\ ExecutedOnlyIfPermitted /\ CallsRunOnceInOrder
  /\ CallsSettled /\ LogInStep /\ UserAsked /\ NoPromptAfterAllowAll /\ RefusedForCause

\* A task that reached the provider returns, whatever the model does: the round
\* limit ends one that asks for tools in every response, and no phase waits for
\* something that never comes.
TaskReturns == phase = "completing" ~> phase \in {"idle", "returned"}

-----------------------------------------------------------------------------
(* AgentSession implements ToolGate. *)

JudgeCall(call) ==
  IF call.name \notin Registry THEN "Deny"
  ELSE check_permission(Permissions, call.name, call.args)

Gate_consent ==
  IF mode = "AutoAllow" \/ SaidAllowAll THEN "all"
  ELSE IF mode = "AutoDeny" THEN "none" ELSE "each"

Gate_pending ==
  IF phase = "returned" THEN <<>>
  ELSE [i \in DOMAIN tool_calls_this_round |-> asked[tool_calls_this_round[i]]]

\* The calls whose results are in a conversation, in its order.
results(conversation) ==
  LET ids[n \in 0..Len(conversation)] ==
        IF n = 0 THEN <<>>
        ELSE IF conversation[n].role = "tool" THEN Append(ids[n - 1], conversation[n].id)
        ELSE ids[n - 1]
  IN  ids[Len(conversation)]

Gate_done ==
  [i \in DOMAIN results(messages) |->
     [call |-> asked[results(messages)[i]], ran |-> results(messages)[i] \in Executed]]

ToolGateSpec == INSTANCE ToolGate WITH
  Judge <- JudgeCall, open <- phase # "returned", consent <- Gate_consent,
  pending <- Gate_pending, done <- Gate_done

\* The session settles tool calls as ToolGate says: in order, each once, run or
\* refused by the standing decision and the consent given so far.
ImplementsToolGate == ToolGateSpec!Spec

-----------------------------------------------------------------------------
(* What the repository says and the code does not do. *)

\* "The assistant turn must replay its tool calls, otherwise the following
\* `tool` message has no antecedent": execute_task adds no assistant message.
ToolResultHasAntecedent ==
  phase = "completing" =>
    \A i \in DOMAIN messages : messages[i].role = "tool" =>
      \E j \in 1..(i - 1) : messages[j].role = "assistant" /\ messages[j].id = messages[i].id
=============================================================================
