------------------------ MODULE AgentSession_proofs ------------------------
(***************************************************************************)
(* Proofs about AgentSession for every registry, permission configuration, *)
(* routing configuration, round limit and number of tasks: IndInv is       *)
(* inductive, so a tool runs only for a permitted call and the tools of a  *)
(* session run in the order their calls were requested, none twice.  Then  *)
(* that AgentSession implements ToolGate: every step of a session is a     *)
(* step of ToolGate on the calls requested, the calls settled and the      *)
(* user's consent, or changes none of them.                                *)
(***************************************************************************)
EXTENDS AgentSession, Induction, SequenceTheorems, TLAPS

\* What check_permission answers is one of the three decisions, whatever the
\* configuration and the arguments are.
LEMMA DecisionType ==
  ASSUME NEW perms, NEW tool, NEW args
  PROVE  check_permission(perms, tool, args) \in Decisions
  BY DEF check_permission, Policy, Decisions

\* Whatever is typed at the prompt, the gate answers with one of its decisions.
LEMMA GateAnswers ==
  ASSUME Gate
  PROVE  \E answer \in Answers : request_approval(answer)
  <1>1. PICK input \in Inputs : request_approval(ReplyOf(input))
    BY DEF Gate
  <1>2. ReplyOf(input) \in Answers
    BY DEF ReplyOf, Inputs, Answers
  <1>3. QED
    BY <1>1, <1>2

\* A call that is executed at once is permitted by its decision, or it asks
\* and the user's consent is already there; one that is put to the user asks.
LEMMA VerdictSound ==
  ASSUME TypeOK, NEW id \in 1..Len(asked)
  PROVE  /\ Verdict(id) = "approve" =>
              /\ asked[id].name \in Registry
              /\ \/ Decision(id) = "Allow"
                 \/ Decision(id) = "Ask" /\ (allow_all \/ mode = "AutoAllow")
         /\ Verdict(id) = "consult" =>
              asked[id].name \in Registry /\ Decision(id) = "Ask"
  <1>1. Decision(id) \in {"Allow", "Ask", "Deny"}
    BY DecisionType DEF Decision, Decisions
  <1>2. mode \in {"AutoDeny", "Interactive", "AutoAllow"} /\ allow_all \in BOOLEAN
    BY DEF TypeOK
  <1>3. /\ resolve_ask = "approve" => allow_all \/ mode = "AutoAllow"
        /\ resolve_ask \in {"approve", "refuse", "consult"}
    BY <1>2 DEF resolve_ask
  <1>4. CASE Decision(id) = "Allow"
    BY <1>4 DEF Verdict
  <1>5. CASE Decision(id) = "Ask"
    BY <1>3, <1>5 DEF Verdict
  <1>6. CASE Decision(id) = "Deny"
    BY <1>6 DEF Verdict
  <1>7. QED
    BY <1>1, <1>4, <1>5, <1>6

-----------------------------------------------------------------------------
\* The parts of TypeOK that speak of the requested calls and of the calls of
\* the round, for the actions that leave those alone.
LEMMA TypeOKInit == Init => TypeOK
  <1> SUFFICES ASSUME Init PROVE TypeOK
    OBVIOUS
  <1>1. MaxToolRounds \in Nat /\ MaxTasks \in Nat /\ MaxCalls \in Nat
    BY SessionAssumption
  <1>2. /\ messages \in Seq([role : {"user", "tool"}, id : Nat])
        /\ audit \in Seq([id : Nat, decision : {"Allowed", "Denied", "Error"}])
        /\ asked \in Seq(Calls)
        /\ tool_calls_this_round \in Seq(1..Len(asked)) /\ executed \in Seq(1..Len(asked))
        /\ Len(tool_calls_this_round) = 0
    BY EmptySeq DEF Init
  <1>3. /\ mode \in {"AutoDeny", "Interactive", "AutoAllow"} /\ repl \in BOOLEAN
        /\ logger \in {"absent", "healthy", "failing"}
        /\ phase \in Phases /\ error = "None"
        /\ tool_rounds \in 0..MaxToolRounds /\ tasks \in 0..MaxTasks
        /\ answers \subseteq (1..Len(asked)) \X Answers
    BY <1>1 DEF Init, Phases
  <1>4. approval_auto_allow \in BOOLEAN /\ allow_all \in BOOLEAN
    BY DEF Init
  <1>5. outcome \in [executed : BOOLEAN, decision : {"None", "Allowed", "Denied", "Error"}]
    BY DEF Init, NoOutcome
  <1>6. QED
    BY <1>1, <1>2, <1>3, <1>4, <1>5 DEF TypeOK

\* A step appends to the log an entry of the log's type, or nothing.
LEMMA LogType ==
  ASSUME TypeOK, NEW entry \in [id : Nat, decision : {"Allowed", "Denied", "Error"}],
         Log(entry)
  PROVE  audit' \in Seq([id : Nat, decision : {"Allowed", "Denied", "Error"}])
  <1>1. audit \in Seq([id : Nat, decision : {"Allowed", "Denied", "Error"}])
    BY DEF TypeOK
  <1>2. CASE audit' = Append(audit, entry)
    BY <1>1, <1>2, AppendProperties
  <1>3. CASE UNCHANGED audit
    BY <1>1, <1>3
  <1>4. QED
    BY <1>2, <1>3 DEF Log

\* In the phases that handle a call there is one, its id is an index of asked,
\* and the calls after it are the rest of the round's calls.
LEMMA CurrentType ==
  ASSUME TypeOK, CallsInPhase, AtHand
  PROVE  /\ Current \in 1..Len(asked)
         /\ Current = tool_calls_this_round[1]
         /\ 1 \in DOMAIN tool_calls_this_round
         /\ Tail(tool_calls_this_round) \in Seq(1..Len(asked))
         /\ Len(Tail(tool_calls_this_round)) = Len(tool_calls_this_round) - 1
         /\ \A i \in DOMAIN Tail(tool_calls_this_round) :
              /\ i + 1 \in DOMAIN tool_calls_this_round
              /\ Tail(tool_calls_this_round)[i] = tool_calls_this_round[i + 1]
         /\ Len(tool_calls_this_round) \in Nat
  <1> DEFINE calls == tool_calls_this_round
  <1>1. calls \in Seq(1..Len(asked)) /\ calls # <<>>
    BY DEF TypeOK, CallsInPhase
  <1>2. /\ Head(calls) \in 1..Len(asked)
        /\ Tail(calls) \in Seq(1..Len(asked))
        /\ Len(Tail(calls)) = Len(calls) - 1
        /\ \A i \in 1..Len(Tail(calls)) : Tail(calls)[i] = calls[i + 1]
    BY <1>1, HeadTailProperties
  <1>3. Len(calls) \in Nat \ {0} /\ DOMAIN calls = 1..Len(calls)
    BY <1>1, EmptySeq, LenProperties
  <1>4. DOMAIN Tail(calls) = 1..Len(Tail(calls))
    BY <1>2, LenProperties
  <1>5. Head(calls) = calls[1]
    BY <1>1
  <1>6. QED
    BY <1>2, <1>3, <1>4, <1>5 DEF Current

-----------------------------------------------------------------------------
\* Every step preserves the types.
LEMMA TypeOKStep ==
  ASSUME TypeOK, CallsInPhase, CallAtHand, [Next]_vars
  PROVE  TypeOK'
  <1> USE DEF session, task, history
  <1>1. MaxToolRounds \in Nat \ {0} /\ MaxTasks \in Nat /\ MaxCalls \in Nat
    BY SessionAssumption
  <1>2. Len(asked) \in Nat /\ Len(tool_calls_this_round) \in Nat
    BY LenProperties DEF TypeOK
  <1>3. ASSUME NEW text \in Tasks, StartTask(text) PROVE TypeOK'
    <2>1. messages' \in Seq([role : {"user", "tool"}, id : Nat])
      BY <1>3, AppendProperties DEF TypeOK, StartTask
    <2>2. tool_rounds' \in 0..MaxToolRounds /\ tasks' \in 0..MaxTasks
      BY <1>1, <1>3 DEF TypeOK, StartTask
    <2>3. allow_all' \in BOOLEAN /\ approval_auto_allow' \in BOOLEAN
      BY <1>3 DEF TypeOK, StartTask
    <2>4. phase' \in Phases
      BY <1>3 DEF StartTask, Fail, Phases
    <2>5. error' \in {"None", "NoWorkingDir", "NoRoute", "NotRegistered", "Provider", "MaxToolRounds"}
      BY <1>3 DEF TypeOK, StartTask, Fail
    <2>6. QED
      BY <1>3, <2>1, <2>2, <2>3, <2>4, <2>5 DEF TypeOK, StartTask
  <1>4. CASE Complete
    <2>1. audit' \in Seq([id : Nat, decision : {"Allowed", "Denied", "Error"}])
      BY <1>4, LogType DEF TypeOK, Complete, ProviderFailure
    <2>2. phase' \in Phases
      BY <1>4 DEF Complete, ProviderFailure, Fail, Phases
    <2>3. error' \in {"None", "NoWorkingDir", "NoRoute", "NotRegistered", "Provider", "MaxToolRounds"}
      BY <1>4 DEF TypeOK, Complete, ProviderFailure, Fail
    <2>4. QED
      BY <1>4, <2>1, <2>2, <2>3 DEF TypeOK, Complete
  <1>5. ASSUME NEW call \in Calls, StreamToolUse(call) PROVE TypeOK'
    <2>1. /\ asked' \in Seq(Calls) /\ Len(asked') = Len(asked) + 1
      BY <1>5, AppendProperties DEF TypeOK, StreamToolUse
    <2>2. 1..Len(asked) \subseteq 1..Len(asked')
      BY <1>2, <2>1
    <2>3. executed' \in Seq(1..Len(asked'))
      BY <1>5, <2>2, SeqMonotonic DEF TypeOK, StreamToolUse
    <2>4. /\ tool_calls_this_round \in Seq(1..Len(asked'))
          /\ Len(asked) + 1 \in 1..Len(asked')
      BY <1>2, <2>1, <2>2, SeqMonotonic DEF TypeOK
    <2>5. /\ tool_calls_this_round' \in Seq(1..Len(asked'))
          /\ Len(tool_calls_this_round') <= MaxCalls
      BY <1>1, <1>2, <1>5, <2>4, AppendProperties DEF StreamToolUse
    <2>6. answers' \subseteq (1..Len(asked')) \X Answers
      BY <1>5, <2>2 DEF TypeOK, StreamToolUse
    <2>7. QED
      BY <1>5, <2>1, <2>3, <2>5, <2>6 DEF TypeOK, StreamToolUse
  <1>6. CASE StreamError
    <2>1. audit' \in Seq([id : Nat, decision : {"Allowed", "Denied", "Error"}])
      BY <1>6, LogType DEF TypeOK, StreamError, ProviderFailure
    <2>2. QED
      BY <1>6, <2>1 DEF TypeOK, StreamError, ProviderFailure, Fail, Phases
  <1>7. CASE StreamEnd
    <2>1. approval_auto_allow' \in BOOLEAN
      BY <1>7 DEF TypeOK, StreamEnd, FinishTask
    <2>2. tool_rounds' \in 0..MaxToolRounds
      BY <1>1, <1>7 DEF TypeOK, CallsInPhase, StreamEnd
    <2>3. phase' \in Phases
      BY <1>7 DEF StreamEnd, FinishTask, Fail, Phases
    <2>4. error' \in {"None", "NoWorkingDir", "NoRoute", "NotRegistered", "Provider", "MaxToolRounds"}
      BY <1>7 DEF TypeOK, StreamEnd, Fail
    <2>5. QED
      BY <1>7, <2>1, <2>2, <2>3, <2>4 DEF TypeOK, StreamEnd
  <1>8. CASE dispatch_tool_call
    <2>1. outcome' \in [executed : BOOLEAN, decision : {"None", "Allowed", "Denied", "Error"}]
      <3>1. CASE UNCHANGED outcome
        BY <3>1 DEF TypeOK
      <3>2. CASE outcome' = [executed |-> FALSE, decision |-> "Denied"]
        BY <3>2
      <3>3. QED
        BY <1>8, <3>1, <3>2 DEF dispatch_tool_call, Conclude
    <2>2. phase' \in Phases
      BY <1>8 DEF dispatch_tool_call, Conclude, Phases
    <2>3. QED
      BY <1>8, <2>1, <2>2 DEF TypeOK, dispatch_tool_call
  <1>9. ASSUME NEW answer \in Answers, request_approval(answer) PROVE TypeOK'
    <2>1. Current \in 1..Len(asked)
      BY <1>9, CurrentType DEF request_approval, AtHand
    <2>2. answers' \subseteq (1..Len(asked')) \X Answers
      BY <1>9, <2>1 DEF TypeOK, request_approval
    <2>3. allow_all' \in BOOLEAN
      BY <1>9 DEF request_approval
    <2>4. outcome' \in [executed : BOOLEAN, decision : {"None", "Allowed", "Denied", "Error"}]
      <3>1. CASE UNCHANGED outcome
        BY <3>1 DEF TypeOK
      <3>2. CASE outcome' = [executed |-> FALSE, decision |-> "Denied"]
        BY <3>2
      <3>3. QED
        BY <1>9, <3>1, <3>2 DEF request_approval, Conclude
    <2>5. phase' \in Phases
      BY <1>9 DEF request_approval, Conclude, Phases
    <2>6. QED
      BY <1>9, <2>2, <2>3, <2>4, <2>5 DEF TypeOK, request_approval
  <1>10. ASSUME NEW result \in {"Ok", "IsError", "Err"}, ExecuteTool(result) PROVE TypeOK'
    <2>1. Current \in 1..Len(asked)
      BY <1>10, CurrentType DEF ExecuteTool, AtHand
    <2>2. executed' \in Seq(1..Len(asked'))
      BY <1>10, <2>1, AppendProperties DEF TypeOK, ExecuteTool
    <2>3. outcome' \in [executed : BOOLEAN, decision : {"None", "Allowed", "Denied", "Error"}]
      BY <1>10 DEF ExecuteTool, Conclude
    <2>4. phase' \in Phases
      BY <1>10 DEF ExecuteTool, Conclude, Phases
    <2>5. QED
      BY <1>10, <2>2, <2>3, <2>4 DEF TypeOK, ExecuteTool

<1>11. CASE emit
    <2>1. /\ Current \in 1..Len(asked)
          /\ Tail(tool_calls_this_round) \in Seq(1..Len(asked))
          /\ Len(Tail(tool_calls_this_round)) = Len(tool_calls_this_round) - 1
      BY <1>11, CurrentType DEF emit, AtHand
    <2>2. Current \in Nat
      BY <1>2, <2>1
    <2>3. messages' \in Seq([role : {"user", "tool"}, id : Nat])
      BY <1>11, <2>2, AppendProperties DEF TypeOK, emit
    <2>4. tool_calls_this_round' \in Seq(1..Len(asked')) /\ Len(tool_calls_this_round') <= MaxCalls
      BY <1>1, <1>2, <1>11, <2>1 DEF TypeOK, emit, AfterEmit
    <2>5. audit' \in Seq([id : Nat, decision : {"Allowed", "Denied", "Error"}])
      <3>1. outcome.decision \in {"Allowed", "Denied", "Error"}
        BY <1>11 DEF TypeOK, CallAtHand, emit
      <3>2. EmitEntry \in [id : Nat, decision : {"Allowed", "Denied", "Error"}]
        BY <2>2, <3>1 DEF EmitEntry
      <3>3. QED
        BY <1>11, <3>2, LogType DEF emit
    <2>6. phase' \in Phases
      BY <1>11 DEF emit, AfterEmit, Phases
    <2>7. outcome' \in [executed : BOOLEAN, decision : {"None", "Allowed", "Denied", "Error"}]
      BY <1>11 DEF emit, NoOutcome
    <2>8. QED
      BY <1>11, <2>3, <2>4, <2>5, <2>6, <2>7 DEF TypeOK, emit
  <1>12. CASE Exit
    BY <1>12 DEF TypeOK, Exit, Phases
  <1>13. CASE UNCHANGED vars
    BY <1>13 DEF TypeOK, vars
  <1>14. QED
    BY <1>3, <1>4, <1>5, <1>6, <1>7, <1>8, <1>9, <1>10, <1>11, <1>12, <1>13, GateAnswers
    DEF Next, Provider, Tool, Agent, User, Terminated

-----------------------------------------------------------------------------
\* A call keeps its id, its name and its arguments, and an answer of the user is
\* never taken back.
LEMMA HistoryStable ==
  ASSUME TypeOK, [Next]_vars
  PROVE  /\ mode' = mode
         /\ answers \subseteq answers'
         /\ 1..Len(asked) \subseteq 1..Len(asked')
         /\ \A id \in 1..Len(asked) : asked'[id] = asked[id]
  <1> USE DEF session, task, history
  <1>1. Len(asked) \in Nat
    BY LenProperties DEF TypeOK
  <1>2. ASSUME NEW call \in Calls, StreamToolUse(call) PROVE
          /\ 1..Len(asked) \subseteq 1..Len(asked')
          /\ \A id \in 1..Len(asked) : asked'[id] = asked[id]
    <2>1. /\ Len(asked') = Len(asked) + 1
          /\ \A id \in 1..Len(asked) : asked'[id] = asked[id]
      BY <1>2, AppendProperties DEF TypeOK, StreamToolUse
    <2>2. QED
      BY <1>1, <2>1
  <1>3. UNCHANGED asked \/ \E call \in Calls : StreamToolUse(call)
    BY DEF Next, Provider, Gate, Tool, Agent, User, Terminated, vars, StartTask, Complete,
           StreamError, StreamEnd, dispatch_tool_call, request_approval, ExecuteTool, emit, Exit
  <1>4. mode' = mode /\ answers \subseteq answers'
    BY DEF Next, Provider, Gate, Tool, Agent, User, Terminated, vars, StartTask, Complete,
           StreamToolUse, StreamError, StreamEnd, dispatch_tool_call, request_approval,
           ExecuteTool, emit, Exit
  <1>5. QED
    BY <1>2, <1>3, <1>4

\* What is permitted stays permitted: nothing the user or the model does later
\* withdraws the permission a tool was run under.
LEMMA PermittedStable ==
  ASSUME TypeOK, [Next]_vars, NEW id \in 1..Len(asked), Permitted(id)
  PROVE  Permitted(id)'
  <1>1. asked'[id] = asked[id]
    BY HistoryStable
  <1>2. (asked[id].name \in Registry)' /\ Decision(id)' = Decision(id)
    BY <1>1 DEF Permitted, Decision
  <1>3. Consented(id) => Consented(id)'
    BY HistoryStable DEF Consented
  <1>4. QED
    BY <1>2, <1>3 DEF Permitted

\* The round's calls and the round count fit the phase a step leads to.
LEMMA CallsInPhaseStep ==
  ASSUME TypeOK, CallsInPhase, [Next]_vars
  PROVE  CallsInPhase'
  <1> USE DEF session, task, history, CallsInPhase, AtHand
  <1>1. MaxToolRounds \in Nat \ {0} /\ tool_rounds \in Nat
    BY SessionAssumption DEF TypeOK
  <1>2. ASSUME NEW text \in Tasks, StartTask(text) PROVE CallsInPhase'
    BY <1>1, <1>2 DEF StartTask, Fail
  <1>3. CASE Complete
    BY <1>3 DEF Complete, ProviderFailure, Fail
  <1>4. ASSUME NEW call \in Calls, StreamToolUse(call) PROVE CallsInPhase'
    BY <1>4 DEF StreamToolUse
  <1>5. CASE StreamError
    BY <1>5 DEF StreamError, ProviderFailure, Fail
  <1>6. CASE StreamEnd
    BY <1>1, <1>6 DEF StreamEnd, FinishTask, RoundLimit, Fail
  <1>7. CASE dispatch_tool_call
    BY <1>7 DEF dispatch_tool_call, Conclude
  <1>8. ASSUME NEW answer \in Answers, request_approval(answer) PROVE CallsInPhase'
    BY <1>8 DEF request_approval, Conclude
  <1>9. ASSUME NEW result \in {"Ok", "IsError", "Err"}, ExecuteTool(result) PROVE CallsInPhase'
    BY <1>9 DEF ExecuteTool, Conclude
  <1>10. CASE emit
    BY <1>10 DEF emit, AfterEmit
  <1>11. CASE Exit
    BY <1>11 DEF Exit
  <1>12. CASE UNCHANGED vars
    BY <1>12 DEF vars
  <1>13. QED
    BY <1>2, <1>3, <1>4, <1>5, <1>6, <1>7, <1>8, <1>9, <1>10, <1>11, <1>12, GateAnswers
    DEF Next, Provider, Tool, Agent, User, Terminated

\* A new call comes after all the calls of the round and all those executed; a
\* call leaves the round once it has its result.
LEMMA CallsInOrderStep ==
  ASSUME TypeOK, CallsInPhase, CallsInOrder, [Next]_vars
  PROVE  CallsInOrder'
  <1> USE DEF session, task, history
  <1>1. /\ Len(asked) \in Nat /\ Len(tool_calls_this_round) \in Nat /\ Len(executed) \in Nat
        /\ DOMAIN tool_calls_this_round = 1..Len(tool_calls_this_round)
        /\ DOMAIN executed = 1..Len(executed)
        /\ \A i \in DOMAIN tool_calls_this_round : tool_calls_this_round[i] \in 1..Len(asked)
        /\ \A i \in DOMAIN executed : executed[i] \in 1..Len(asked)
    BY LenProperties, ElementOfSeq DEF TypeOK
  <1>2. ASSUME NEW call \in Calls, StreamToolUse(call) PROVE CallsInOrder'
    <2>1. /\ Len(asked) + 1 \in Nat
          /\ tool_calls_this_round \in Seq(Nat)
      BY <1>1, SeqMonotonic DEF TypeOK
    <2>2. /\ tool_calls_this_round' \in Seq(Nat)
          /\ Len(tool_calls_this_round') = Len(tool_calls_this_round) + 1
          /\ \A i \in 1..Len(tool_calls_this_round) :
               tool_calls_this_round'[i] = tool_calls_this_round[i]
          /\ tool_calls_this_round'[Len(tool_calls_this_round) + 1] = Len(asked) + 1
      BY <1>2, <2>1, AppendProperties DEF StreamToolUse
    <2>3. DOMAIN tool_calls_this_round' = 1..(Len(tool_calls_this_round) + 1)
      BY <2>2, LenProperties
    <2>4. executed' = executed /\ phase' = phase /\ phase = "streaming"
      BY <1>2 DEF StreamToolUse
    <2> DEFINE calls == tool_calls_this_round
               n     == Len(tool_calls_this_round)
    <2>5. \A i, j \in 1..(n + 1) : i < j => calls'[i] < calls'[j]
      <3> SUFFICES ASSUME NEW i \in 1..(n + 1), NEW j \in 1..(n + 1), i < j
                   PROVE  calls'[i] < calls'[j]
        OBVIOUS
      <3>1. i \in 1..n /\ calls'[i] = calls[i] /\ calls[i] \in 1..Len(asked)
        BY <1>1, <2>2
      <3>2. CASE j \in 1..n
        BY <1>1, <2>2, <3>1, <3>2 DEF CallsInOrder
      <3>3. CASE j = n + 1
        BY <1>1, <2>2, <3>1, <3>3
      <3>4. QED
        BY <1>1, <3>2, <3>3
    <2>6. \A i \in DOMAIN executed, j \in 1..(n + 1) : executed[i] <= calls'[j] /\ executed[i] # calls'[j]
      <3> SUFFICES ASSUME NEW i \in DOMAIN executed, NEW j \in 1..(n + 1)
                   PROVE  executed[i] <= calls'[j] /\ executed[i] # calls'[j]
        OBVIOUS
      <3>1. executed[i] \in 1..Len(asked)
        BY <1>1
      <3>2. CASE j \in 1..n
        BY <1>1, <2>2, <2>4, <3>2 DEF CallsInOrder
      <3>3. CASE j = n + 1
        BY <1>1, <2>2, <3>1, <3>3
      <3>4. QED
        BY <1>1, <3>2, <3>3
    <2>7. QED
      BY <2>3, <2>4, <2>5, <2>6 DEF CallsInOrder
  <1>3. ASSUME NEW result \in {"Ok", "IsError", "Err"}, ExecuteTool(result) PROVE CallsInOrder'
    <2>1. /\ Current \in 1..Len(asked) /\ Current = tool_calls_this_round[1]
          /\ 1 \in DOMAIN tool_calls_this_round
      BY <1>3, CurrentType DEF ExecuteTool, AtHand
    <2>2. /\ Len(executed') = Len(executed) + 1
          /\ \A i \in 1..Len(executed) : executed'[i] = executed[i]
          /\ executed'[Len(executed) + 1] = Current
          /\ DOMAIN executed' = 1..(Len(executed) + 1)
      BY <1>3, <2>1, AppendProperties, LenProperties DEF TypeOK, ExecuteTool
    <2>3. tool_calls_this_round' = tool_calls_this_round /\ phase' = "emitting"
      BY <1>3 DEF ExecuteTool, Conclude
    <2>4. \A i \in DOMAIN executed', j \in DOMAIN tool_calls_this_round :
            executed'[i] <= tool_calls_this_round[j]
      <3> SUFFICES ASSUME NEW i \in DOMAIN executed', NEW j \in DOMAIN tool_calls_this_round
                   PROVE  executed'[i] <= tool_calls_this_round[j]
        OBVIOUS
      <3>1. CASE i \in 1..Len(executed)
        BY <1>1, <2>2, <3>1 DEF CallsInOrder
      <3>2. CASE i = Len(executed) + 1
        <4>1. j = 1 \/ 1 < j
          BY <1>1
        <4>2. tool_calls_this_round[1] <= tool_calls_this_round[j]
          BY <1>1, <2>1, <4>1 DEF CallsInOrder
        <4>3. QED
          BY <2>1, <2>2, <3>2, <4>2
      <3>3. QED
        BY <1>1, <2>2, <3>1, <3>2
    <2>5. QED
      BY <2>3, <2>4 DEF CallsInOrder
  <1>4. CASE emit
    <2> DEFINE rest == Tail(tool_calls_this_round)
    <2>1. /\ 1 \in DOMAIN tool_calls_this_round
          /\ \A i \in DOMAIN rest :
               /\ i + 1 \in DOMAIN tool_calls_this_round
               /\ rest[i] = tool_calls_this_round[i + 1]
          /\ DOMAIN rest = 1..Len(rest) /\ Len(rest) \in Nat
      BY <1>4, CurrentType, LenProperties DEF emit, AtHand
    <2>1a. \A j \in DOMAIN rest : rest[j] \in Nat
      BY <1>1, <2>1
    <2>2. tool_calls_this_round' = rest /\ executed' = executed
      BY <1>4 DEF emit, AfterEmit
    <2> HIDE DEF rest
    <2>3. \A i, j \in DOMAIN rest : i < j => rest[i] < rest[j]
      BY <1>1, <2>1 DEF CallsInOrder
    <2>4. \A i \in DOMAIN executed, j \in DOMAIN rest : executed[i] < rest[j]
      <3> TAKE i \in DOMAIN executed, j \in DOMAIN rest
      <3>1. executed[i] <= tool_calls_this_round[1] /\ executed[i] \in 1..Len(asked)
        BY <1>1, <2>1 DEF CallsInOrder
      <3>2. j + 1 \in DOMAIN tool_calls_this_round /\ 1 < j + 1
        BY <1>1, <2>1
      <3>3. tool_calls_this_round[1] < tool_calls_this_round[j + 1]
        BY <1>1, <2>1, <3>2 DEF CallsInOrder
      <3>4. tool_calls_this_round[1] \in 1..Len(asked) /\ tool_calls_this_round[j + 1] \in 1..Len(asked)
        BY <1>1, <2>1, <3>2
      <3>5. executed[i] < tool_calls_this_round[j + 1]
        BY <1>1, <3>1, <3>3, <3>4
      <3>6. QED
        BY <2>1, <3>5
    <2>5. \A i \in DOMAIN executed, j \in DOMAIN rest :
            executed[i] <= rest[j] /\ executed[i] # rest[j]
      BY <1>1, <2>1a, <2>4
    <2>6. QED
      BY <2>2, <2>3, <2>5 DEF CallsInOrder
  <1>5. ASSUME UNCHANGED <<executed, tool_calls_this_round>>, phase # "emitting" PROVE CallsInOrder'
    BY <1>5 DEF CallsInOrder
  <1>6. CASE UNCHANGED vars
    BY <1>6 DEF CallsInOrder, vars
  <1>7. QED
    BY <1>2, <1>3, <1>4, <1>5, <1>6
    DEF Next, Provider, Gate, Tool, Agent, User, Terminated, StartTask, Complete, StreamError,
        StreamEnd, dispatch_tool_call, request_approval, Exit

\* A call reaches the user only when it asks, and the tool only when it is
\* permitted: by its decision, by this answer, or by an earlier "allow all".
LEMMA CallAtHandStep ==
  ASSUME TypeOK, CallsInPhase, CallAtHand, AllowAllWasSaid, [Next]_vars
  PROVE  CallAtHand'
  <1> USE DEF session, task, history
  <1>1. CASE dispatch_tool_call
    <2>1. /\ Current \in 1..Len(asked) /\ Current = tool_calls_this_round[1]
          /\ 1 \in DOMAIN tool_calls_this_round
      BY <1>1, CurrentType DEF dispatch_tool_call, AtHand
    <2>2. Current' = Current /\ asked' = asked
      BY <1>1 DEF dispatch_tool_call, Current
    <2>3. CASE Verdict(Current) = "approve" /\ phase' = "executing"
      <3>1. /\ asked[Current].name \in Registry
            /\ \/ Decision(Current) = "Allow"
               \/ Decision(Current) = "Ask" /\ (allow_all \/ mode = "AutoAllow")
        BY <2>1, <2>3, VerdictSound
      <3>2. allow_all => Consented(Current)
        BY <2>1 DEF AllowAllWasSaid, Consented
      <3>3. Permitted(Current)
        BY <3>1, <3>2 DEF Permitted, Consented
      <3>4. Permitted(Current)'
        BY <1>1, <2>2, <3>3 DEF dispatch_tool_call, Permitted, Consented, Decision
      <3>5. QED
        BY <2>3, <3>4 DEF CallAtHand
    <2>4. CASE Verdict(Current) = "consult" /\ phase' = "asking"
      <3>1. asked[Current].name \in Registry /\ Decision(Current) = "Ask"
        BY <2>1, <2>4, VerdictSound
      <3>2. (asked[Current].name \in Registry /\ Decision(Current) = "Ask")'
        BY <2>2, <3>1 DEF Decision
      <3>3. QED
        BY <2>4, <3>2 DEF CallAtHand
    <2>5. CASE Verdict(Current) = "refuse" /\ Conclude(FALSE, "Denied")
      BY <2>5 DEF CallAtHand, Conclude
    <2>6. QED
      BY <1>1, <2>3, <2>4, <2>5 DEF dispatch_tool_call
  <1>2. ASSUME NEW answer \in Answers, request_approval(answer) PROVE CallAtHand'
    <2>1. /\ Current' = Current /\ asked' = asked /\ <<Current, answer>> \in answers'
          /\ Current \in Nat
      BY <1>2, CurrentType DEF request_approval, Current, AtHand
    <2>2. CASE answer = "Deny"
      BY <1>2, <2>2 DEF request_approval, Conclude, CallAtHand
    <2>3. CASE answer # "Deny"
      <3>1. phase' = "executing"
        BY <1>2, <2>3 DEF request_approval
      <3>2. asked[Current].name \in Registry /\ Decision(Current) = "Ask"
        BY <1>2 DEF request_approval, CallAtHand
      <3>3. (asked[Current].name \in Registry /\ Decision(Current) = "Ask")'
        BY <2>1, <3>2 DEF Decision
      <3>4. Consented(Current)'
        BY <2>1, <2>3 DEF Consented, Answers
      <3>5. QED
        BY <3>1, <3>3, <3>4 DEF CallAtHand, Permitted
    <2>4. QED
      BY <2>2, <2>3
  <1>3. ASSUME NEW result \in {"Ok", "IsError", "Err"}, ExecuteTool(result) PROVE CallAtHand'
    BY <1>3 DEF ExecuteTool, Conclude, CallAtHand
  <1>4. CASE phase' \notin {"asking", "executing", "emitting"}
    BY <1>4 DEF CallAtHand
  <1>5. CASE UNCHANGED vars
    BY <1>5 DEF CallAtHand, Permitted, Consented, Decision, Current, vars
  <1>6. QED
    BY <1>1, <1>2, <1>3, <1>4, <1>5, GateAnswers
    DEF Next, Provider, Tool, Agent, User, Terminated, StartTask, Complete, StreamToolUse,
        StreamError, StreamEnd, FinishTask, emit, AfterEmit, Exit, Fail, ProviderFailure

\* An "allow all" in force was said to a call no later than any still to come.
LEMMA AllowAllWasSaidStep ==
  ASSUME TypeOK, CallsInPhase, CallsInOrder, AllowAllWasSaid, [Next]_vars
  PROVE  AllowAllWasSaid'
  <1> USE DEF session, task, history
  <1>1. /\ Len(asked) \in Nat /\ Len(tool_calls_this_round) \in Nat
        /\ DOMAIN tool_calls_this_round = 1..Len(tool_calls_this_round)
        /\ \A i \in DOMAIN tool_calls_this_round : tool_calls_this_round[i] \in 1..Len(asked)
        /\ \A pair \in answers : pair[1] \in 1..Len(asked)
    BY LenProperties, ElementOfSeq DEF TypeOK
  <1>2. ASSUME NEW call \in Calls, StreamToolUse(call) PROVE AllowAllWasSaid'
    <2>1. /\ tool_calls_this_round \in Seq(Nat) /\ Len(asked) + 1 \in Nat
      BY <1>1, SeqMonotonic DEF TypeOK
    <2>2. /\ tool_calls_this_round' \in Seq(Nat)
          /\ Len(tool_calls_this_round') = Len(tool_calls_this_round) + 1
          /\ \A i \in 1..Len(tool_calls_this_round) :
               tool_calls_this_round'[i] = tool_calls_this_round[i]
          /\ tool_calls_this_round'[Len(tool_calls_this_round) + 1] = Len(asked) + 1
      BY <1>2, <2>1, AppendProperties DEF StreamToolUse
    <2>3. DOMAIN tool_calls_this_round' = 1..(Len(tool_calls_this_round) + 1)
      BY <2>2, LenProperties
    <2>4. SUFFICES ASSUME allow_all \/ approval_auto_allow PROVE AllowAllWasSaid'
      BY <1>2 DEF StreamToolUse, AllowAllWasSaid
    <2>5. PICK pair \in answers : /\ pair[2] = "AllowAll"
                                 /\ \A j \in DOMAIN tool_calls_this_round :
                                      pair[1] <= tool_calls_this_round[j]
      BY <2>4 DEF AllowAllWasSaid
    <2>6. \A j \in DOMAIN tool_calls_this_round' : pair[1] <= tool_calls_this_round'[j]
      <3> SUFFICES ASSUME NEW j \in 1..(Len(tool_calls_this_round) + 1)
                   PROVE  pair[1] <= tool_calls_this_round'[j]
        BY <2>3
      <3>1. CASE j \in 1..Len(tool_calls_this_round)
        BY <1>1, <2>2, <2>5, <3>1
      <3>2. CASE j = Len(tool_calls_this_round) + 1
        BY <1>1, <2>2, <3>2
      <3>3. QED
        BY <1>1, <3>1, <3>2
    <2>7. answers' = answers
      BY <1>2 DEF StreamToolUse
    <2>8. QED
      BY <2>5, <2>6, <2>7 DEF AllowAllWasSaid
  <1>3. ASSUME NEW answer \in Answers, request_approval(answer) PROVE AllowAllWasSaid'
    <2>1. /\ Current = tool_calls_this_round[1] /\ 1 \in DOMAIN tool_calls_this_round
      BY <1>3, CurrentType DEF request_approval, AtHand
    <2>2. /\ answers' = answers \cup {<<Current, answer>>}
          /\ tool_calls_this_round' = tool_calls_this_round
          /\ approval_auto_allow' = approval_auto_allow
      BY <1>3 DEF request_approval
    <2>3. CASE answer = "AllowAll"
      <3>1. \A j \in DOMAIN tool_calls_this_round : Current <= tool_calls_this_round[j]
        <4> TAKE j \in DOMAIN tool_calls_this_round
        <4>1. j = 1 \/ 1 < j
          BY <1>1
        <4>2. QED
          BY <1>1, <2>1, <4>1 DEF CallsInOrder
      <3>2. PICK pair \in answers' : pair = <<Current, answer>>
        BY <2>2
      <3>3. /\ pair[2] = "AllowAll"
            /\ \A j \in DOMAIN tool_calls_this_round' : pair[1] <= tool_calls_this_round'[j]
        BY <2>2, <2>3, <3>1, <3>2
      <3>4. QED
        BY <3>3 DEF AllowAllWasSaid
    <2>4. CASE answer # "AllowAll"
      <3>1. allow_all' => allow_all
        BY <1>3, <2>4 DEF request_approval, Remembers
      <3>2. QED
        BY <2>2, <3>1 DEF AllowAllWasSaid
    <2>5. QED
      BY <2>3, <2>4
  <1>4. CASE emit
    <2>1. \A i \in DOMAIN tool_calls_this_round' :
            /\ i + 1 \in DOMAIN tool_calls_this_round
            /\ tool_calls_this_round'[i] = tool_calls_this_round[i + 1]
      BY <1>4, CurrentType DEF emit, AfterEmit, AtHand
    <2>2. UNCHANGED <<answers, allow_all, approval_auto_allow>>
      BY <1>4 DEF emit
    <2>3. QED
      BY <2>1, <2>2 DEF AllowAllWasSaid
  <1>5. ASSUME NEW text \in Tasks, StartTask(text) PROVE AllowAllWasSaid'
    BY <1>5 DEF StartTask, AllowAllWasSaid
  <1>6. CASE StreamEnd
    <2>1. UNCHANGED <<answers, allow_all, tool_calls_this_round>>
      BY <1>6 DEF StreamEnd
    <2>2. approval_auto_allow' => approval_auto_allow \/ allow_all
      BY <1>6 DEF StreamEnd, FinishTask
    <2>3. QED
      BY <2>1, <2>2 DEF AllowAllWasSaid
  <1>7. ASSUME UNCHANGED <<answers, allow_all, approval_auto_allow, tool_calls_this_round>>
        PROVE  AllowAllWasSaid'
    BY <1>7 DEF AllowAllWasSaid
  <1>8. CASE UNCHANGED vars
    BY <1>7, <1>8 DEF vars
  <1>9. QED
    BY <1>2, <1>3, <1>4, <1>5, <1>6, <1>7, <1>8, GateAnswers
    DEF Next, Provider, Tool, Agent, User, Terminated, Complete, StreamError,
        dispatch_tool_call, ExecuteTool, Exit

\* Only ExecuteTool runs a tool, and the call it runs is permitted.
LEMMA ExecutedOnlyIfPermittedStep ==
  ASSUME TypeOK, CallsInPhase, CallAtHand, ExecutedOnlyIfPermitted, [Next]_vars
  PROVE  ExecutedOnlyIfPermitted'
  <1> USE DEF session, task, history
  <1>1. /\ Len(executed) \in Nat /\ DOMAIN executed = 1..Len(executed)
        /\ \A i \in DOMAIN executed : executed[i] \in 1..Len(asked)
    BY LenProperties, ElementOfSeq DEF TypeOK
  <1>2. \A id \in 1..Len(asked) : Permitted(id) => Permitted(id)'
    BY PermittedStable
  <1>3. SUFFICES ASSUME NEW i \in DOMAIN executed', NEW id, id = executed'[i]
                 PROVE  Permitted(id)'
    BY DEF ExecutedOnlyIfPermitted, Permitted, Consented, Decision
  <1>4. CASE executed' = executed
    BY <1>1, <1>2, <1>3, <1>4 DEF ExecutedOnlyIfPermitted
  <1>5. ASSUME NEW result \in {"Ok", "IsError", "Err"}, ExecuteTool(result)
        PROVE  Permitted(id)'
    <2>1. Current \in 1..Len(asked) /\ Permitted(Current)
      BY <1>5, CurrentType DEF ExecuteTool, AtHand, CallAtHand
    <2>2. /\ DOMAIN executed' = 1..(Len(executed) + 1)
          /\ \A j \in 1..Len(executed) : executed'[j] = executed[j]
          /\ executed'[Len(executed) + 1] = Current
      BY <1>5, <2>1, AppendProperties, LenProperties DEF TypeOK, ExecuteTool
    <2>3. CASE i \in 1..Len(executed)
      BY <1>1, <1>2, <1>3, <2>2, <2>3 DEF ExecutedOnlyIfPermitted
    <2>4. CASE i = Len(executed) + 1
      BY <1>2, <1>3, <2>1, <2>2, <2>4
    <2>5. QED
      BY <1>1, <1>3, <2>2, <2>3, <2>4
  <1>6. QED
    BY <1>4, <1>5
    DEF Next, Provider, Gate, Tool, Agent, User, Terminated, vars, StartTask, Complete,
        StreamToolUse, StreamError, StreamEnd, dispatch_tool_call, request_approval, emit, Exit

\* The call at hand is later than every call executed before it.
LEMMA CallsRunOnceInOrderStep ==
  ASSUME TypeOK, CallsInPhase, CallsInOrder, CallsRunOnceInOrder, [Next]_vars
  PROVE  CallsRunOnceInOrder'
  <1> USE DEF session, task, history
  <1>1. /\ Len(executed) \in Nat /\ DOMAIN executed = 1..Len(executed)
        /\ Len(asked) \in Nat
        /\ \A i \in DOMAIN executed : executed[i] \in 1..Len(asked)
    BY LenProperties, ElementOfSeq DEF TypeOK
  <1>2. CASE executed' = executed
    BY <1>2 DEF CallsRunOnceInOrder
  <1>3. ASSUME NEW result \in {"Ok", "IsError", "Err"}, ExecuteTool(result)
        PROVE  CallsRunOnceInOrder'
    <2>1. /\ Current \in 1..Len(asked) /\ Current = tool_calls_this_round[1]
          /\ 1 \in DOMAIN tool_calls_this_round /\ phase = "executing"
      BY <1>3, CurrentType DEF ExecuteTool, AtHand
    <2>2. /\ DOMAIN executed' = 1..(Len(executed) + 1)
          /\ \A j \in 1..Len(executed) : executed'[j] = executed[j]
          /\ executed'[Len(executed) + 1] = Current
      BY <1>3, <2>1, AppendProperties, LenProperties DEF TypeOK, ExecuteTool
    <2>3. \A i \in DOMAIN executed : executed[i] < Current
      BY <1>1, <2>1 DEF CallsInOrder
    <2>4. SUFFICES ASSUME NEW i \in DOMAIN executed', NEW j \in DOMAIN executed', i < j
                   PROVE  executed'[i] < executed'[j]
      BY DEF CallsRunOnceInOrder
    <2>5. i \in 1..Len(executed)
      BY <1>1, <2>2, <2>4
    <2>6. CASE j \in 1..Len(executed)
      BY <1>1, <2>2, <2>4, <2>5, <2>6 DEF CallsRunOnceInOrder
    <2>7. CASE j = Len(executed) + 1
      BY <1>1, <2>2, <2>3, <2>5, <2>7
    <2>8. QED
      BY <1>1, <2>2, <2>6, <2>7
  <1>4. QED
    BY <1>2, <1>3
    DEF Next, Provider, Gate, Tool, Agent, User, Terminated, vars, StartTask, Complete,
        StreamToolUse, StreamError, StreamEnd, dispatch_tool_call, request_approval, emit, Exit

-----------------------------------------------------------------------------
(* Every call is answered. *)

\* Which steps touch the calls of the round, and the conversation.
LEMMA CallsChange ==
  ASSUME [Next]_vars
  PROVE  \/ UNCHANGED <<asked, tool_calls_this_round, messages>>
         \/ \E text \in Tasks : StartTask(text)
         \/ \E call \in Calls : StreamToolUse(call)
         \/ emit
  BY DEF session, task, history, Next, Provider, Gate, Tool, Agent, User, Terminated, vars,
         Complete, StreamError, StreamEnd, dispatch_tool_call, request_approval, ExecuteTool, Exit

\* The next call to be settled follows the settled ones.
LEMMA CurrentIsNext ==
  ASSUME TypeOK, CallsInPhase, CallsSettled, AtHand
  PROVE  /\ settled \in Nat /\ Current = settled + 1
         /\ settled + 1 \in 1..Len(asked)
  <1>1. /\ Current \in 1..Len(asked) /\ Current = tool_calls_this_round[1]
        /\ 1 \in DOMAIN tool_calls_this_round
    BY CurrentType
  <1>2. settled \in Nat /\ tool_calls_this_round[1] = settled + 1
    BY <1>1 DEF CallsSettled
  <1>3. QED
    BY <1>1, <1>2

\* A message follows those there are.
LEMMA MessageAppended ==
  ASSUME TypeOK, NEW role \in {"user", "tool"}, NEW id \in Nat
  PROVE  LET then == Append(messages, [role |-> role, id |-> id]) IN
         /\ DOMAIN messages = 1..Len(messages) /\ Len(messages) \in Nat
         /\ then \in Seq([role : {"user", "tool"}, id : Nat])
         /\ DOMAIN then = 1..(Len(messages) + 1)
         /\ \A i \in 1..Len(messages) : then[i] = messages[i]
         /\ then[Len(messages) + 1].role = role /\ then[Len(messages) + 1].id = id
  <1> DEFINE message == [role |-> role, id |-> id]
  <1>1. /\ message \in [role : {"user", "tool"}, id : Nat]
        /\ message.role = role /\ message.id = id
    OBVIOUS
  <1>2. messages \in Seq([role : {"user", "tool"}, id : Nat])
    BY DEF TypeOK
  <1> HIDE DEF message
  <1>3. /\ Append(messages, message) \in Seq([role : {"user", "tool"}, id : Nat])
        /\ Len(Append(messages, message)) = Len(messages) + 1
        /\ \A i \in 1..Len(messages) : Append(messages, message)[i] = messages[i]
        /\ Append(messages, message)[Len(messages) + 1] = message
    BY <1>1, <1>2, AppendProperties
  <1>4. /\ DOMAIN messages = 1..Len(messages) /\ Len(messages) \in Nat
        /\ DOMAIN Append(messages, message) = 1..Len(Append(messages, message))
    BY <1>2, <1>3, LenProperties
  <1>5. QED
    BY <1>1, <1>3, <1>4 DEF message

\* The calls of a session are settled one after another, each by one result.
LEMMA CallsSettledStep ==
  ASSUME TypeOK, CallsInPhase, CallsSettled, [Next]_vars
  PROVE  CallsSettled'
  <1> DEFINE calls == tool_calls_this_round
  <1>1. /\ Len(asked) \in Nat /\ Len(calls) \in Nat /\ settled \in Nat
        /\ DOMAIN calls = 1..Len(calls)
        /\ settled = Len(asked) - Len(calls)
    BY LenProperties DEF TypeOK, CallsSettled, settled
  <1>2. ASSUME UNCHANGED <<asked, tool_calls_this_round, messages>>
        PROVE  CallsSettled'
    BY <1>2 DEF CallsSettled, settled
  <1>3. ASSUME NEW text \in Tasks, StartTask(text)
        PROVE  CallsSettled'
    <2>1. /\ asked' = asked /\ calls' = calls
          /\ messages' = Append(messages, [role |-> "user", id |-> 0])
      BY <1>3 DEF StartTask, history
    <2>2. /\ DOMAIN messages = 1..Len(messages) /\ Len(messages) \in Nat
          /\ DOMAIN messages' = 1..(Len(messages) + 1)
          /\ \A i \in 1..Len(messages) : messages'[i] = messages[i]
          /\ messages'[Len(messages) + 1].role = "user"
      BY <2>1, MessageAppended
    <2>3. settled' = settled
      BY <2>1 DEF settled
    <2>4. \A id \in 1..settled :
            \E i \in DOMAIN messages' : messages'[i].role = "tool" /\ messages'[i].id = id
      BY <2>2 DEF CallsSettled
    <2>5. ASSUME NEW i \in DOMAIN messages', messages'[i].role = "tool"
          PROVE  /\ messages'[i].id \in 1..settled
                 /\ \A j \in 1..(i - 1) : messages'[j].role = "tool" => messages'[j].id < messages'[i].id
      <3>1. i \in 1..Len(messages)
        BY <2>2, <2>5
      <3>2. \A j \in 1..(i - 1) : j \in 1..Len(messages)
        BY <2>2, <3>1
      <3>3. QED
        BY <2>2, <2>5, <3>1, <3>2 DEF CallsSettled
    <2>6. QED
      BY <1>1, <2>1, <2>3, <2>4, <2>5 DEF CallsSettled
  <1>4. ASSUME NEW call \in Calls, StreamToolUse(call)
        PROVE  CallsSettled'
    <2>1. /\ asked' = Append(asked, call) /\ calls' = Append(calls, Len(asked) + 1)
          /\ messages' = messages
      BY <1>4 DEF StreamToolUse
    <2>2. calls \in Seq(Nat)
      BY SeqMonotonic DEF TypeOK
    <2>3. /\ Len(asked') = Len(asked) + 1 /\ Len(calls') = Len(calls) + 1
          /\ \A i \in 1..Len(calls) : calls'[i] = calls[i]
          /\ calls'[Len(calls) + 1] = Len(asked) + 1
          /\ calls' \in Seq(Nat)
      BY <1>1, <2>1, <2>2, AppendProperties DEF TypeOK
    <2>4. DOMAIN calls' = 1..(Len(calls) + 1)
      BY <2>3, LenProperties
    <2>5. settled' = settled
      BY <1>1, <2>3 DEF settled
    <2>6. ASSUME NEW i \in DOMAIN calls' PROVE calls'[i] = settled + i
      <3>1. CASE i \in 1..Len(calls)
        BY <1>1, <2>3, <3>1 DEF CallsSettled
      <3>2. CASE i = Len(calls) + 1
        BY <1>1, <2>3, <3>2
      <3>3. QED
        BY <1>1, <2>4, <3>1, <3>2
    <2>7. QED
      BY <1>1, <2>1, <2>5, <2>6 DEF CallsSettled
  <1>5. CASE emit
    <2>1. /\ asked' = asked /\ calls' = Tail(calls) /\ AtHand
          /\ messages' = Append(messages, [role |-> "tool", id |-> Current])
      BY <1>5 DEF emit, AfterEmit, history, AtHand
    <2>2. Current = settled + 1 /\ settled + 1 \in 1..Len(asked)
      BY <2>1, CurrentIsNext
    <2>3. /\ Len(calls') = Len(calls) - 1
          /\ \A i \in DOMAIN calls' : i + 1 \in DOMAIN calls /\ calls'[i] = calls[i + 1]
      BY <2>1, CurrentType
    <2>4. settled' = settled + 1
      <3>1. settled' = Len(asked) - (Len(calls) - 1)
        BY <2>1, <2>3 DEF settled
      <3>2. QED
        BY <1>1, <3>1
    <2>5. /\ DOMAIN messages = 1..Len(messages) /\ Len(messages) \in Nat
          /\ DOMAIN messages' = 1..(Len(messages) + 1)
          /\ \A i \in 1..Len(messages) : messages'[i] = messages[i]
          /\ messages'[Len(messages) + 1].role = "tool"
          /\ messages'[Len(messages) + 1].id = settled + 1
      BY <1>1, <2>1, <2>2, MessageAppended
    <2>6. \A i \in DOMAIN calls' : calls'[i] = (settled + 1) + i
      <3> SUFFICES ASSUME NEW i \in DOMAIN calls' PROVE calls'[i] = (settled + 1) + i
        OBVIOUS
      <3>1. i + 1 \in 1..Len(calls) /\ calls'[i] = settled + (i + 1)
        BY <1>1, <2>3 DEF CallsSettled
      <3>2. i \in Nat
        <4>1. Tail(calls) \in Seq(1..Len(asked))
          BY <2>1, CurrentType
        <4>2. DOMAIN calls' = 1..Len(calls')
          BY <2>1, <4>1, LenProperties
        <4>3. QED
          BY <4>2
      <3>3. QED
        BY <1>1, <3>1, <3>2
    <2>7. ASSUME NEW id \in 1..(settled + 1)
          PROVE  \E i \in DOMAIN messages' : messages'[i].role = "tool" /\ messages'[i].id = id
      <3>1. CASE id \in 1..settled
        <4>1. PICK i \in DOMAIN messages : messages[i].role = "tool" /\ messages[i].id = id
          BY <3>1 DEF CallsSettled
        <4>2. i \in 1..Len(messages) /\ i \in DOMAIN messages'
          BY <2>5
        <4>3. QED
          BY <2>5, <4>1, <4>2
      <3>2. CASE id = settled + 1
        <4>1. Len(messages) + 1 \in DOMAIN messages'
          BY <2>5
        <4>2. QED
          BY <2>5, <3>2, <4>1
      <3>3. QED
        BY <1>1, <3>1, <3>2
    <2>8. ASSUME NEW i \in DOMAIN messages', messages'[i].role = "tool"
          PROVE  /\ messages'[i].id \in 1..(settled + 1)
                 /\ \A j \in 1..(i - 1) : messages'[j].role = "tool" => messages'[j].id < messages'[i].id
      <3>1. \A j \in 1..Len(messages) : messages[j].role = "tool" => messages[j].id \in 1..settled
        BY <2>5 DEF CallsSettled
      <3>2. CASE i \in 1..Len(messages)
        <4>1. \A j \in 1..(i - 1) : j \in 1..Len(messages)
          BY <2>5, <3>2
        <4>2. messages'[i] = messages[i] /\ messages[i].id \in 1..settled
          BY <2>5, <2>8, <3>1, <3>2
        <4>3. \A j \in 1..(i - 1) : messages[j].role = "tool" => messages[j].id < messages[i].id
          BY <2>5, <2>8, <3>2, <4>2 DEF CallsSettled
        <4>4. QED
          BY <1>1, <2>5, <4>1, <4>2, <4>3
      <3>3. CASE i = Len(messages) + 1
        <4>1. \A j \in 1..(i - 1) : j \in 1..Len(messages)
          BY <2>5, <3>3
        <4>2. messages'[i].id = settled + 1
          BY <2>5, <3>3
        <4>3. \A j \in 1..(i - 1) : messages'[j].role = "tool" => messages'[j].id \in 1..settled
          BY <2>5, <3>1, <4>1
        <4>4. QED
          BY <1>1, <4>2, <4>3
      <3>4. QED
        BY <2>5, <2>8, <3>2, <3>3
    <2>9. settled + 1 \in Nat
      BY <1>1
    <2>10. QED
      BY <2>4, <2>6, <2>7, <2>8, <2>9 DEF CallsSettled
  <1>6. QED
    BY <1>2, <1>3, <1>4, <1>5, CallsChange

-----------------------------------------------------------------------------
(* The log. *)

\* How far the calls are settled changes when a result is added, and then only.
LEMMA SettledChange ==
  ASSUME TypeOK, CallsInPhase, CallsSettled, [Next]_vars
  PROVE  /\ emit => settled' = settled + 1
         /\ (\E call \in Calls : StreamToolUse(call)) => settled' = settled
         /\ UNCHANGED <<asked, tool_calls_this_round>> => settled' = settled
  <1> DEFINE calls == tool_calls_this_round
  <1>1. Len(asked) \in Nat /\ Len(calls) \in Nat /\ settled = Len(asked) - Len(calls)
    BY LenProperties DEF TypeOK, settled
  <1>2. ASSUME emit PROVE settled' = settled + 1
    <2>1. asked' = asked /\ calls' = Tail(calls) /\ AtHand
      BY <1>2 DEF emit, AfterEmit, history, AtHand
    <2>2. Len(calls') = Len(calls) - 1
      BY <2>1, CurrentType
    <2>3. settled' = Len(asked) - (Len(calls) - 1)
      BY <2>1, <2>2 DEF settled
    <2>4. QED
      BY <1>1, <2>3
  <1>3. ASSUME NEW call \in Calls, StreamToolUse(call) PROVE settled' = settled
    <2>1. Len(asked') = Len(asked) + 1 /\ Len(calls') = Len(calls) + 1
      BY <1>3, <1>1, AppendProperties, SeqMonotonic DEF TypeOK, StreamToolUse
    <2>2. settled' = (Len(asked) + 1) - (Len(calls) + 1)
      BY <2>1 DEF settled
    <2>3. QED
      BY <1>1, <2>2
  <1>4. QED
    BY <1>2, <1>3 DEF settled

\* What has been run is settled, or is the call at hand in "emitting".
LEMMA ExecutedAre ==
  ASSUME TypeOK, CallsInPhase, CallsInOrder, CallsSettled, AtHand, NEW id \in Executed
  PROVE  /\ id \in Nat /\ id <= settled + 1
         /\ phase # "emitting" => id <= settled
  <1>1. PICK i \in DOMAIN executed : id = executed[i]
    BY DEF Executed
  <1>2. id \in 1..Len(asked) /\ Len(asked) \in Nat
    BY <1>1, LenProperties, ElementOfSeq DEF TypeOK
  <1>3. /\ Current = tool_calls_this_round[1] /\ 1 \in DOMAIN tool_calls_this_round
        /\ Current = settled + 1 /\ settled \in Nat
    BY CurrentType, CurrentIsNext
  <1>4. id <= Current /\ (id = Current => phase = "emitting")
    BY <1>1, <1>3 DEF CallsInOrder
  <1>5. QED
    BY <1>2, <1>3, <1>4

LEMMA ExecuteToolRuns ==
  ASSUME TypeOK, CallsInPhase, NEW result, ExecuteTool(result)
  PROVE  Executed' = Executed \cup {Current}
  <1>1. executed' = Append(executed, Current) /\ Current \in 1..Len(asked)
    BY CurrentType DEF ExecuteTool, AtHand
  <1>2. /\ DOMAIN executed = 1..Len(executed) /\ Len(executed) \in Nat
        /\ DOMAIN executed' = 1..(Len(executed) + 1)
        /\ \A j \in 1..Len(executed) : executed'[j] = executed[j]
        /\ executed'[Len(executed) + 1] = Current
    BY <1>1, AppendProperties, LenProperties DEF TypeOK
  <1>3. ASSUME NEW id \in Executed' PROVE id \in Executed \cup {Current}
    <2>1. PICK i \in DOMAIN executed' : id = executed'[i]
      BY DEF Executed
    <2>2. i \in 1..Len(executed) \/ i = Len(executed) + 1
      BY <1>2
    <2>3. QED
      BY <1>2, <2>1, <2>2 DEF Executed
  <1>4. ASSUME NEW id \in Executed PROVE id \in Executed'
    <2>1. PICK i \in DOMAIN executed : id = executed[i]
      BY DEF Executed
    <2>2. i \in DOMAIN executed' /\ executed'[i] = id
      BY <1>2, <2>1
    <2>3. QED
      BY <2>2 DEF Executed
  <1>5. Current \in Executed'
    <2>1. Len(executed) + 1 \in DOMAIN executed'
      BY <1>2
    <2>2. QED
      BY <1>2, <2>1 DEF Executed
  <1>6. QED
    BY <1>3, <1>4, <1>5

\* Only ExecuteTool runs a tool.
LEMMA ExecutedChange ==
  ASSUME [Next]_vars
  PROVE  executed' = executed \/ \E result \in {"Ok", "IsError", "Err"} : ExecuteTool(result)
  BY DEF session, task, history, Next, Provider, Gate, Tool, Agent, User, Terminated, vars,
         StartTask, Complete, StreamToolUse, StreamError, StreamEnd, dispatch_tool_call,
         request_approval, emit, Exit

\* An outcome says "denied" of a call that was not run, and of no other.
LEMMA OutcomeTells ==
  ASSUME TypeOK, CallsInPhase, CallsInOrder, CallsSettled, LogInStep, [Next]_vars
  PROVE  phase' = "emitting" => (outcome'.decision = "Denied" <=> Current' \notin Executed')
  <1> USE DEF session, task, history
  <1> SUFFICES ASSUME phase' = "emitting"
               PROVE  outcome'.decision = "Denied" <=> Current' \notin Executed'
    OBVIOUS
  <1>1. AtHand /\ phase # "emitting" => Current \notin Executed
    BY CurrentIsNext, ExecutedAre
  <1>2. ASSUME outcome' = [executed |-> FALSE, decision |-> "Denied"], AtHand, phase # "emitting",
               UNCHANGED <<tool_calls_this_round, executed>>
        PROVE  outcome'.decision = "Denied" /\ Current' \notin Executed'
    <2>1. Current' = Current /\ Executed' = Executed
      BY <1>2 DEF Current, Executed
    <2>2. QED
      BY <1>1, <1>2, <2>1
  <1>3. CASE dispatch_tool_call
    <2>1. outcome' = [executed |-> FALSE, decision |-> "Denied"]
      BY <1>3 DEF dispatch_tool_call, Conclude
    <2>2. QED
      BY <1>2, <1>3, <2>1 DEF dispatch_tool_call, AtHand
  <1>4. ASSUME NEW answer \in Answers, request_approval(answer)
        PROVE  outcome'.decision = "Denied" <=> Current' \notin Executed'
    <2>1. outcome' = [executed |-> FALSE, decision |-> "Denied"]
      BY <1>4 DEF request_approval, Conclude
    <2>2. QED
      BY <1>2, <1>4, <2>1 DEF request_approval, AtHand
  <1>5. ASSUME NEW result \in {"Ok", "IsError", "Err"}, ExecuteTool(result)
        PROVE  outcome'.decision = "Denied" <=> Current' \notin Executed'
    <2>1. outcome'.decision # "Denied"
      BY <1>5 DEF ExecuteTool, Conclude
    <2>2. Current' = Current
      BY <1>5 DEF ExecuteTool, Current
    <2>3. QED
      BY <1>5, <2>1, <2>2, ExecuteToolRuns
  <1>6. CASE UNCHANGED vars
    BY <1>6 DEF vars, LogInStep, Current, Executed
  <1>7. QED
    BY <1>3, <1>4, <1>5, <1>6, GateAnswers
    DEF Next, Provider, Tool, Agent, User, Terminated, StartTask, Complete, StreamToolUse,
        StreamError, StreamEnd, FinishTask, ProviderFailure, Fail, emit, AfterEmit, Exit

\* An entry follows those there are.
LEMMA EntryAppended ==
  ASSUME TypeOK, NEW entry \in [id : Nat, decision : {"Allowed", "Denied", "Error"}]
  PROVE  /\ DOMAIN audit = 1..Len(audit) /\ Len(audit) \in Nat
         /\ DOMAIN Append(audit, entry) = 1..(Len(audit) + 1)
         /\ \A i \in 1..Len(audit) : Append(audit, entry)[i] = audit[i]
         /\ Append(audit, entry)[Len(audit) + 1] = entry
  <1>1. audit \in Seq([id : Nat, decision : {"Allowed", "Denied", "Error"}])
    BY DEF TypeOK
  <1>2. /\ Append(audit, entry) \in Seq([id : Nat, decision : {"Allowed", "Denied", "Error"}])
        /\ Len(Append(audit, entry)) = Len(audit) + 1
        /\ \A i \in 1..Len(audit) : Append(audit, entry)[i] = audit[i]
        /\ Append(audit, entry)[Len(audit) + 1] = entry
    BY <1>1, AppendProperties
  <1>3. QED
    BY <1>1, <1>2, LenProperties

\* What LogInStep says of one entry.
EntryTrue(i) ==
  /\ audit[i].id \in 0..settled
  /\ audit[i].id # 0 =>
       /\ audit[i].decision = "Denied" <=> audit[i].id \notin Executed
       /\ \A j \in 1..(i - 1) : audit[j].id # audit[i].id

\* The entry of a failing provider speaks of no call.
LEMMA ProviderFailureLogs ==
  ASSUME TypeOK, LogInStep, settled \in Nat, ProviderFailure,
         UNCHANGED <<logger, asked, tool_calls_this_round, executed>>
  PROVE  logger' = "healthy" =>
           /\ \A id \in 1..settled' : \E i \in DOMAIN audit' : audit'[i].id = id
           /\ \A i \in DOMAIN audit' : EntryTrue(i)'
  <1> DEFINE entry == [id |-> 0, decision |-> "Error"]
  <1> SUFFICES ASSUME logger' = "healthy"
               PROVE  /\ \A id \in 1..settled' : \E i \in DOMAIN audit' : audit'[i].id = id
                      /\ \A i \in DOMAIN audit' : EntryTrue(i)'
    OBVIOUS
  <1>1. audit' = Append(audit, entry) /\ logger = "healthy"
    BY DEF ProviderFailure, Log
  <1>2. entry \in [id : Nat, decision : {"Allowed", "Denied", "Error"}] /\ entry.id = 0
    OBVIOUS
  <1> HIDE DEF entry
  <1>3. /\ DOMAIN audit = 1..Len(audit) /\ Len(audit) \in Nat
        /\ DOMAIN audit' = 1..(Len(audit) + 1)
        /\ \A i \in 1..Len(audit) : audit'[i] = audit[i]
        /\ audit'[Len(audit) + 1] = entry
    BY <1>1, <1>2, EntryAppended
  <1>4. settled' = settled /\ Executed' = Executed
    BY DEF settled, Executed
  <1>5. \A id \in 1..settled : \E i \in DOMAIN audit' : audit'[i].id = id
    BY <1>1, <1>3 DEF LogInStep
  <1>6. ASSUME NEW i \in DOMAIN audit' PROVE EntryTrue(i)'
    <2>1. CASE i = Len(audit) + 1
      BY <1>2, <1>3, <1>4, <2>1 DEF EntryTrue
    <2>2. CASE i \in 1..Len(audit)
      <3>1. \A j \in 1..(i - 1) : audit'[j] = audit[j]
        BY <1>3, <2>2
      <3>2. audit'[i] = audit[i] /\ EntryTrue(i)
        BY <1>1, <1>3, <2>2 DEF LogInStep, EntryTrue
      <3>3. QED
        BY <1>4, <3>1, <3>2 DEF EntryTrue
    <2>3. QED
      BY <1>3, <2>1, <2>2
  <1>7. QED
    BY <1>4, <1>5, <1>6

\* emit logs the call it settles, once.
LEMMA EmitLogs ==
  ASSUME TypeOK, CallsInPhase, CallsInOrder, CallAtHand, CallsSettled, LogInStep, emit
  PROVE  logger' = "healthy" =>
           /\ \A id \in 1..settled' : \E i \in DOMAIN audit' : audit'[i].id = id
           /\ \A i \in DOMAIN audit' : EntryTrue(i)'
  <1> SUFFICES ASSUME logger' = "healthy"
               PROVE  /\ \A id \in 1..settled' : \E i \in DOMAIN audit' : audit'[i].id = id
                      /\ \A i \in DOMAIN audit' : EntryTrue(i)'
    OBVIOUS
  <1>1. logger = "healthy" /\ audit' = Append(audit, EmitEntry) /\ phase = "emitting" /\ AtHand
    BY DEF emit, Log, session, AtHand
  <1>2. settled \in Nat /\ Current = settled + 1
    BY <1>1, CurrentIsNext
  <1>3. /\ EmitEntry.id = settled + 1 /\ EmitEntry.decision = outcome.decision
        /\ EmitEntry \in [id : Nat, decision : {"Allowed", "Denied", "Error"}]
    BY <1>1, <1>2 DEF EmitEntry, TypeOK, CallAtHand
  <1>4. /\ DOMAIN audit = 1..Len(audit) /\ Len(audit) \in Nat
        /\ DOMAIN audit' = 1..(Len(audit) + 1)
        /\ \A i \in 1..Len(audit) : audit'[i] = audit[i]
        /\ audit'[Len(audit) + 1] = EmitEntry
    BY <1>1, <1>3, EntryAppended
  <1>5. settled' = settled + 1
    <2>1. [Next]_vars
      BY DEF Next, Agent
    <2>2. QED
      BY <2>1, SettledChange
  <1>6. Executed' = Executed
    BY DEF emit, history, Executed
  <1>7. ASSUME NEW id \in 1..(settled + 1)
        PROVE  \E i \in DOMAIN audit' : audit'[i].id = id
    <2>1. CASE id \in 1..settled
      <3>1. PICK i \in DOMAIN audit : audit[i].id = id
        BY <1>1, <2>1 DEF LogInStep
      <3>2. i \in DOMAIN audit' /\ audit'[i] = audit[i]
        BY <1>4
      <3>3. QED
        BY <3>1, <3>2
    <2>2. CASE id = settled + 1
      <3>1. Len(audit) + 1 \in DOMAIN audit'
        BY <1>4
      <3>2. QED
        BY <1>3, <1>4, <2>2, <3>1
    <2>3. QED
      BY <1>2, <2>1, <2>2
  <1>8. ASSUME NEW i \in DOMAIN audit' PROVE EntryTrue(i)'
    <2>1. \A j \in 1..Len(audit) : audit'[j] = audit[j] /\ audit'[j].id \in 0..settled
      BY <1>1, <1>4 DEF LogInStep
    <2>2. CASE i = Len(audit) + 1
      <3>1. audit'[i].id = settled + 1 /\ audit'[i].decision = outcome.decision
        BY <1>3, <1>4, <2>2
      <3>2. \A j \in 1..(i - 1) : audit'[j].id # settled + 1
        <4>1. \A j \in 1..(i - 1) : j \in 1..Len(audit)
          BY <1>4, <2>2
        <4>2. QED
          BY <1>2, <2>1, <4>1
      <3>3. outcome.decision = "Denied" <=> settled + 1 \notin Executed
        BY <1>1, <1>2 DEF LogInStep
      <3>4. settled + 1 \in 0..(settled + 1)
        BY <1>2
      <3>5. QED
        BY <1>5, <1>6, <3>1, <3>2, <3>3, <3>4 DEF EntryTrue
    <2>3. CASE i \in 1..Len(audit)
      <3>1. \A j \in 1..(i - 1) : audit'[j] = audit[j]
        BY <1>4, <2>3
      <3>2. audit'[i] = audit[i] /\ EntryTrue(i)
        BY <1>1, <1>4, <2>3 DEF LogInStep, EntryTrue
      <3>3. audit'[i].id \in 0..(settled + 1)
        BY <1>2, <2>1, <2>3
      <3>4. QED
        BY <1>5, <1>6, <3>1, <3>2, <3>3 DEF EntryTrue
    <2>4. QED
      BY <1>4, <2>2, <2>3
  <1>9. QED
    BY <1>5, <1>7, <1>8

\* Running a tool makes no entry false: the call it runs has none yet.
LEMMA ExecuteToolKeepsLog ==
  ASSUME TypeOK, CallsInPhase, CallsSettled, LogInStep, NEW result, ExecuteTool(result)
  PROVE  logger' = "healthy" =>
           /\ \A id \in 1..settled' : \E i \in DOMAIN audit' : audit'[i].id = id
           /\ \A i \in DOMAIN audit' : EntryTrue(i)'
  <1>1. /\ audit' = audit /\ logger' = logger /\ AtHand
        /\ asked' = asked /\ tool_calls_this_round' = tool_calls_this_round
    BY DEF ExecuteTool, session, AtHand
  <1>2. settled' = settled /\ settled \in Nat /\ Current = settled + 1
    BY <1>1, CurrentIsNext DEF settled
  <1>3. Executed' = Executed \cup {settled + 1}
    BY <1>2, ExecuteToolRuns
  <1>4. \A id \in 0..settled : id \in Executed' <=> id \in Executed
    BY <1>2, <1>3
  <1>5. QED
    BY <1>1, <1>2, <1>4 DEF LogInStep, EntryTrue

LEMMA LogInStepStep ==
  ASSUME TypeOK, CallsInPhase, CallsInOrder, CallAtHand, CallsSettled, LogInStep, [Next]_vars
  PROVE  LogInStep'
  <1> DEFINE LogTrue ==
        logger' = "healthy" =>
          /\ \A id \in 1..settled' : \E i \in DOMAIN audit' : audit'[i].id = id
          /\ \A i \in DOMAIN audit' : EntryTrue(i)'
  <1>1. settled \in Nat
    BY DEF CallsSettled
  <1>2. LogTrue
    <2>1. ASSUME settled' = settled, UNCHANGED <<audit, logger, executed>>
          PROVE  LogTrue
      BY <2>1 DEF LogInStep, EntryTrue, Executed
    <2>2. CASE emit
      BY <2>2, EmitLogs
    <2>3. CASE Complete
      <3>1. UNCHANGED <<logger, asked, tool_calls_this_round, executed>>
        BY <2>3 DEF Complete, session, history
      <3>2. CASE UNCHANGED audit
        BY <2>1, <3>1, <3>2, SettledChange
      <3>3. CASE ProviderFailure
        BY <1>1, <3>1, <3>3, ProviderFailureLogs
      <3>4. QED
        BY <2>3, <3>2, <3>3 DEF Complete
    <2>4. CASE StreamError
      <3>1. UNCHANGED <<logger, asked, tool_calls_this_round, executed>>
        BY <2>4 DEF StreamError, session, history
      <3>2. QED
        BY <1>1, <2>4, <3>1, ProviderFailureLogs DEF StreamError
    <2>5. ASSUME NEW call \in Calls, StreamToolUse(call) PROVE LogTrue
      BY <2>1, <2>5, SettledChange DEF StreamToolUse, session
    <2>6. ASSUME NEW result \in {"Ok", "IsError", "Err"}, ExecuteTool(result)
          PROVE  LogTrue
      BY <2>6, ExecuteToolKeepsLog
    <2>7. ASSUME UNCHANGED <<audit, logger, executed, asked, tool_calls_this_round>>
          PROVE  LogTrue
      BY <2>1, <2>7, SettledChange
    <2>8. QED
      BY <2>2, <2>3, <2>4, <2>5, <2>6, <2>7, GateAnswers
      DEF session, task, history, Next, Provider, Tool, Agent, User, Terminated, vars,
          StartTask, StreamEnd, dispatch_tool_call, request_approval, Exit
  <1>3. phase' = "emitting" => (outcome'.decision = "Denied" <=> Current' \notin Executed')
    BY OutcomeTells
  <1>4. QED
    BY <1>2, <1>3 DEF LogInStep, EntryTrue

-----------------------------------------------------------------------------
(* Consent. *)

\* Only the gate asks the user, and nobody else changes what was answered.
LEMMA AnswersChange ==
  ASSUME [Next]_vars
  PROVE  answers' = answers \/ \E answer \in Answers : request_approval(answer)
  BY GateAnswers
  DEF session, task, history, Next, Provider, Tool, Agent, User, Terminated, vars, StartTask,
      Complete, StreamToolUse, StreamError, StreamEnd, dispatch_tool_call, ExecuteTool, emit, Exit

\* The user is asked only while no "allow all" is in force, about the call at hand.
LEMMA UserAskedStep ==
  ASSUME TypeOK, CallsInPhase, CallsInOrder, UserAsked, [Next]_vars
  PROVE  UserAsked'
  <1> USE DEF session, task, history
  <1>1. /\ DOMAIN tool_calls_this_round = 1..Len(tool_calls_this_round)
        /\ Len(tool_calls_this_round) \in Nat /\ Len(asked) \in Nat
        /\ \A j \in DOMAIN tool_calls_this_round : tool_calls_this_round[j] \in 1..Len(asked)
        /\ \A pair \in answers : pair[1] \in 1..Len(asked)
    BY LenProperties, ElementOfSeq DEF TypeOK
  <1>2. mode' = mode /\ mode \in {"AutoDeny", "Interactive", "AutoAllow"} /\ allow_all \in BOOLEAN
    BY HistoryStable DEF TypeOK
  <1>3. phase' = "asking" => mode' = "Interactive" /\ ~allow_all'
    <2>1. CASE dispatch_tool_call
      <3>1. ASSUME phase' = "asking" PROVE resolve_ask = "consult"
        <4>1. Verdict(Current) = "consult"
          BY <2>1, <3>1 DEF dispatch_tool_call, Conclude
        <4>2. Current \in 1..Len(asked)
          BY <2>1, CurrentType DEF dispatch_tool_call, AtHand
        <4>3. Decision(Current) = "Ask" /\ asked[Current].name \in Registry
          BY <4>1, <4>2, VerdictSound
        <4>4. QED
          BY <4>1, <4>3 DEF Verdict
      <3>2. resolve_ask = "consult" => ~allow_all /\ mode = "Interactive"
        BY <1>2 DEF resolve_ask
      <3>3. QED
        BY <1>2, <2>1, <3>1, <3>2 DEF dispatch_tool_call
    <2>2. CASE UNCHANGED vars
      BY <2>2 DEF vars, UserAsked
    <2>3. QED
      BY <2>1, <2>2, GateAnswers
      DEF Next, Provider, Tool, Agent, User, Terminated, StartTask, Complete, StreamToolUse,
          StreamError, StreamEnd, FinishTask, ProviderFailure, Fail, request_approval,
          Conclude, ExecuteTool, emit, AfterEmit, Exit
  <1>4. ASSUME NEW pair \in answers'
        PROVE  mode' = "Interactive" /\ \A j \in DOMAIN tool_calls_this_round' : pair[1] <= tool_calls_this_round'[j]
    <2>1. CASE emit
      <3>1. \A j \in DOMAIN tool_calls_this_round' :
              /\ j + 1 \in DOMAIN tool_calls_this_round
              /\ tool_calls_this_round'[j] = tool_calls_this_round[j + 1]
        BY <2>1, CurrentType DEF emit, AfterEmit, AtHand
      <3>2. answers' = answers
        BY <2>1 DEF emit
      <3>3. QED
        BY <1>2, <1>4, <3>1, <3>2 DEF UserAsked
    <2>2. ASSUME NEW call \in Calls, StreamToolUse(call)
          PROVE  mode' = "Interactive" /\ \A j \in DOMAIN tool_calls_this_round' : pair[1] <= tool_calls_this_round'[j]
      <3>1. /\ tool_calls_this_round' = Append(tool_calls_this_round, Len(asked) + 1)
            /\ pair \in answers /\ pair[1] <= Len(asked) + 1 /\ mode = "Interactive"
        BY <1>1, <1>4, <2>2 DEF StreamToolUse, UserAsked
      <3>2. tool_calls_this_round \in Seq(Nat)
        BY SeqMonotonic DEF TypeOK
      <3>3. /\ DOMAIN tool_calls_this_round' = 1..(Len(tool_calls_this_round) + 1)
            /\ \A j \in 1..Len(tool_calls_this_round) :
                 tool_calls_this_round'[j] = tool_calls_this_round[j]
            /\ tool_calls_this_round'[Len(tool_calls_this_round) + 1] = Len(asked) + 1
        BY <1>1, <3>1, <3>2, AppendProperties, LenProperties
      <3>4. \A j \in 1..Len(tool_calls_this_round) : pair[1] <= tool_calls_this_round[j]
        BY <1>1, <3>1 DEF UserAsked
      <3>5. \A j \in 1..(Len(tool_calls_this_round) + 1) :
              j \in 1..Len(tool_calls_this_round) \/ j = Len(tool_calls_this_round) + 1
        BY <1>1
      <3>6. QED
        BY <1>2, <3>1, <3>3, <3>4, <3>5
    <2>3. ASSUME NEW answer \in Answers, request_approval(answer)
          PROVE  mode' = "Interactive" /\ \A j \in DOMAIN tool_calls_this_round' : pair[1] <= tool_calls_this_round'[j]
      <3>1. /\ mode = "Interactive" /\ tool_calls_this_round' = tool_calls_this_round
            /\ answers' = answers \cup {<<Current, answer>>}
        BY <2>3 DEF request_approval, UserAsked
      <3>2. Current = tool_calls_this_round[1] /\ 1 \in DOMAIN tool_calls_this_round
        BY <2>3, CurrentType DEF request_approval, AtHand
      <3>3. \A j \in DOMAIN tool_calls_this_round : Current <= tool_calls_this_round[j]
        <4> TAKE j \in DOMAIN tool_calls_this_round
        <4>1. j = 1 \/ 1 < j
          BY <1>1
        <4>2. QED
          BY <1>1, <3>2, <4>1 DEF CallsInOrder
      <3>4. CASE pair = <<Current, answer>>
        BY <1>2, <3>1, <3>3, <3>4
      <3>5. CASE pair \in answers
        BY <1>2, <3>1, <3>5 DEF UserAsked
      <3>6. QED
        BY <1>4, <3>1, <3>4, <3>5
    <2>4. ASSUME answers' = answers, tool_calls_this_round' = tool_calls_this_round
          PROVE  mode' = "Interactive" /\ \A j \in DOMAIN tool_calls_this_round' : pair[1] <= tool_calls_this_round'[j]
      BY <1>2, <1>4, <2>4 DEF UserAsked
    <2>5. QED
      BY <2>1, <2>2, <2>3, <2>4, AnswersChange, CallsChange DEF StartTask
  <1>5. SaidAllowAll' => phase' = "returned" \/ IF phase' = "idle" THEN approval_auto_allow' ELSE allow_all'
    <2>1. ASSUME NEW answer \in Answers, request_approval(answer), SaidAllowAll'
          PROVE  phase' # "idle" /\ allow_all'
      <3>1. phase' # "idle" /\ phase = "asking" /\ allow_all' = (allow_all \/ Remembers(answer))
        BY <2>1 DEF request_approval, Conclude
      <3>2. ~SaidAllowAll
        BY <3>1 DEF UserAsked
      <3>3. answer = "AllowAll"
        BY <2>1, <3>2 DEF request_approval, SaidAllowAll
      <3>4. QED
        BY <3>1, <3>3 DEF Remembers
    <2>2. ASSUME answers' = answers, SaidAllowAll'
          PROVE  phase' = "returned" \/ IF phase' = "idle" THEN approval_auto_allow' ELSE allow_all'
      <3>1. phase = "returned" \/ IF phase = "idle" THEN approval_auto_allow ELSE allow_all
        BY <2>2 DEF SaidAllowAll, UserAsked
      <3>2. ASSUME NEW answer \in Answers, request_approval(answer)
            PROVE  phase' # "idle" /\ allow_all'
        BY <2>1, <2>2, <3>2
      <3>3. QED
        BY <3>1, <3>2, GateAnswers
        DEF Next, Provider, Tool, Agent, User, Terminated, vars, StartTask, Complete,
            StreamToolUse, StreamError, StreamEnd, FinishTask, ProviderFailure, Fail,
            dispatch_tool_call, Conclude, ExecuteTool, emit, AfterEmit, Exit
    <2>3. QED
      BY <2>1, <2>2, AnswersChange
  <1>6. QED
    BY <1>3, <1>4, <1>5 DEF UserAsked

\* Once "allow all" was said no later call is asked about.
LEMMA NoPromptAfterAllowAllStep ==
  ASSUME TypeOK, CallsInPhase, UserAsked, NoPromptAfterAllowAll, [Next]_vars
  PROVE  NoPromptAfterAllowAll'
  <1>1. CASE answers' = answers
    BY <1>1 DEF NoPromptAfterAllowAll
  <1>2. ASSUME NEW answer \in Answers, request_approval(answer)
        PROVE  NoPromptAfterAllowAll'
    <2>1. phase = "asking" /\ answers' = answers \cup {<<Current, answer>>}
      BY <1>2 DEF request_approval
    <2>2. ~SaidAllowAll
      BY <2>1 DEF UserAsked
    <2>3. Current \in 1..Len(asked) /\ Current = tool_calls_this_round[1] /\ 1 \in DOMAIN tool_calls_this_round
      BY <2>1, CurrentType DEF AtHand
    <2>4. \A q \in answers' : q[1] <= Current
      <3>1. \A q \in answers : q[1] <= Current
        BY <2>3 DEF UserAsked
      <3>2. Current <= Current
        BY <2>3
      <3>3. QED
        BY <2>1, <3>1, <3>2
    <2>5. \A p \in answers' : p[2] = "AllowAll" => p[1] = Current
      BY <2>1, <2>2 DEF SaidAllowAll
    <2>6. QED
      BY <2>4, <2>5 DEF NoPromptAfterAllowAll
  <1>3. QED
    BY <1>1, <1>2, AnswersChange

\* A call is refused only if the policy denies it, or the user was asked and said no,
\* or is never asked.
LEMMA RefusedForCauseStep ==
  ASSUME TypeOK, CallsInPhase, CallAtHand, UserAsked, RefusedForCause, [Next]_vars
  PROVE  RefusedForCause'
  <1> USE DEF session, task, history
  <1> SUFFICES ASSUME phase' = "emitting", Current' \notin Executed'
               PROVE  ~ /\ asked'[Current'].name \in Registry
                        /\ \/ Decision(Current)' = "Allow"
                           \/ Decision(Current)' = "Ask" /\ (mode' = "AutoAllow" \/ SaidAllowAll')
    BY DEF RefusedForCause
  <1>1. mode \in {"AutoDeny", "Interactive", "AutoAllow"} /\ allow_all \in BOOLEAN
    BY DEF TypeOK
  <1>2. CASE dispatch_tool_call
    <2>1. /\ Verdict(Current) = "refuse" /\ phase = "dispatching"
          /\ asked' = asked /\ mode' = mode /\ answers' = answers /\ Current' = Current
      BY <1>2 DEF dispatch_tool_call, Conclude, Current
    <2>2. Decision(Current)' = Decision(Current) /\ SaidAllowAll' = SaidAllowAll
      BY <2>1 DEF Decision, SaidAllowAll
    <2>3. asked[Current].name \in Registry => Decision(Current) # "Allow"
      BY <2>1 DEF Verdict
    <2>4. asked[Current].name \in Registry /\ Decision(Current) = "Ask" => resolve_ask = "refuse"
      BY <2>1 DEF Verdict
    <2>5. resolve_ask = "refuse" => ~allow_all /\ mode = "AutoDeny"
      BY <1>1 DEF resolve_ask
    <2>6. ~allow_all => ~SaidAllowAll
      BY <2>1 DEF UserAsked
    <2>7. QED
      BY <2>1, <2>2, <2>3, <2>4, <2>5, <2>6
  <1>3. ASSUME NEW answer \in Answers, request_approval(answer)
        PROVE  Decision(Current)' = "Ask" /\ mode' # "AutoAllow" /\ ~SaidAllowAll'
    <2>1. /\ phase = "asking" /\ answer = "Deny" /\ answers' = answers \cup {<<Current, answer>>}
          /\ asked' = asked /\ mode' = mode /\ Current' = Current
      BY <1>3 DEF request_approval, Conclude, Current
    <2>2. Decision(Current)' = Decision(Current) /\ Decision(Current) = "Ask"
      BY <2>1 DEF Decision, CallAtHand
    <2>3. mode = "Interactive" /\ ~SaidAllowAll
      BY <2>1 DEF UserAsked
    <2>4. ~SaidAllowAll'
      BY <2>1, <2>3 DEF SaidAllowAll
    <2>5. QED
      BY <2>1, <2>2, <2>3, <2>4
  <1>4. ASSUME NEW result \in {"Ok", "IsError", "Err"}, ExecuteTool(result)
        PROVE  FALSE
    <2>1. Current' = Current /\ Executed' = Executed \cup {Current}
      BY <1>4, ExecuteToolRuns DEF ExecuteTool, Current
    <2>2. QED
      BY <2>1
  <1>5. CASE UNCHANGED vars
    <2>1. /\ phase = "emitting" /\ Current' = Current /\ Executed' = Executed /\ asked' = asked
          /\ mode' = mode
      BY <1>5 DEF vars, Current, Executed
    <2>2. Decision(Current)' = Decision(Current) /\ SaidAllowAll' = SaidAllowAll
      BY <1>5, <2>1 DEF vars, Decision, SaidAllowAll
    <2>3. QED
      BY <2>1, <2>2 DEF RefusedForCause
  <1>6. QED
    BY <1>2, <1>3, <1>4, <1>5, GateAnswers
    DEF Next, Provider, Tool, Agent, User, Terminated, StartTask, Complete, StreamToolUse,
        StreamError, StreamEnd, FinishTask, ProviderFailure, Fail, emit, AfterEmit, Exit

-----------------------------------------------------------------------------
\* A session starts in a state of the inductive invariant.
LEMMA IndInvInit == Init => IndInv
  <1> SUFFICES ASSUME Init PROVE IndInv
    OBVIOUS
  <1>1. TypeOK
    BY TypeOKInit
  <1>2. DOMAIN executed = {} /\ DOMAIN tool_calls_this_round = {}
    BY DEF Init
  <1>3. CallsInOrder /\ ExecutedOnlyIfPermitted /\ CallsRunOnceInOrder
    BY <1>2 DEF CallsInOrder, ExecutedOnlyIfPermitted, CallsRunOnceInOrder
  <1>4. CallsInPhase /\ CallAtHand
    BY DEF Init, CallsInPhase, CallAtHand, AtHand
  <1>5. AllowAllWasSaid
    BY DEF Init, AllowAllWasSaid
  <1>6. CallsSettled
    <2>1. Len(asked) = 0 /\ Len(tool_calls_this_round) = 0 /\ DOMAIN messages = {}
      BY EmptySeq DEF Init
    <2>2. settled = 0
      BY <2>1 DEF settled
    <2>3. QED
      BY <1>2, <2>1, <2>2 DEF CallsSettled
  <1>7. LogInStep
    <2>1. DOMAIN audit = {} /\ settled = 0 /\ phase = "idle"
      BY EmptySeq DEF Init, settled
    <2>2. QED
      BY <2>1 DEF LogInStep
  <1>8. UserAsked /\ NoPromptAfterAllowAll /\ RefusedForCause
    BY DEF Init, UserAsked, SaidAllowAll, NoPromptAfterAllowAll, RefusedForCause
  <1>9. QED
    BY <1>1, <1>3, <1>4, <1>5, <1>6, <1>7, <1>8 DEF IndInv

\* IndInv holds throughout every session: the types, the place of a round's
\* calls in each phase, what the conversation and the log say of the calls settled,
\* and the safety properties below.
THEOREM Invariance == Spec => []IndInv
  <1>1. IndInv /\ [Next]_vars => IndInv'
    BY TypeOKStep, CallsInPhaseStep, CallsInOrderStep, CallAtHandStep, AllowAllWasSaidStep,
       ExecutedOnlyIfPermittedStep, CallsRunOnceInOrderStep, CallsSettledStep, LogInStepStep,
       UserAskedStep, NoPromptAfterAllowAllStep, RefusedForCauseStep DEF IndInv
  <1>2. QED
    BY IndInvInit, <1>1, PTL DEF Spec

\* The state of a session has its types in every session.
THEOREM TypeCorrectness == Spec => []TypeOK
  <1>1. IndInv => TypeOK
    BY DEF IndInv
  <1>2. QED
    BY Invariance, <1>1, PTL

\* Whatever the model asks for, in whatever mode and under whatever permission
\* configuration, dispatch_tool_call runs a tool only for a call of a registered
\* tool that the policy allows, or asks about and the user consented to.
THEOREM PermissionSafety == Spec => []ExecutedOnlyIfPermitted
  <1>1. IndInv => ExecutedOnlyIfPermitted
    BY DEF IndInv
  <1>2. QED
    BY Invariance, <1>1, PTL

\* Across the rounds and tasks of a session no tool call is executed twice or
\* out of the order the model asked in.
THEOREM ExecutionOrder == Spec => []CallsRunOnceInOrder
  <1>1. IndInv => CallsRunOnceInOrder
    BY DEF IndInv
  <1>2. QED
    BY Invariance, <1>1, PTL

\* Whenever the conversation is sent to the provider, and between tasks, every
\* call a model ever requested has exactly one result, in the order of the calls.
THEOREM CallsAreAnswered == Spec => []EveryCallAnsweredOnce
  <1>1. IndInv => EveryCallAnsweredOnce
    <2> SUFFICES ASSUME IndInv, phase \in {"idle", "completing"} PROVE EveryCallAnsweredOnce
      BY DEF EveryCallAnsweredOnce
    <2> DEFINE found == {i \in DOMAIN messages : messages[i].role = "tool"}
    <2>1. settled = Len(asked)
      <3>1. Len(tool_calls_this_round) = 0
        BY EmptySeq DEF IndInv, CallsInPhase
      <3>2. Len(asked) \in Nat
        BY LenProperties DEF IndInv, TypeOK
      <3>3. QED
        BY <3>1, <3>2 DEF settled
    <2>2. \A id \in 1..Len(asked) : \E i \in found : messages[i].id = id
      BY <2>1 DEF IndInv, CallsSettled
    <2>3. ASSUME NEW i \in found, NEW j \in found, i < j PROVE messages[i].id < messages[j].id
      <3>1. DOMAIN messages = 1..Len(messages)
        BY LenProperties DEF IndInv, TypeOK
      <3>2. i \in 1..(j - 1)
        BY <2>3, <3>1
      <3>3. QED
        BY <2>3, <3>2 DEF IndInv, CallsSettled
    <2>4. QED
      BY <2>2, <2>3 DEF EveryCallAnsweredOnce
  <1>2. QED
    BY Invariance, <1>1, PTL

\* While the audit logger writes what it is given the log has exactly one entry for
\* each call with a result, and it says "denied" exactly of the calls not run.
THEOREM LogTellsWhatRan == Spec => []AuditTellsWhatRan
  <1>1. IndInv => AuditTellsWhatRan
    <2> SUFFICES ASSUME IndInv, logger = "healthy" PROVE AuditTellsWhatRan
      BY DEF AuditTellsWhatRan
    <2>1. DOMAIN audit = 1..Len(audit) /\ Len(audit) \in Nat /\ settled \in Nat /\ Len(asked) \in Nat
      BY LenProperties DEF IndInv, TypeOK, CallsSettled
    <2>2. /\ \A id \in 1..settled : \E i \in DOMAIN audit : audit[i].id = id
          /\ \A i \in DOMAIN audit : EntryTrue(i)
      BY DEF IndInv, LogInStep, EntryTrue
    <2>3. ASSUME NEW id \in 1..Len(asked)
          PROVE  id \in Answered <=> \E i \in DOMAIN audit : audit[i].id = id
      <3>1. id \in Answered <=> id \in 1..settled
        BY DEF IndInv, CallsSettled, Answered
      <3>2. ASSUME NEW i \in DOMAIN audit, audit[i].id = id PROVE id \in 1..settled
        BY <2>1, <2>2, <3>2 DEF EntryTrue
      <3>3. QED
        BY <2>2, <3>1, <3>2
    <2>4. ASSUME NEW i \in DOMAIN audit, NEW j \in DOMAIN audit, i # j, audit[i].id = audit[j].id
          PROVE  audit[i].id = 0
      <3>1. i \in 1..(j - 1) \/ j \in 1..(i - 1)
        BY <2>1, <2>4
      <3>2. QED
        BY <2>2, <2>4, <3>1 DEF EntryTrue
    <2>5. \A i \in DOMAIN audit : audit[i].id # 0 =>
            (audit[i].decision = "Denied" <=> audit[i].id \notin Executed)
      BY <2>2 DEF EntryTrue
    <2>6. QED
      BY <2>3, <2>4, <2>5 DEF AuditTellsWhatRan
  <1>2. QED
    BY Invariance, <1>1, PTL

\* After "allow all" the user is asked about no later call of the session.
THEOREM AllowAllIsRemembered == Spec => []NoPromptAfterAllowAll
  <1>1. IndInv => NoPromptAfterAllowAll
    BY DEF IndInv
  <1>2. QED
    BY Invariance, <1>1, PTL

-----------------------------------------------------------------------------
(* results, one message at a time. *)

\* ids is the function results computes, up to the k-th message.
ResultsUpTo(ids, conversation, k) ==
  ids = [n \in 0..k |->
           IF n = 0 THEN <<>>
           ELSE IF conversation[n].role = "tool" THEN Append(ids[n - 1], conversation[n].id)
           ELSE ids[n - 1]]

\* What one message adds.
With(ids, message) == IF message.role = "tool" THEN Append(ids, message.id) ELSE ids

LEMMA ResultsExist ==
  ASSUME NEW conversation, NEW k \in Nat
  PROVE  \E ids : ResultsUpTo(ids, conversation, k)
<1> DEFINE T == {i \in Nat : \E ids : ResultsUpTo(ids, conversation, i)}
<1>1. 0 \in T
  <2> DEFINE f == [n \in 0..0 |-> <<>>]
  <2>1. ResultsUpTo(f, conversation, 0)
    BY DEF ResultsUpTo
  <2> HIDE DEF f
  <2> QED BY <2>1
<1>2. ASSUME NEW i \in Nat, i \in T PROVE i + 1 \in T
  <2>1. PICK ids : ResultsUpTo(ids, conversation, i)
    BY <1>2
  <2> DEFINE f == [n \in 0..(i + 1) |-> IF n = i + 1 THEN With(ids[i], conversation[i + 1]) ELSE ids[n]]
  <2>2. \A n \in 0..i : ids[n] = IF n = 0 THEN <<>> ELSE With(ids[n - 1], conversation[n])
    BY <2>1 DEF ResultsUpTo, With
  <2>3. \A n \in 0..i : f[n] = ids[n] /\ n # i + 1
    OBVIOUS
  <2>4. f[i + 1] = With(ids[i], conversation[i + 1])
    OBVIOUS
  <2>5. f = [n \in 0..(i + 1) |-> f[n]]
    OBVIOUS
  <2> HIDE DEF f
  <2>6. ASSUME NEW n \in 0..(i + 1)
        PROVE  f[n] = IF n = 0 THEN <<>> ELSE With(f[n - 1], conversation[n])
    <3>1. CASE n = i + 1
      <4>1. n # 0 /\ n - 1 = i /\ i \in 0..i
        BY <3>1
      <4> QED BY <2>3, <2>4, <3>1, <4>1
    <3>2. CASE n \in 0..i
      <4>1. n # 0 => n - 1 \in 0..i
        BY <3>2
      <4> QED BY <2>2, <2>3, <3>2, <4>1
    <3> QED BY <3>1, <3>2
  <2>7. [n \in 0..(i + 1) |-> f[n]] =
          [n \in 0..(i + 1) |-> IF n = 0 THEN <<>> ELSE With(f[n - 1], conversation[n])]
    BY <2>6
  <2>8. ResultsUpTo(f, conversation, i + 1)
    BY <2>5, <2>7 DEF ResultsUpTo, With
  <2> QED BY <2>8
<1> HIDE DEF T
<1>3. Nat \subseteq T
  BY <1>1, <1>2, NaturalsFromZero
<1> QED BY <1>3 DEF T

\* Conversations with the same first k messages have the same results up to there.
LEMMA ResultsSame ==
  ASSUME NEW one, NEW other, NEW k \in Nat, NEW a \in Nat, NEW b \in Nat, k <= a, k <= b,
         \A i \in 1..k : one[i] = other[i],
         NEW f, NEW g, ResultsUpTo(f, one, a), ResultsUpTo(g, other, b)
  PROVE  f[k] = g[k]
<1> DEFINE T == {i \in 0..k : f[i] = g[i]}
<1>1. /\ \A n \in 0..a : f[n] = IF n = 0 THEN <<>> ELSE With(f[n - 1], one[n])
      /\ \A n \in 0..b : g[n] = IF n = 0 THEN <<>> ELSE With(g[n - 1], other[n])
  BY DEF ResultsUpTo, With
<1>2. 0 \in T
  BY <1>1
<1>3. ASSUME NEW i \in 0..(k - 1), i \in T PROVE i + 1 \in T
  <2>1. /\ i + 1 \in 0..a /\ i + 1 \in 0..b /\ i + 1 \in 1..k /\ i + 1 # 0 /\ (i + 1) - 1 = i
        /\ f[i] = g[i] /\ i + 1 \in 0..k
    BY <1>3
  <2>2. f[i + 1] = With(f[i], one[i + 1]) /\ g[i + 1] = With(g[i], other[i + 1])
    BY <1>1, <2>1
  <2> QED BY <2>1, <2>2
<1> HIDE DEF T
<1>4. 0..k \subseteq T
  BY <1>2, <1>3, IntervalFromZero
<1> QED BY <1>4 DEF T

LEMMA ResultsAre ==
  ASSUME NEW conversation, Len(conversation) \in Nat
  PROVE  \E f : ResultsUpTo(f, conversation, Len(conversation)) /\ results(conversation) = f[Len(conversation)]
<1> DEFINE k == Len(conversation)
           f == CHOOSE ids : ids =
                  [n \in 0..Len(conversation) |->
                     IF n = 0 THEN <<>>
                     ELSE IF conversation[n].role = "tool" THEN Append(ids[n - 1], conversation[n].id)
                     ELSE ids[n - 1]]
<1>1. \E ids : ResultsUpTo(ids, conversation, k)
  BY ResultsExist
<1>2. ResultsUpTo(f, conversation, k)
  BY <1>1 DEF ResultsUpTo
<1>3. results(conversation) = f[k]
  BY DEF results
<1> HIDE DEF f
<1> QED BY <1>2, <1>3

LEMMA ResultsEmpty == results(<<>>) = <<>>
<1>1. Len(<<>>) = 0
  BY EmptySeq
<1>2. PICK f : ResultsUpTo(f, <<>>, 0) /\ results(<<>>) = f[0]
  BY <1>1, ResultsAre
<1>3. f[0] = <<>>
  BY <1>2 DEF ResultsUpTo
<1> QED BY <1>2, <1>3

LEMMA ResultsAppend ==
  ASSUME NEW S, NEW conversation \in Seq(S), NEW message \in S
  PROVE  results(Append(conversation, message)) = With(results(conversation), message)
<1> DEFINE more == Append(conversation, message)
           k == Len(conversation)
<1>1. /\ Len(more) = k + 1 /\ k \in Nat
      /\ \A i \in 1..k : more[i] = conversation[i]
      /\ more[k + 1] = message
  BY AppendProperties, LenProperties
<1> HIDE DEF more, k
<1>2. PICK f : ResultsUpTo(f, conversation, k) /\ results(conversation) = f[k]
  BY <1>1, ResultsAre DEF k
<1>3. PICK g : ResultsUpTo(g, more, k + 1) /\ results(more) = g[k + 1]
  BY <1>1, ResultsAre
<1>4. g[k] = f[k]
  BY <1>1, <1>2, <1>3, ResultsSame
<1>5. g[k + 1] = With(g[k], more[k + 1])
  <2>1. k + 1 \in 0..(k + 1) /\ k + 1 # 0 /\ (k + 1) - 1 = k
    BY <1>1
  <2> QED BY <1>3, <2>1 DEF ResultsUpTo, With
<1> QED BY <1>1, <1>2, <1>3, <1>4, <1>5 DEF more

-----------------------------------------------------------------------------
(* The state of the gate. *)

\* The results in the conversation are those of the calls settled, in order.
ResultsInOrder == results(messages) = [i \in 1..settled |-> i]

\* A sequence is the function of its elements.
LEMMA SeqIs ==
  ASSUME NEW S, NEW q \in Seq(S)
  PROVE  q = [i \in 1..Len(q) |-> q[i]] /\ Len(q) \in Nat
BY LenProperties

LEMMA ResultsInOrderInit == Init => ResultsInOrder
<1> SUFFICES ASSUME Init PROVE ResultsInOrder
  OBVIOUS
<1>1. messages = <<>> /\ settled = 0
  BY EmptySeq DEF Init, settled
<1>2. results(messages) = <<>>
  BY <1>1, ResultsEmpty
<1>3. <<>> = [i \in 1..0 |-> i]
  OBVIOUS
<1> QED BY <1>1, <1>2, <1>3 DEF ResultsInOrder

LEMMA ResultsInOrderStep ==
  ASSUME IndInv, ResultsInOrder, [Next]_vars
  PROVE  ResultsInOrder'
<1>1. /\ TypeOK /\ CallsInPhase /\ CallsSettled /\ settled \in Nat
      /\ messages \in Seq([role : {"user", "tool"}, id : Nat])
  BY DEF IndInv, TypeOK, CallsSettled
<1>2. CASE UNCHANGED <<asked, tool_calls_this_round, messages>>
  BY <1>2 DEF ResultsInOrder, settled
<1>3. ASSUME NEW text \in Tasks, StartTask(text) PROVE ResultsInOrder'
  <2> DEFINE message == [role |-> "user", id |-> 0]
  <2>1. messages' = Append(messages, message) /\ settled' = settled
    BY <1>3 DEF StartTask, history, settled
  <2>2. message \in [role : {"user", "tool"}, id : Nat] /\ message.role = "user"
    OBVIOUS
  <2> HIDE DEF message
  <2>3. results(messages') = With(results(messages), message)
    BY <1>1, <2>1, <2>2, ResultsAppend
  <2> QED BY <2>1, <2>2, <2>3 DEF With, ResultsInOrder
<1>4. ASSUME NEW call \in Calls, StreamToolUse(call) PROVE ResultsInOrder'
  <2>1. settled' = settled /\ messages' = messages
    BY <1>1, <1>4, SettledChange DEF StreamToolUse
  <2> QED BY <2>1 DEF ResultsInOrder
<1>5. CASE emit
  <2> DEFINE message == [role |-> "tool", id |-> settled + 1]
             one == [i \in 1..settled |-> i]
  <2>1. Current = settled + 1
    BY <1>1, <1>5, CurrentIsNext DEF emit, AtHand
  <2>2. messages' = Append(messages, message) /\ settled' = settled + 1
    BY <1>1, <1>5, <2>1, SettledChange DEF emit
  <2>3. message \in [role : {"user", "tool"}, id : Nat] /\ message.role = "tool" /\ message.id = settled + 1
    BY <1>1
  <2> HIDE DEF message
  <2>4. results(messages') = With(results(messages), message)
    BY <1>1, <2>2, <2>3, ResultsAppend
  <2>5. results(messages') = Append(one, settled + 1)
    BY <2>3, <2>4 DEF With, ResultsInOrder
  <2>6. one \in Seq(Nat) /\ Len(one) = settled /\ \A i \in 1..settled : one[i] = i
    BY <1>1
  <2> HIDE DEF one
  <2>7. /\ Append(one, settled + 1) \in Seq(Nat) /\ Len(Append(one, settled + 1)) = settled + 1
        /\ \A i \in 1..settled : Append(one, settled + 1)[i] = i
        /\ Append(one, settled + 1)[settled + 1] = settled + 1
    BY <1>1, <2>6, AppendProperties
  <2>8. Append(one, settled + 1) = [i \in 1..(settled + 1) |-> Append(one, settled + 1)[i]]
    BY <2>7, SeqIs
  <2>9. \A i \in 1..(settled + 1) : i \in 1..settled \/ i = settled + 1
    BY <1>1
  <2>10. [i \in 1..(settled + 1) |-> Append(one, settled + 1)[i]] = [i \in 1..(settled + 1) |-> i]
    BY <2>7, <2>9
  <2> QED BY <2>2, <2>5, <2>8, <2>10 DEF ResultsInOrder
<1> QED BY <1>2, <1>3, <1>4, <1>5, CallsChange

LEMMA DoneIs ==
  ASSUME IndInv, ResultsInOrder
  PROVE  Gate_done = [i \in 1..settled |-> [call |-> asked[i], ran |-> i \in Executed]]
<1>1. DOMAIN results(messages) = 1..settled /\ \A i \in 1..settled : results(messages)[i] = i
  BY DEF ResultsInOrder
<1> QED BY <1>1 DEF Gate_done

\* The calls pending, while the session runs.
LEMMA PendingIs ==
  ASSUME TypeOK, phase # "returned"
  PROVE  /\ Gate_pending = [i \in 1..Len(tool_calls_this_round) |-> asked[tool_calls_this_round[i]]]
         /\ Gate_pending \in Seq(Calls) /\ Len(Gate_pending) = Len(tool_calls_this_round)
<1>1. /\ DOMAIN tool_calls_this_round = 1..Len(tool_calls_this_round)
      /\ Len(tool_calls_this_round) \in Nat
      /\ \A i \in 1..Len(tool_calls_this_round) : tool_calls_this_round[i] \in 1..Len(asked)
  BY LenProperties, ElementOfSeq DEF TypeOK
<1>2. \A i \in 1..Len(asked) : asked[i] \in Calls
  BY ElementOfSeq DEF TypeOK
<1>3. Gate_pending = [i \in 1..Len(tool_calls_this_round) |-> asked[tool_calls_this_round[i]]]
  BY <1>1 DEF Gate_pending
<1>4. \A i \in 1..Len(tool_calls_this_round) : asked[tool_calls_this_round[i]] \in Calls
  BY <1>1, <1>2
<1> QED BY <1>1, <1>3, <1>4

-----------------------------------------------------------------------------
(* The steps. *)

LEMMA DoneKept ==
  ASSUME ResultsInOrder, ResultsInOrder', settled' = settled,
         \A i \in 1..settled : asked'[i] = asked[i] /\ (i \in Executed' <=> i \in Executed)
  PROVE  Gate_done' = Gate_done
<1>1. /\ DOMAIN results(messages) = 1..settled /\ \A i \in 1..settled : results(messages)[i] = i
      /\ DOMAIN results(messages') = 1..settled /\ \A i \in 1..settled : results(messages')[i] = i
  BY DEF ResultsInOrder
<1> QED BY <1>1 DEF Gate_done

\* A step that requests and settles nothing leaves the gate alone, or ends the session.
LEMMA QuietStep ==
  ASSUME UNCHANGED <<asked, tool_calls_this_round, mode>>, SaidAllowAll' = SaidAllowAll,
         Gate_done' = Gate_done, phase # "returned"
  PROVE  ToolGateSpec!Close \/ UNCHANGED ToolGateSpec!gate
<1>1. Gate_consent' = Gate_consent
  BY DEF Gate_consent
<1>2. CASE phase' = "returned"
  <2>1. Gate_pending' = <<>>
    BY <1>2 DEF Gate_pending
  <2> QED BY <1>1, <1>2, <2>1 DEF ToolGateSpec!Close
<1>3. CASE phase' # "returned"
  <2>1. Gate_pending' = Gate_pending
    BY <1>3 DEF Gate_pending
  <2> QED BY <1>1, <1>3, <2>1 DEF ToolGateSpec!gate
<1> QED BY <1>2, <1>3

\* A tool call in the stream is a request.
LEMMA StreamToolUseRequests ==
  ASSUME IndInv, ResultsInOrder, ResultsInOrder', NEW call \in Calls, StreamToolUse(call)
  PROVE  ToolGateSpec!Request(call)
<1> DEFINE calls == tool_calls_this_round
<1>1. /\ phase = "streaming" /\ phase' = "streaming" /\ answers' = answers /\ mode' = mode
      /\ asked' = Append(asked, call) /\ calls' = Append(calls, Len(asked) + 1)
      /\ executed' = executed
  BY DEF StreamToolUse, session
<1>2. /\ TypeOK /\ settled \in Nat /\ settled' = settled
      /\ Len(asked) \in Nat /\ Len(calls) \in Nat /\ settled <= Len(asked)
  <2>1. settled' = settled /\ TypeOK
    <3>1. [Next]_vars
      BY DEF Next, Provider
    <3> QED BY <3>1, SettledChange DEF IndInv
  <2> QED BY <2>1, LenProperties DEF IndInv, TypeOK, CallsSettled, settled
<1>3. /\ Len(asked') = Len(asked) + 1
      /\ \A i \in 1..Len(asked) : asked'[i] = asked[i]
      /\ asked'[Len(asked) + 1] = call
  BY <1>1, <1>2, AppendProperties DEF TypeOK
<1>4. /\ DOMAIN calls = 1..Len(calls) /\ DOMAIN calls' = 1..(Len(calls) + 1)
      /\ \A i \in 1..Len(calls) : calls'[i] = calls[i] /\ calls[i] \in 1..Len(asked)
      /\ calls'[Len(calls) + 1] = Len(asked) + 1
  <2>1. calls \in Seq(1..Len(asked)) /\ calls \in Seq(Nat)
    BY <1>2, SeqMonotonic DEF TypeOK
  <2>2. /\ calls' \in Seq(Nat) /\ Len(calls') = Len(calls) + 1
        /\ \A i \in 1..Len(calls) : calls'[i] = calls[i]
        /\ calls'[Len(calls) + 1] = Len(asked) + 1
    BY <1>1, <1>2, <2>1, AppendProperties
  <2> QED BY <2>1, <2>2, LenProperties, ElementOfSeq
<1>5. Gate_pending' = Append(Gate_pending, call)
  <2>1. /\ Gate_pending = [i \in 1..Len(calls) |-> asked[calls[i]]]
        /\ Gate_pending \in Seq(Calls) /\ Len(Gate_pending) = Len(calls)
    BY <1>1, <1>2, PendingIs
  <2>2. /\ Append(Gate_pending, call) \in Seq(Calls)
        /\ Len(Append(Gate_pending, call)) = Len(calls) + 1
        /\ \A i \in 1..Len(calls) : Append(Gate_pending, call)[i] = Gate_pending[i]
        /\ Append(Gate_pending, call)[Len(calls) + 1] = call
    BY <2>1, AppendProperties
  <2>3. Append(Gate_pending, call) = [i \in 1..(Len(calls) + 1) |-> Append(Gate_pending, call)[i]]
    BY <2>2, SeqIs
  <2>4. Gate_pending' = [i \in 1..(Len(calls) + 1) |-> asked'[calls'[i]]]
    BY <1>1, <1>4 DEF Gate_pending
  <2>5. \A i \in 1..(Len(calls) + 1) : asked'[calls'[i]] = Append(Gate_pending, call)[i]
    <3> SUFFICES ASSUME NEW i \in 1..(Len(calls) + 1)
                 PROVE  asked'[calls'[i]] = Append(Gate_pending, call)[i]
      OBVIOUS
    <3>1. CASE i \in 1..Len(calls)
      <4>1. asked'[calls'[i]] = asked[calls[i]]
        BY <1>3, <1>4, <3>1
      <4> QED BY <2>1, <2>2, <3>1, <4>1
    <3>2. CASE i = Len(calls) + 1
      <4>1. calls'[i] = Len(asked) + 1
        BY <1>4, <3>2
      <4>2. asked'[calls'[i]] = call
        BY <1>3, <4>1
      <4>3. Append(Gate_pending, call)[i] = call
        BY <2>2, <3>2
      <4> QED BY <4>2, <4>3
    <3>3. i \in 1..Len(calls) \/ i = Len(calls) + 1
      BY <1>2
    <3> QED BY <3>1, <3>2, <3>3
  <2> QED BY <2>3, <2>4, <2>5
<1>6. Gate_done' = Gate_done
  <2>1. \A i \in 1..settled : i \in 1..Len(asked)
    BY <1>2
  <2> QED BY <1>1, <1>2, <1>3, <2>1, DoneKept DEF Executed
<1>7. Gate_consent' = Gate_consent
  BY <1>1 DEF Gate_consent, SaidAllowAll
<1> QED BY <1>1, <1>5, <1>6, <1>7 DEF ToolGateSpec!Request

\* The first pending call is the one at hand.
LEMMA HeadIsCurrent ==
  ASSUME IndInv, AtHand
  PROVE  /\ Gate_pending # <<>> /\ Head(Gate_pending) = asked[Current]
         /\ Gate_pending \in Seq(Calls) /\ Len(Gate_pending) = Len(tool_calls_this_round)
         /\ Len(Gate_pending) \in Nat \ {0}
<1>1. /\ TypeOK /\ CallsInPhase /\ phase # "returned"
  BY DEF IndInv, AtHand
<1>2. /\ Current = tool_calls_this_round[1] /\ 1 \in DOMAIN tool_calls_this_round
      /\ DOMAIN tool_calls_this_round = 1..Len(tool_calls_this_round)
      /\ Len(tool_calls_this_round) \in Nat
  BY <1>1, CurrentType, LenProperties DEF TypeOK
<1>3. /\ Gate_pending = [i \in 1..Len(tool_calls_this_round) |-> asked[tool_calls_this_round[i]]]
      /\ Gate_pending \in Seq(Calls) /\ Len(Gate_pending) = Len(tool_calls_this_round)
  BY <1>1, PendingIs
<1>4. Len(Gate_pending) \in Nat \ {0} /\ Gate_pending[1] = asked[Current]
  BY <1>2, <1>3
<1>5. Gate_pending # <<>> /\ Head(Gate_pending) = Gate_pending[1]
  BY <1>3, <1>4, EmptySeq, HeadTailProperties
<1> QED BY <1>3, <1>4, <1>5

\* "allow all" at the prompt.
LEMMA AllowAllAnswered ==
  ASSUME IndInv, ResultsInOrder, ResultsInOrder', request_approval("AllowAll")
  PROVE  ToolGateSpec!AllowAll
<1>1. /\ phase = "asking" /\ phase' = "executing" /\ mode' = mode /\ AtHand
      /\ answers' = answers \cup {<<Current, "AllowAll">>}
      /\ UNCHANGED <<asked, tool_calls_this_round, executed>>
  BY DEF request_approval, session, AtHand
<1>2. mode = "Interactive" /\ ~SaidAllowAll
  BY <1>1 DEF IndInv, UserAsked
<1>3. SaidAllowAll'
  <2>1. <<Current, "AllowAll">>[2] = "AllowAll"
    OBVIOUS
  <2> QED BY <1>1, <2>1 DEF SaidAllowAll
<1>4. Gate_consent = "each" /\ Gate_consent' = "all"
  BY <1>2, <1>3 DEF Gate_consent
<1>5. Gate_pending # <<>> /\ JudgeCall(Head(Gate_pending)) = "Ask"
  <2>1. asked[Current].name \in Registry /\ Decision(Current) = "Ask"
    BY <1>1 DEF IndInv, CallAtHand
  <2>2. JudgeCall(asked[Current]) = "Ask"
    BY <2>1 DEF JudgeCall, Decision
  <2> QED BY <1>1, <2>2, HeadIsCurrent
<1>6. Gate_pending' = Gate_pending
  BY <1>1 DEF Gate_pending
<1>7. Gate_done' = Gate_done
  BY <1>1, DoneKept DEF settled, Executed
<1> QED BY <1>1, <1>4, <1>5, <1>6, <1>7 DEF ToolGateSpec!AllowAll

\* A result in the conversation settles the first pending call as it was decided.
LEMMA EmitSettles ==
  ASSUME IndInv, ResultsInOrder, ResultsInOrder', emit
  PROVE  ToolGateSpec!Settle
<1> DEFINE call == asked[Current]
           ran == Current \in Executed
<1>1. /\ phase = "emitting" /\ AtHand /\ mode' = mode
      /\ tool_calls_this_round' = Tail(tool_calls_this_round)
      /\ UNCHANGED <<asked, executed, answers>>
  BY DEF emit, AfterEmit, session, history, AtHand
<1>2. phase' # "returned"
  BY DEF emit, AfterEmit
<1>3. /\ settled \in Nat /\ Current = settled + 1 /\ settled' = settled + 1
      /\ TypeOK /\ CallsInPhase
  <2>1. [Next]_vars
    BY DEF Next, Agent
  <2> QED BY <1>1, <2>1, CurrentIsNext, SettledChange DEF IndInv
<1>4. /\ Gate_pending # <<>> /\ Head(Gate_pending) = call
      /\ Gate_pending \in Seq(Calls) /\ Len(Gate_pending) = Len(tool_calls_this_round)
      /\ Len(Gate_pending) \in Nat \ {0}
  BY <1>1, HeadIsCurrent
<1>5. Gate_consent' = Gate_consent
  BY <1>1 DEF Gate_consent, SaidAllowAll
<1>6. ran \in ToolGateSpec!Runs(call)
  <2>1. Decision(Current) \in {"Allow", "Ask", "Deny"}
    BY DecisionType DEF Decision, Decisions
  <2>2. /\ call.name \in Registry => JudgeCall(call) = Decision(Current)
        /\ call.name \notin Registry => JudgeCall(call) = "Deny"
    BY DEF JudgeCall, Decision
  <2>3. mode \in {"AutoDeny", "Interactive", "AutoAllow"}
    BY <1>3 DEF TypeOK
  <2>4. ran => /\ call.name \in Registry
               /\ Decision(Current) = "Allow" \/ (Decision(Current) = "Ask" /\ Gate_consent # "none")
    <3> SUFFICES ASSUME ran PROVE /\ call.name \in Registry
                                  /\ \/ Decision(Current) = "Allow"
                                     \/ Decision(Current) = "Ask" /\ Gate_consent # "none"
      OBVIOUS
    <3>1. Permitted(Current)
      BY DEF Executed, IndInv, ExecutedOnlyIfPermitted
    <3>2. Consented(Current) => mode # "AutoDeny"
      BY DEF Consented, IndInv, UserAsked
    <3>3. mode # "AutoDeny" => Gate_consent # "none"
      BY DEF Gate_consent
    <3> QED BY <3>1, <3>2, <3>3 DEF Permitted
  <2>5. ~ran => ~ /\ call.name \in Registry
                  /\ \/ Decision(Current) = "Allow"
                     \/ Decision(Current) = "Ask" /\ Gate_consent = "all"
    <3>1. Gate_consent = "all" => mode = "AutoAllow" \/ SaidAllowAll
      BY DEF Gate_consent
    <3> QED BY <1>1, <3>1 DEF IndInv, RefusedForCause
  <2>6. Gate_consent \in {"none", "each", "all"} /\ ran \in BOOLEAN
    BY DEF Gate_consent
  <2> HIDE DEF ran, call
  <2>7. CASE JudgeCall(call) = "Allow"
    <3>1. ran = TRUE
      BY <2>1, <2>2, <2>5, <2>6, <2>7
    <3> QED BY <2>7, <3>1 DEF ToolGateSpec!Runs
  <2>8. CASE JudgeCall(call) = "Deny"
    <3>1. ran = FALSE
      BY <2>1, <2>2, <2>4, <2>6, <2>8
    <3> QED BY <2>8, <3>1 DEF ToolGateSpec!Runs
  <2>9. CASE JudgeCall(call) = "Ask" /\ Gate_consent = "none"
    <3>1. ran = FALSE
      BY <2>1, <2>2, <2>4, <2>6, <2>9
    <3> QED BY <2>9, <3>1 DEF ToolGateSpec!Runs
  <2>10. CASE JudgeCall(call) = "Ask" /\ Gate_consent = "each"
    BY <2>6, <2>10 DEF ToolGateSpec!Runs
  <2>11. CASE JudgeCall(call) = "Ask" /\ Gate_consent = "all"
    <3>1. ran = TRUE
      BY <2>1, <2>2, <2>5, <2>6, <2>11
    <3> QED BY <2>11, <3>1 DEF ToolGateSpec!Runs
  <2> QED BY <2>1, <2>2, <2>6, <2>7, <2>8, <2>9, <2>10, <2>11
<1>7. Gate_pending' = Tail(Gate_pending)
  <2> DEFINE calls == tool_calls_this_round
             rest == Tail(calls)
  <2>1. /\ rest \in Seq(1..Len(asked)) /\ Len(rest) = Len(calls) - 1
        /\ \A i \in DOMAIN rest : rest[i] = calls[i + 1]
    BY <1>1, <1>3, CurrentType
  <2>2. DOMAIN rest = 1..Len(rest) /\ Len(calls) \in Nat
    BY <1>4, <2>1, LenProperties
  <2>3. \A i \in 1..Len(calls) : Gate_pending[i] = asked[calls[i]]
    <3>1. Gate_pending = [i \in 1..Len(calls) |-> asked[calls[i]]]
      BY <1>1, <1>3, PendingIs
    <3> QED BY <3>1
  <2>4. /\ Tail(Gate_pending) \in Seq(Calls) /\ Len(Tail(Gate_pending)) = Len(calls) - 1
        /\ \A i \in 1..(Len(calls) - 1) : Tail(Gate_pending)[i] = Gate_pending[i + 1]
    BY <1>4, HeadTailProperties
  <2>5. Tail(Gate_pending) = [i \in 1..(Len(calls) - 1) |-> Tail(Gate_pending)[i]]
    BY <2>4, SeqIs
  <2>6. Gate_pending' = [i \in 1..(Len(calls) - 1) |-> asked[rest[i]]]
    BY <1>1, <1>2, <2>1, <2>2 DEF Gate_pending
  <2>7. \A i \in 1..(Len(calls) - 1) : asked[rest[i]] = Tail(Gate_pending)[i]
    <3> SUFFICES ASSUME NEW i \in 1..(Len(calls) - 1) PROVE asked[rest[i]] = Tail(Gate_pending)[i]
      OBVIOUS
    <3>1. i + 1 \in 1..Len(calls) /\ i \in DOMAIN rest
      BY <2>1, <2>2
    <3>2. rest[i] = calls[i + 1]
      BY <2>1, <3>1
    <3> HIDE DEF rest, calls
    <3> QED BY <2>3, <2>4, <3>1, <3>2
  <2> HIDE DEF rest, calls
  <2> QED BY <2>5, <2>6, <2>7
<1>8. Gate_done' = Append(Gate_done, [call |-> call, ran |-> ran])
  <2> DEFINE entry(i) == [call |-> asked[i], ran |-> i \in Executed]
             more == Append(Gate_done, entry(settled + 1))
  <2>1. Gate_done = [i \in 1..settled |-> entry(i)]
    BY DoneIs
  <2>2. Gate_done' = [i \in 1..(settled + 1) |-> entry(i)]
    <3>1. /\ DOMAIN results(messages') = 1..(settled + 1)
          /\ \A i \in 1..(settled + 1) : results(messages')[i] = i
      BY <1>3 DEF ResultsInOrder
    <3>2. Executed' = Executed
      BY <1>1 DEF Executed
    <3> QED BY <1>1, <3>1, <3>2 DEF Gate_done
  <2> DEFINE S == {entry(i) : i \in Nat}
  <2>3. Gate_done \in Seq(S) /\ Len(Gate_done) = settled /\ entry(settled + 1) \in S
    <3>1. \A i \in Nat : entry(i) \in S
      OBVIOUS
    <3> HIDE DEF S, entry
    <3> QED BY <1>3, <2>1, <3>1
  <2>4. \A i \in 1..settled : Gate_done[i] = entry(i)
    BY <2>1
  <2> HIDE DEF S, entry
  <2>5. /\ more \in Seq(S) /\ Len(more) = settled + 1
        /\ \A i \in 1..settled : more[i] = Gate_done[i]
        /\ more[settled + 1] = entry(settled + 1)
    BY <1>3, <2>3, AppendProperties
  <2> HIDE DEF more
  <2>6. more = [i \in 1..(settled + 1) |-> more[i]]
    BY <2>5, SeqIs
  <2>7. \A i \in 1..(settled + 1) : more[i] = entry(i)
    <3>1. \A i \in 1..(settled + 1) : i \in 1..settled \/ i = settled + 1
      BY <1>3
    <3> QED BY <2>4, <2>5, <3>1
  <2>8. Gate_done' = more
    BY <2>2, <2>6, <2>7
  <2> QED BY <1>3, <2>8 DEF more, entry
<1> HIDE DEF ran, call
<1>9. Gate_done' = Append(Gate_done, [call |-> Head(Gate_pending), ran |-> ran])
  BY <1>4, <1>8
<1> QED BY <1>1, <1>2, <1>4, <1>5, <1>6, <1>7, <1>9 DEF ToolGateSpec!Settle

\* Starting a task, the provider's answers, a decision, the user's yes or no to one
\* call and the run of a tool request and settle nothing.
LEMMA QuietSteps ==
  ASSUME IndInv, ResultsInOrder, ResultsInOrder',
         \/ \E text \in Tasks : StartTask(text)
         \/ Complete \/ StreamError \/ StreamEnd \/ dispatch_tool_call \/ Exit
         \/ \E answer \in Answers \ {"AllowAll"} : request_approval(answer)
         \/ \E result \in {"Ok", "IsError", "Err"} : ExecuteTool(result)
  PROVE  ToolGateSpec!Close \/ UNCHANGED ToolGateSpec!gate
<1> USE DEF session, task, history
<1>1. phase # "returned" /\ UNCHANGED <<asked, tool_calls_this_round, mode>>
  BY DEF StartTask, Complete, StreamError, StreamEnd, dispatch_tool_call, Exit, request_approval,
         ExecuteTool
<1>2. SaidAllowAll' = SaidAllowAll
  <2>1. ASSUME NEW answer \in Answers \ {"AllowAll"}, request_approval(answer)
        PROVE  SaidAllowAll' = SaidAllowAll
    <3>1. answers' = answers \cup {<<Current, answer>>} /\ <<Current, answer>>[2] # "AllowAll"
      BY <2>1 DEF request_approval
    <3> QED BY <3>1 DEF SaidAllowAll
  <2>2. ASSUME answers' = answers PROVE SaidAllowAll' = SaidAllowAll
    BY <2>2 DEF SaidAllowAll
  <2> QED BY <2>1, <2>2 DEF StartTask, Complete, StreamError, StreamEnd, dispatch_tool_call, Exit,
                            ExecuteTool
<1>3. \A i \in 1..settled : i \in Executed' <=> i \in Executed
  <2>1. ASSUME NEW result \in {"Ok", "IsError", "Err"}, ExecuteTool(result)
        PROVE  \A i \in 1..settled : i \in Executed' <=> i \in Executed
    <3>1. TypeOK /\ CallsInPhase /\ CallsSettled /\ AtHand
      BY <2>1 DEF IndInv, ExecuteTool, AtHand
    <3>2. settled \in Nat /\ Executed' = Executed \cup {settled + 1}
      BY <2>1, <3>1, CurrentIsNext, ExecuteToolRuns
    <3>3. \A i \in 1..settled : i # settled + 1
      BY <3>2
    <3> QED BY <3>2, <3>3
  <2>2. ASSUME executed' = executed
        PROVE  \A i \in 1..settled : i \in Executed' <=> i \in Executed
    BY <2>2 DEF Executed
  <2> QED BY <2>1, <2>2 DEF StartTask, Complete, StreamError, StreamEnd, dispatch_tool_call, Exit,
                            request_approval
<1>4. settled' = settled
  BY <1>1 DEF settled
<1>5. Gate_done' = Gate_done
  BY <1>1, <1>3, <1>4, DoneKept
<1> QED BY <1>1, <1>2, <1>5, QuietStep

LEMMA GateStep ==
  ASSUME IndInv, ResultsInOrder, ResultsInOrder', [Next]_vars
  PROVE  [ToolGateSpec!Next]_(ToolGateSpec!gate)
<1>1. ASSUME NEW call \in Calls, StreamToolUse(call) PROVE ToolGateSpec!Next
  BY <1>1, StreamToolUseRequests DEF ToolGateSpec!Next
<1>2. ASSUME request_approval("AllowAll") PROVE ToolGateSpec!Next
  BY <1>2, AllowAllAnswered DEF ToolGateSpec!Next
<1>3. ASSUME emit PROVE ToolGateSpec!Next
  BY <1>3, EmitSettles DEF ToolGateSpec!Next
<1>4. CASE UNCHANGED vars
  BY <1>4 DEF vars, ToolGateSpec!gate, Gate_consent, SaidAllowAll, Gate_pending, Gate_done, Executed
<1>5. ASSUME \/ \E text \in Tasks : StartTask(text)
             \/ Complete \/ StreamError \/ StreamEnd \/ dispatch_tool_call \/ Exit
             \/ \E answer \in Answers \ {"AllowAll"} : request_approval(answer)
             \/ \E result \in {"Ok", "IsError", "Err"} : ExecuteTool(result)
      PROVE  ToolGateSpec!Close \/ UNCHANGED ToolGateSpec!gate
  BY <1>5, QuietSteps
<1>6. ToolGateSpec!Close => ToolGateSpec!Next
  BY DEF ToolGateSpec!Next
<1>7. \/ \E call \in Calls : StreamToolUse(call)
      \/ request_approval("AllowAll") \/ emit \/ UNCHANGED vars
      \/ \E text \in Tasks : StartTask(text)
      \/ Complete \/ StreamError \/ StreamEnd \/ dispatch_tool_call \/ Exit
      \/ \E answer \in Answers \ {"AllowAll"} : request_approval(answer)
      \/ \E result \in {"Ok", "IsError", "Err"} : ExecuteTool(result)
  BY GateAnswers DEF Next, Provider, Tool, Agent, User, Terminated
<1> QED BY <1>1, <1>2, <1>3, <1>4, <1>5, <1>6, <1>7

\* The results in the conversation are those of the calls settled so far, in order.
THEOREM ConversationInOrder == Spec => []ResultsInOrder
<1>1. IndInv /\ ResultsInOrder /\ [Next]_vars => ResultsInOrder'
  BY ResultsInOrderStep
<1> QED BY <1>1, ResultsInOrderInit, Invariance, PTL DEF Spec

\* ImplementsToolGate: whatever the mode, the permissions, the answers of the user
\* and the failures of providers, tools and log, the calls of a session are settled
\* one at a time, in the order requested, each run or refused as its decision and
\* the consent given so far say.
THEOREM Refinement == Spec => ImplementsToolGate
<1>1. Init => ToolGateSpec!Init
  <2> SUFFICES ASSUME Init PROVE ToolGateSpec!Init
    OBVIOUS
  <2>1. Gate_consent \in {"none", "each", "all"}
    BY DEF Gate_consent
  <2>2. Gate_pending = <<>>
    BY DEF Init, Gate_pending
  <2>3. Gate_done = <<>>
    BY ResultsEmpty DEF Init, Gate_done
  <2>4. (phase # "returned") = TRUE
    BY DEF Init
  <2> QED BY <2>1, <2>2, <2>3, <2>4 DEF ToolGateSpec!Init
<1>2. IndInv /\ ResultsInOrder /\ ResultsInOrder' /\ [Next]_vars => [ToolGateSpec!Next]_(ToolGateSpec!gate)
  BY GateStep
<1> QED BY <1>1, <1>2, ConversationInOrder, Invariance, PTL
        DEF Spec, ImplementsToolGate, ToolGateSpec!Spec

=============================================================================
