------------------------------ MODULE Preflight ------------------------------
(***************************************************************************)
(* Execution contracts and their preflight (crates/sc-contract): a contract*)
(* file with fields left out is completed with fail-closed defaults        *)
(* (lib.rs), and a proposed plan is evaluated against the result without   *)
(* executing anything (preflight.rs).                                      *)
(*                                                                         *)
(* A field of a raw contract is an option: {} when the file leaves it out, *)
(* {v} when it says v.  A policy with a list is a record [is, list].  The  *)
(* limits (max_runtime and the like) are not read by preflight and left    *)
(* out.  A text is "blank" or not.                                         *)
(*                                                                         *)
(* A path is the sequence of its "/"-separated segments, an absolute one   *)
(* starting with "".  A path pattern is a record                           *)
(*   [anywhere : it starts with "**/", root : the segments left when       *)
(*    pattern_root has trimmed it, prefix : it ends with a bare "*"].      *)
(***************************************************************************)
EXTENDS Naturals, Sequences, FiniteSets

CONSTANT StartsWith   \* <<segment, prefix>>: the text of the segment starts with that prefix

PlainPolicy(kind)  == [is |-> kind, list |-> {}]
AllowList(allowed) == [is |-> "AllowList", list |-> allowed]

Pattern(anywhere, root, prefix) == [anywhere |-> anywhere, root |-> root, prefix |-> prefix]

default_denied_paths ==
  {Pattern(FALSE, <<"~", dir>>, FALSE) : dir \in {".ssh", ".aws", ".gnupg"}}
  \cup {Pattern(TRUE, <<dir>>, FALSE) : dir \in {".git", "node_modules", "target"}}
  \cup {Pattern(TRUE, <<".env">>, TRUE)}

unwrap_or(field, default) == IF field = {} THEN default ELSE CHOOSE v \in field : TRUE

\* What into_contract puts in the place of a field the file leaves out.
DefaultsTrusting ==
  [allowed_tools   |-> {},                       denied_tools       |-> {},
   allowed_paths   |-> {},                       denied_paths       |-> default_denied_paths,
   network_policy  |-> PlainPolicy("Deny"),      provider_policy    |-> PlainPolicy("Any"),
   model_policy    |-> AllowList({}),            data_boundary      |-> "CloudAllowed",
   commit_policy   |-> "Never",                  push_policy        |-> "Never",
   approvals_required |-> PlainPolicy("All")]

Defaults ==
  [allowed_tools   |-> {},                       denied_tools       |-> {},
   allowed_paths   |-> {},                       denied_paths       |-> default_denied_paths,
   network_policy  |-> PlainPolicy("Deny"),      provider_policy    |-> PlainPolicy("LocalOnly"),
   model_policy    |-> AllowList({}),            data_boundary      |-> "LocalOnly",
   commit_policy   |-> "Never",                  push_policy        |-> "Never",
   approvals_required |-> PlainPolicy("All")]

CURRENT_SCHEMA_VERSION == 1

\* The fields no value is guessed for.
TextFields == {"task_id", "task", "worker", "workspace"}
Required   == TextFields \cup {"schema_version"}

into_contract(raw) ==
  [field \in DOMAIN Defaults \cup Required |->
     IF field \in Required THEN CHOOSE v \in raw[field] : TRUE ELSE unwrap_or(raw[field], Defaults[field])]

validate_contract(contract) ==
  contract.schema_version = CURRENT_SCHEMA_VERSION /\ \A text \in TextFields : contract[text] # "blank"

\* ExecutionContract::parse: one contract, or none.
parse(raw) ==
  IF \E field \in Required : raw[field] = {} THEN {}
  ELSE {contract \in {into_contract(raw)} : validate_contract(contract)}

-----------------------------------------------------------------------------
is_under_root(root, path) ==
  root # <<>> /\ Len(root) <= Len(path) /\ SubSeq(path, 1, Len(root)) = root

matches_at_any_depthFromStart(root, path, filename_prefix) ==
  /\ root # <<>>
  /\ IF filename_prefix THEN Len(root) = 1 /\ <<path[1], root[1]>> \in StartsWith
                        ELSE is_under_root(root, path)

\* A root of several segments is never the prefix of a single component.
matches_at_any_depth(root, path, filename_prefix) ==
  /\ root # <<>>
  /\ \E start \in DOMAIN path :
       IF filename_prefix THEN Len(root) = 1 /\ <<path[start], root[1]>> \in StartsWith
                          ELSE is_under_root(root, SubSeq(path, start, Len(path)))

path_matches(pattern, path) ==
  IF pattern.anywhere THEN matches_at_any_depth(pattern.root, path, pattern.prefix)
                      ELSE is_under_root(pattern.root, path)

CoveredBy(patterns, path) == \E pattern \in patterns : path_matches(pattern, path)

Violation(category, subject) == [category |-> category, subject |-> subject]

Violations(category, subjects) == {Violation(category, s) : s \in subjects}

check_tools(plan, contract) ==
  LET denied == plan.tools_needed \cap contract.denied_tools
  IN  Violations("tool_denied", denied)
      \cup Violations("tool_not_allowed", plan.tools_needed \ (denied \cup contract.allowed_tools))

check_paths(plan, contract) ==
  LET denied  == {p \in plan.files_to_change : CoveredBy(contract.denied_paths, p)}
      covered == {p \in plan.files_to_change : CoveredBy(contract.allowed_paths, p)}
  IN  Violations("path_denied", denied)
      \cup Violations("path_not_allowed", plan.files_to_change \ (denied \cup covered))

LOCAL_PROVIDER_NAMES == {"ollama", "local"}
LOCAL_HOSTS          == {"localhost", "127.0.0.1", "::1"}

is_cloud_data_transferByProvider(plan) == plan.provider \notin LOCAL_PROVIDER_NAMES

\* A plan that names no provider counts as using a cloud one.
is_cloud_data_transfer(plan) ==
  \/ plan.provider \notin LOCAL_PROVIDER_NAMES
  \/ ~(plan.network_hosts_needed \subseteq LOCAL_HOSTS)

check_network(plan, contract) ==
  LET needed == plan.network_hosts_needed
      policy == contract.network_policy
  IN  CASE policy.is = "Deny"      -> IF needed = {} THEN {} ELSE {Violation("network_denied", "plan")}
        [] policy.is = "AllowList" -> Violations("network_not_allowed", needed \ policy.list)
        [] policy.is = "Allow"     -> {}

check_provider(plan, contract) ==
  LET policy  == contract.provider_policy
      refused == CASE policy.is = "LocalOnly" -> plan.provider \notin LOCAL_PROVIDER_NAMES
                   [] policy.is = "AllowList" -> plan.provider \notin policy.list
                   [] policy.is = "Any"       -> FALSE
  IN  IF plan.provider # "" /\ refused THEN {Violation("provider_not_allowed", plan.provider)} ELSE {}

check_model(plan, contract) ==
  IF /\ plan.model # "" /\ contract.model_policy.is = "AllowList"
     /\ plan.model \notin contract.model_policy.list
  THEN {Violation("model_not_allowed", plan.model)} ELSE {}

check_data_boundary(plan, contract) ==
  IF is_cloud_data_transfer(plan) /\ contract.data_boundary = "LocalOnly"
  THEN {Violation("data_boundary_violation", "plan")} ELSE {}

\* What a commit or push policy says of a plan that expects n of them.
Gate(policy, n, denied) ==
  IF n > 0 /\ policy = "Never" THEN {Violation(denied, "plan")} ELSE {}

check_commits_and_pushes(plan, contract) ==
  Gate(contract.commit_policy, plan.estimated_commits, "commit_denied")
  \cup Gate(contract.push_policy, plan.estimated_pushes, "push_denied")

NeedsApproval(policy, n, action) ==
  IF n > 0 /\ policy = "ApprovalRequired" THEN {action} ELSE {}

collect_approval_scope(contract) ==
  LET scope == contract.approvals_required
  IN  IF scope.is = "All" THEN {"all_actions"} ELSE scope.list

approvals_required(plan, contract) ==
  NeedsApproval(contract.commit_policy, plan.estimated_commits, "commit")
  \cup NeedsApproval(contract.push_policy, plan.estimated_pushes, "push")
  \cup collect_approval_scope(contract)
  \cup (IF plan.new_dependencies # {} THEN {"new_dependencies"} ELSE {})

\* Low, Medium, High and Critical, in their order.
compute_risk_level(violations, cloud_data_transfer_detected) ==
  CASE violations = {}             -> IF cloud_data_transfer_detected THEN 1 ELSE 0
    [] Cardinality(violations) = 1 -> 2
    [] OTHER                       -> 3

preflight(plan, contract) ==
  LET violations == check_tools(plan, contract) \cup check_paths(plan, contract)
                    \cup check_network(plan, contract) \cup check_provider(plan, contract)
                    \cup check_model(plan, contract) \cup check_data_boundary(plan, contract)
                    \cup check_commits_and_pushes(plan, contract)
  IN  [passed             |-> violations = {},
       risk_level         |-> compute_risk_level(violations, is_cloud_data_transfer(plan)),
       approvals_required |-> approvals_required(plan, contract)]
=============================================================================
