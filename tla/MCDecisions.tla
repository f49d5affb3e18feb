----------------------------- MODULE MCDecisions -----------------------------
(***************************************************************************)
(* The decisions of DecisionEdits and the algorithms of MCAlgorithms over  *)
(* all their small inputs, and the tools at work of MCWorkspace.           *)
(***************************************************************************)
EXTENDS MCWorkspace, MCAlgorithms, DecisionEdits

vars == <<case_vars, ws_vars>>

-----------------------------------------------------------------------------
(* Permissions. *)

MCCalls     == {"read_file", "write_file", "web"} \X {t1, t2, none}
MCEntryKeys == {{}, {"file"}, {"write_file"}, {"file", "write_file"}, {"web"}}
-----------------------------------------------------------------------------
(* Routing. *)

Models       == {"m", "default"}
Rule         == [match_contains : {{"code"}, {"code", "mail"}}, provider : {"ollama", "nvidia", "custom"}, model : Models]
MCRegistries == {<<>>, <<"custom">>, <<"ollama", "nvidia">>, <<"nvidia", "ollama", "custom">>}
MCRuleLists  == {<<>>} \cup {<<r>> : r \in Rule} \cup {<<r, s>> : r, s \in Rule}
MCFallbacks  == [provider : {"", "ollama", "nvidia"}, model : Models]
MCTasks      == SUBSET {"code", "mail"} \cup {{"research"}, {"code", "research"}}
-----------------------------------------------------------------------------
(* Contracts, fully written, and plans. *)

MCStartsWith == {<<".env", ".env">>, <<".env.local", ".env">>}

WrittenContracts ==
  [allowed_tools   : {{{"file_read", "shell"}}},
   denied_tools    : {{{"shell"}}},
   allowed_paths   : {{{Pattern(FALSE, <<"", "w">>, FALSE)}}, {{Pattern(TRUE, <<"lib.rs">>, FALSE)}}},
   denied_paths    : {{{}}, {{Pattern(FALSE, <<"", "w", "secret">>, FALSE)}}},
   network_policy  : {{PlainPolicy("Deny")}, {PlainPolicy("Allow")}, {AllowList({"localhost", "api"})}},
   provider_policy : {{PlainPolicy("LocalOnly")}, {PlainPolicy("Any")}, {AllowList({"nvidia"})}},
   model_policy    : {{PlainPolicy("Any")}},
   data_boundary   : {{"LocalOnly"}, {"CloudAllowed"}},
   commit_policy   : {{"ApprovalRequired"}, {"Auto"}},
   push_policy     : {{"Auto"}},
   approvals_required : {{PlainPolicy("None")}, {AllowList({"network"})}},
   schema_version  : {{1}}, task_id : {{"t"}}, task : {{"t"}}, worker : {{"t"}}, workspace : {{"t"}}]

\* Contracts of another version, or with a blank text.
Unusable ==
  LET contract == CHOOSE c \in WrittenContracts : TRUE
  IN  {[contract EXCEPT !.schema_version = {2}], [contract EXCEPT !.worker = {"blank"}]}

MCContracts == WrittenContracts \cup Unusable

Files == {<<"", "w", "lib.rs">>, <<"", "w", "secret", "lib.rs">>, <<"", "w", ".git", "lib.rs">>,
          <<"", "w", ".env.local">>, <<"", "wide", "lib.rs">>}

\* Plans of at most one file, and plans of two things of each kind.
MCPlans ==
  [files_to_change : {{}} \cup {{f} : f \in Files}, tools_needed : {{"file_read"}},
   network_hosts_needed : {{}, {"localhost"}}, provider : {"ollama", "nvidia"}, model : {"m"},
   new_dependencies : {{}}, estimated_commits : {0, 1}, estimated_pushes : {0}]
  \cup
  [files_to_change : {{<<"", "w", "lib.rs">>, <<"", "w", "secret", "lib.rs">>}},
   tools_needed : {{}, {"file_read", "shell"}}, network_hosts_needed : SUBSET {"localhost", "api"},
   provider : {"", "ollama", "nvidia"}, model : {"m"}, new_dependencies : {{"serde"}},
   estimated_commits : {0}, estimated_pushes : {0, 1}]
-----------------------------------------------------------------------------
(* Configuration files. *)

Part(field, value) == [f \in {field} |-> value]
NoFields == <<>>

CloudSections ==
  {NoFields, Part("openrouter", Part("enabled", TRUE)), Part("openrouter", Part("api_key", {"k"})),
   Part("nvidia", [enabled |-> TRUE, base_url |-> Http(<<"nim", "lan">>)]),
   Part("nvidia", [enabled |-> TRUE, base_url |-> Http(<<"127", "nim", "lan">>)]),
   Part("nvidia", [enabled |-> TRUE, base_url |-> [Http(<<"localhost">>) EXCEPT !.behind_at = {<<"2">>}]]),
   [nvidia |-> [enabled |-> TRUE, base_url |-> Http(<<"127", "0", "0", "2">>)], ollama |-> Part("enabled", FALSE)]}

Sections ==
  [general : {NoFields, Part("log_level", ""), Part("data_dir", "d")},
   workspace : {NoFields, Part("deny", {})},
   permissions : {NoFields, Part("tools", NoFields), Part("tools", Part("file", Part("allow_patterns", {" ", "*.md"}))),
                  [default_policy |-> "allow", tools |-> [web |-> Part("policy", "deny"), ls |-> NoFields]]},
   providers : CloudSections,
   routing : {NoFields, Part("rules", <<>>), [fallback_provider |-> "nvidia", fallback_model |-> "m"]},
   audit : {NoFields, Part("path", ""), [enabled |-> FALSE, path |-> ""]}]

MCFiles ==
  {Toml(sections) : sections \in {NoFields} \cup Sections} \cup {[is |-> "missing"], [is |-> "unreadable"], [is |-> "garbage"]}

MCEnvironments ==
  [log_level : {{}, {""}}, data_dir : {{}, {"d2"}},
   keys : {[p \in {"openrouter", "nvidia"} |-> key] : key \in {{}, {""}, {"k"}}}]
-----------------------------------------------------------------------------
WorkspaceIdle ==
  /\ input = ShellInput(none, {}, {}) /\ workspace = [allow |-> {}, deny |-> {}] /\ disk = <<>>
  /\ at = "idle" /\ safe_path = <<>> /\ result = NoResult /\ opened = {} /\ elapsed = 0
  /\ before = <<>> /\ touched = {} /\ nowhere = FALSE /\ meddled = FALSE

Init ==
  \/ (DecisionsInit \/ AlgorithmsInit) /\ WorkspaceIdle
  \/ about = "tools" /\ config = <<>> /\ WorkspaceInit

Next ==
  \/ (DecisionsNext \/ AlgorithmsNext) /\ UNCHANGED ws_vars
  \/ about = "tools" /\ WorkspaceNext /\ UNCHANGED case_vars

Spec == Init /\ [][Next]_vars
=============================================================================
