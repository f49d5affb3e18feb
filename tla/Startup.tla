-------------------------------- MODULE Startup --------------------------------
(***************************************************************************)
(* From a configuration file and the environment to a session that can     *)
(* route: sc-config (crates/sc-config/src/lib.rs), the start of main       *)
(* (src/main.rs), and what a provider refuses to be built with             *)
(* (crates/sc-provider-core/src/openai_compat.rs).                         *)
(*                                                                         *)
(* The sections of a file are a function from those it has to functions    *)
(* from the fields they have; a file may also be missing, unreadable, or   *)
(* no such TOML.                                                           *)
(* An environment variable is a set of at most one value.                  *)
(* A pattern is blank or not; a rule's keywords are a set, as in Routing.  *)
(* A base URL is [scheme, host, behind_at]: the labels of the host that a  *)
(* client of it connects to, without port, brackets or user information,   *)
(* and those of what follows the last "@" behind that host, in the path,   *)
(* the query or the fragment, if there is one.                             *)
(***************************************************************************)
EXTENDS Routing

GeneralConfig == [log_level |-> "info", data_dir |-> "~/.sc-agent", no_telemetry |-> TRUE]

WorkspaceConfig ==
  [allow |-> {}, deny |-> {"~/.ssh", "~/.aws", "**/node_modules/**", "**/.git/**", "**/target/**"}]

ToolPermission == [policy |-> "ask", allow_patterns |-> {}, deny_patterns |-> {}]

\* Of the patterns of an entry only some are named.
PermissionsConfig ==
  [default_policy |-> "ask",
   tools |->
     [shell |-> [policy |-> "ask", allow_patterns |-> {"cargo ", "git "}, deny_patterns |-> {"rm -rf", "| sh"}],
      file  |-> [policy |-> "ask", allow_patterns |-> {"*.md", "*.rs"}, deny_patterns |-> {"*.key", "*.pem"}],
      web   |-> [policy |-> "ask", allow_patterns |-> {}, deny_patterns |-> {"localhost", "127.0.0.1"}]]]

Https(host) == [scheme |-> "https", host |-> host, behind_at |-> {}]
Http(host)  == [scheme |-> "http", host |-> host, behind_at |-> {}]

OpenRouterEnabled ==
  [enabled |-> TRUE, api_key |-> {}, base_url |-> Https(<<"openrouter", "ai">>), default_model |-> "openai/gpt-4.1-mini"]

OpenRouterConfig ==
  [enabled |-> FALSE, api_key |-> {}, base_url |-> Https(<<"openrouter", "ai">>), default_model |-> "openai/gpt-4.1-mini"]

NvidiaConfig ==
  [enabled |-> FALSE, api_key |-> {}, base_url |-> Https(<<"integrate", "api", "nvidia", "com">>),
   default_model |-> "deepseek-ai/deepseek-v4-pro"]

OllamaConfig ==
  [enabled |-> TRUE, base_url |-> Http(<<"localhost">>), default_model |-> "llama3.2:3b", keep_alive |-> "5m"]

ProvidersConfig == [openrouter |-> OpenRouterConfig, nvidia |-> NvidiaConfig, ollama |-> OllamaConfig]

RoutingConfig ==
  [rules |-> <<[match_contains |-> {"code", "rust"}, provider |-> "ollama", model |-> "codellama:7b"],
               [match_contains |-> {"research", "find"}, provider |-> "openrouter", model |-> "perplexity/sonar-pro"]>>,
   fallback_provider |-> "openrouter", fallback_model |-> "openai/gpt-4.1-mini"]

AuditConfig == [enabled |-> TRUE, path |-> "audit.log", max_size_mb |-> 100, max_files |-> 10]
-----------------------------------------------------------------------------
(* Reading and writing a file. *)

Given(part, name) == IF name \in DOMAIN part THEN part[name] ELSE <<>>

Overlay(default, given) ==
  [field \in DOMAIN default |->
     IF field \in DOMAIN given \ {"api_key"} THEN given[field] ELSE default[field]]

\* A table of tools replaces the default one; its entries are completed.
read_permissions(given) ==
  LET read == Overlay(PermissionsConfig, given)
  IN  [read EXCEPT !.tools = [tool \in DOMAIN @ |-> Overlay(ToolPermission, @[tool])]]

from_toml(file) ==
  [general     |-> Overlay(GeneralConfig, Given(file, "general")),
   workspace   |-> Overlay(WorkspaceConfig, Given(file, "workspace")),
   permissions |-> read_permissions(Given(file, "permissions")),
   providers   |-> [p \in DOMAIN ProvidersConfig |->
                      Overlay(ProvidersConfig[p], Given(Given(file, "providers"), p))],
   routing     |-> Overlay(RoutingConfig, Given(file, "routing")),
   audit       |-> Overlay(AuditConfig, Given(file, "audit"))]

Keep(fields, section) == [field \in fields |-> section[field]]

\* Leaves out every list that is empty.
to_toml_WithoutEmptyLists(config) ==
  LET permissions == config.permissions
      written     == IF DOMAIN permissions.tools = {} THEN {"default_policy"} ELSE DOMAIN permissions
  IN  [config EXCEPT
         !.permissions = Keep(written, permissions),
         !.workspace   = Keep({list \in DOMAIN @ : @[list] # {}}, @),
         !.providers   = [p \in DOMAIN @ |-> Keep(DOMAIN @[p] \ {"api_key"}, @[p])]]

\* Keys are never written, and a table of tools only when it has entries.
to_toml(config) ==
  LET permissions == config.permissions
      written     == IF DOMAIN permissions.tools = {} THEN {"default_policy"} ELSE DOMAIN permissions
  IN  [config EXCEPT
         !.permissions = Keep(written, permissions),
         !.providers   = [p \in DOMAIN @ |-> Keep(DOMAIN @[p] \ {"api_key"}, @[p])]]

Override(variable, value) == IF variable = {} THEN value ELSE CHOOSE v \in variable : TRUE

apply_env_overrides(config, env) ==
  [config EXCEPT
     !.general.log_level = Override(env.log_level, @),
     !.general.data_dir  = Override(env.data_dir, @),
     !.providers.openrouter.api_key = env.keys["openrouter"],
     !.providers.nvidia.api_key     = env.keys["nvidia"]]

validate(config) ==
  /\ config.general.log_level # ""
  /\ config.audit.enabled => config.audit.path # ""
  /\ \A tool \in DOMAIN config.permissions.tools :
       LET entry == config.permissions.tools[tool]
       IN  " " \notin entry.allow_patterns \cup entry.deny_patterns

\* Config::load_from: one configuration, or none and an error.
load_from(file, env) ==
  LET config == apply_env_overrides(from_toml(file.sections), env)
  IN  CASE file.is = "missing" -> [error |-> "NotFound", config |-> {}]
        [] file.is = "unreadable" -> [error |-> "Io", config |-> {}]
        [] file.is = "garbage" -> [error |-> "Parse", config |-> {}]
        [] file.is = "toml"    -> IF validate(config) THEN [error |-> "none", config |-> {config}]
                                  ELSE [error |-> "Validation", config |-> {}]

Toml(sections) == [is |-> "toml", sections |-> sections]

\* Config::create_default, whatever there was before.
create_default == Toml(to_toml(from_toml(<<>>)))

\* What `config show` prints of a configuration, kept as a file.
config_show(config) == Toml(to_toml(config))
-----------------------------------------------------------------------------
(* What main makes of a configuration. *)

\* User information is taken to end at the last "@" of the whole URL.
extract_host(base_url) ==
  IF base_url.behind_at = {} THEN base_url.host ELSE CHOOSE labels \in base_url.behind_at : TRUE

\* Whatever begins with "127." counts, be it an address or the name of a host.
is_local_host(host) ==
  \/ host \in {<<"localhost">>, <<"127", "0", "0", "1">>, <<"::1">>}
  \/ Len(host) > 1 /\ host[1] = "127"

is_https_or_local_http(base_url) ==
  \/ base_url.scheme = "https"
  \/ base_url.scheme = "http" /\ is_local_host(extract_host(base_url))

\* OpenAiCompatClient::new: an empty key is none, and a key is not sent in clear.
\* The key is the environment's; the copy in the configuration is not looked at.
ClientBuilt(section, key) == key \in {{}, {""}} \/ is_https_or_local_http(section.base_url)

Built(config, env, p) ==
  config.providers[p].enabled /\ (p # "ollama" => ClientBuilt(config.providers[p], env.keys[p]))

\* In the order in which main registers them.
RegisteredKeys(config, env) ==
  LET built == {p \in DOMAIN config.providers : Built(config, env, p)}
      register(p) == IF p \in built THEN <<p>> ELSE <<>>
  IN  register("openrouter") \o register("nvidia") \o register("ollama")

\* The routing configuration of the session, as Routing reads it.
SessionOf(config, env) ==
  [providers |-> RegisteredKeys(config, env),
   enabled   |-> {p \in DOMAIN config.providers : config.providers[p].enabled},
   rules     |-> config.routing.rules,
   fallback  |-> [provider |-> config.routing.fallback_provider, model |-> config.routing.fallback_model]]
=============================================================================
