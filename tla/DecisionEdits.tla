----------------------------- MODULE DecisionEdits -----------------------------
(***************************************************************************)
(* The decisions of sc-node that are functions of a configuration: the     *)
(* permission checker, the router, the preflight, the check of a proof     *)
(* bundle, and the session a configuration file leads to.  A behaviour is  *)
(* about one of them: it starts with any configuration and edits it, and   *)
(* the properties say how what is decided for every call, task or plan may *)
(* differ.                                                                 *)
(***************************************************************************)
EXTENDS Cases, ToolPermissions, Startup, Preflight, ProofChain, SequencesExt

\* Permissions.
CONSTANTS GlobPatterns,      \* the patterns an entry may have
          PolicyWords,       \* what a policy may say, right or wrong
          DefaultPolicies,   \* and a default policy
          EntryKeys,         \* the sets of names that entries are written for
          Calls              \* the calls of tools: <<tool, target>>

\* Routing.
CONSTANTS Registries,        \* sequences of the keys of registered providers
          ProviderSections,  \* the providers that a configuration can turn off
          RuleLists,         \* sequences of [match_contains, provider, model]
          Fallbacks,         \* [provider, model]
          Tasks              \* the sets of keywords a task may contain

\* Contracts and plans.
CONSTANTS Contracts,         \* contract files
          Plans

\* Proof bundles.
CONSTANTS Events,
          MaxEvents,         \* bound: events recorded in a bundle
          MaxEdits           \* bound: edits of a bundle

\* Configuration files.
CONSTANTS StartupFiles, Environments

\* Lists have positions from one on.
ASSUME ListAssumption ==
  /\ \A list \in Registries : list \in Seq(Range(list))
  /\ \A list \in RuleLists  : list \in Seq(Range(list))

\* A contract file says one thing of a field, or nothing; the policies it can say
\* are those its parser knows.
IsContractFile(raw) ==
  /\ raw = [field \in DOMAIN Defaults \cup Required |-> raw[field]]
  /\ \A field \in DOMAIN raw : \A v, w \in raw[field] : v = w
  /\ \A policy \in raw.network_policy : policy.is \in {"Deny", "AllowList", "Allow"}
  /\ \A policy \in raw.provider_policy : policy.is \in {"LocalOnly", "AllowList", "Any"}

ASSUME ContractAssumption == \A raw \in Contracts : IsContractFile(raw)

\* A file is not there, cannot be read, is no TOML, or has sections.
FileKinds == {"missing", "unreadable", "garbage", "toml"}

ASSUME FileAssumption == \A file \in StartupFiles : file.is \in FileKinds

ASSUME PlanAssumption == \A plan \in Plans : plan.files_to_change \subseteq Seq(STRING)

ASSUME BundleAssumption == MaxEvents \in Nat /\ MaxEdits \in Nat
-----------------------------------------------------------------------------
(* The permission checker: a pattern is added to an entry. *)

Entries == [policy : PolicyWords, allow_patterns : SUBSET GlobPatterns, deny_patterns : SUBSET GlobPatterns]

PermissionConfigs ==
  [default_policy : DefaultPolicies, tools : UNION {[K -> Entries] : K \in EntryKeys}]

AddDenyPattern(key, p) ==
  Edit("permissions", [config EXCEPT !.tools[key].deny_patterns = @ \cup {p}])

AddAllowPattern(key, p) ==
  Edit("permissions", [config EXCEPT !.tools[key].allow_patterns = @ \cup {p}])

EditPermissions ==
  /\ about = "permissions"
  /\ \E key \in DOMAIN config.tools, p \in GlobPatterns :
       AddDenyPattern(key, p) \/ AddAllowPattern(key, p)
-----------------------------------------------------------------------------
(* The router: an operator turns a provider off. *)

RoutingConfigs ==
  [providers : Registries, enabled : SUBSET ProviderSections, rules : RuleLists, fallback : Fallbacks]

Disable(key) == Edit("routing", [config EXCEPT !.enabled = @ \ {key}])

EditRouting == about = "routing" /\ \E key \in config.enabled : Disable(key)
-----------------------------------------------------------------------------
(* The preflight: a field of a fully written contract is left out. *)

Written == \A field \in DOMAIN config : config[field] # {}

Omit(field) == Edit("preflight", [config EXCEPT ![field] = {}])

EditContract == about = "preflight" /\ Written /\ \E field \in DOMAIN config : Omit(field)
-----------------------------------------------------------------------------
(* The proof bundle: a link of its chain is changed, taken out, repeated or *)
(* moved, or a chain is computed afresh over the events that are there.     *)

Recordings == UNION {[1..n -> Events] : n \in 0..MaxEvents}

Recorded(events, count) ==
  [recorded |-> events, rehashed |-> FALSE, edits |-> 0,
   bundle |-> with_expected_event_count(with_audit_events(NewBundle("task"), events), count)]

Bundles == {Recorded(events, count) : events \in Recordings, count \in {{}} \cup {{n} : n \in 0..MaxEvents}}

Chain == config.bundle.audit_chain

EditChain(edited) ==
  Edit("proof", [config EXCEPT !.bundle.audit_chain = edited, !.edits = @ + 1])

AlterEvent(i, e)    == EditChain([Chain EXCEPT ![i].event = e])
AlterHash(i, j)     == EditChain([Chain EXCEPT ![i].hash = Chain[j].hash])
RemoveLink(i)       == EditChain(RemoveAt(Chain, i))
CopyLink(i, j)      == EditChain(InsertAt(Chain, j, Chain[i]))
SwapLinks(i, j)     == EditChain([Chain EXCEPT ![i] = Chain[j], ![j] = Chain[i]])
ForgeField          ==
  Edit("proof", [config EXCEPT !.bundle = with_field(@, "checks", "passed"), !.edits = @ + 1])
Rehash ==
  Edit("proof", [config EXCEPT !.bundle.audit_chain = build_chain(EventsOf(@)), !.edits = @ + 1, !.rehashed = TRUE])

EditProof ==
  /\ about = "proof" /\ config.edits < MaxEdits
  /\ \/ \E i \in DOMAIN Chain, e \in Events : AlterEvent(i, e)
     \/ \E i, j \in DOMAIN Chain : AlterHash(i, j) \/ CopyLink(i, j) \/ SwapLinks(i, j)
     \/ \E i \in DOMAIN Chain : RemoveLink(i)
     \/ Rehash \/ ForgeField
-----------------------------------------------------------------------------
(* A configuration file and an environment: the file is made anew, or what *)
(* is shown of it is kept in its place.                                    *)

StartupCases == [file : StartupFiles, env : Environments]

Loaded(case) == load_from(case.file, case.env)

InitConfig == Edit("startup", [config EXCEPT !.file = create_default])

KeepShown == \E shown \in Loaded(config).config : Edit("startup", [config EXCEPT !.file = config_show(shown)])

EditStartup == about = "startup" /\ (InitConfig \/ KeepShown)
-----------------------------------------------------------------------------
DecisionsInit ==
  \/ about = "permissions" /\ config \in PermissionConfigs
  \/ about = "routing"     /\ config \in RoutingConfigs
  \/ about = "preflight"   /\ config \in Contracts
  \/ about = "proof"       /\ config \in Bundles
  \/ about = "startup"     /\ config \in StartupCases

DecisionsNext == EditPermissions \/ EditRouting \/ EditContract \/ EditProof \/ EditStartup

DecisionsSpec == DecisionsInit /\ [][DecisionsNext]_case_vars
-----------------------------------------------------------------------------
(* Permissions. *)

Strictness == [Allow |-> 0, Ask |-> 1, Deny |-> 2]

Strict(perms, c) == Strictness[check_permission(perms, c[1], c[2])]

\* Only the words "allow" and "allowed", in the entry that governs the tool or
\* else in default_policy, ever lead to an execution without approval; and a
\* governing entry with patterns never lets an underivable target through.
\* A misspelt policy, or arguments the patterns cannot be matched against,
\* must fail safe whatever the rest of the configuration says.
AllowIsExplicit ==
  about = "permissions" =>
    \A c \in Calls : Strict(config, c) = 0 =>
      /\ policy_for(config, c[1]) \in {"allow", "allowed"}
      /\ HasPatterns(config, c[1]) => c[2] # NoTarget /\ c[1] \in Extractors

\* A deny pattern added to any entry never makes any call of any tool easier,
\* whatever allow patterns match it: deny always wins over allow.  The first
\* allow pattern turns an open entry into an allow list, so it never makes a call
\* easier; a further one never makes a call harder.
PatternEditsAreMonotone ==
  [][about = "permissions" =>
       \A key \in DOMAIN config.tools, p \in GlobPatterns, c \in Calls :
         /\ AddDenyPattern(key, p) => Strict(config', c) >= Strict(config, c)
         /\ AddAllowPattern(key, p) =>
              IF config.tools[key].allow_patterns = {}
              THEN Strict(config', c) >= Strict(config, c)
              ELSE Strict(config', c) <= Strict(config, c)]_case_vars
-----------------------------------------------------------------------------
(* Routing. *)

Registered == {config.providers[i] : i \in DOMAIN config.providers}

\* A resolved route names a provider that is registered and enabled, so the
\* provider lookup at the top of every round of execute_task finds it; and a
\* session never reports ProviderNotFound, ProviderDisabled, ProviderMissingKey
\* or CloudNotAllowed, because what those checks refuse was dropped before.  With
\* ollama registered and enabled a task is routed somewhere, unless a rule or the
\* fallback asks for the placeholder model "default".  And no silent cloud
\* fallback: a provider other than ollama is reached only when a rule that matches
\* the task, or the fallback, names it.
RoutesToUsable ==
  about = "routing" =>
    \A task \in Tasks : LET route == SessionRoute(config, task) IN
      IF route.ok THEN /\ route.provider \in Registered
                       /\ provider_enabled(config, route.provider)
                       /\ \/ route.provider \in {"ollama", config.fallback.provider}
                          \/ \E i \in DOMAIN config.rules : /\ rule_matches(config.rules[i], task)
                                                            /\ config.rules[i].provider = route.provider
                  ELSE \/ route.reason = "InvalidModelSlug"
                       \/ route.reason = "NoRouteAvailable" /\ "ollama" \notin Usable(config)

\* Turning off a provider a task does not use leaves its route alone: the rules
\* dropped, the fallback dropped and the cloud opt-in recomputed never move a
\* task from one live provider to another.
UnusedProviderIrrelevant ==
  [][about = "routing" =>
       \A key \in config.enabled, task \in Tasks :
         LET route == SessionRoute(config, task)
         IN  Disable(key) /\ route.ok /\ route.provider # key
             => SessionRoute(config', task) = route]_case_vars
-----------------------------------------------------------------------------
(* Preflight. *)

\* The plans that the contract of a file lets pass, and what of a plan then needs
\* an approval.
Passing(file) == {plan \in Plans : \E contract \in parse(file) : preflight(plan, contract).passed}

Approvals(file, plan) == UNION {preflight(plan, contract).approvals_required : contract \in parse(file)}

\* A plan that passes under the data boundary local_only, written or implied,
\* uses a local provider and local hosts only, however open the network and
\* provider policies next to it are.
BoundaryKeepsDataLocal ==
  about = "preflight" /\ config.data_boundary \in {{}, {"LocalOnly"}} =>
    \A plan \in Passing(config) :
      /\ plan.provider \in LOCAL_PROVIDER_NAMES
      /\ plan.network_hosts_needed \subseteq LOCAL_HOSTS

\* A contract silent on denied_paths guards .git, target, node_modules and
\* .env files at any depth, whatever allowed_paths it writes.
DefaultDenialsReach ==
  about = "preflight" /\ config.denied_paths = {} =>
    \A plan \in Passing(config) :
      \A path \in plan.files_to_change : \A i \in DOMAIN path :
        /\ path[i] \notin {".git", "node_modules", "target"}
        /\ <<path[i], ".env">> \notin StartsWith

\* Fields whose absence is documented to mean the most restrictive value.
FailClosed == DOMAIN Defaults \ {"denied_tools", "denied_paths"}

\* Leaving a field out of a contract never lets a plan pass that was refused
\* when the field was written, nor makes a contract of a file that was none, and
\* never drops an approval but for "all".  The one exception is an allow list of
\* providers that does not name the local ones: the implied local_only lets them
\* in.  A field that no value can be guessed for leaves no contract at all.
OmissionFailsClosed ==
  [][about = "preflight" =>
       /\ \A field \in Required : Omit(field) => parse(config') = {}
       /\ \A field \in FailClosed : Omit(field) => (parse(config') = {} <=> parse(config) = {})
       /\ \A field \in FailClosed : Omit(field) => \A plan \in Passing(config') :
            /\ \/ plan \in Passing(config)
               \/ /\ field = "provider_policy" /\ plan.provider \in LOCAL_PROVIDER_NAMES
                  /\ \E contract \in parse(config) : check_provider(plan, contract) # {}
            /\ \/ "all_actions" \in Approvals(config', plan)
               \/ Approvals(config, plan) \subseteq Approvals(config', plan)]_case_vars
-----------------------------------------------------------------------------
(* Proof bundles. *)

\* A chain that verifies and ends in the head its bundle was recorded with is
\* the chain that was recorded, computed afresh or not.  Unless it was, only
\* links missing at the end go unseen, and an event count shows those.  The other
\* fields of a bundle are not protected and an edit of them is not seen.
TamperingShows ==
  about = "proof" /\ verify(config.bundle) =>
    LET recorded == build_chain(config.recorded) IN
      /\ chain_head(Chain) = chain_head(recorded) => Chain = recorded
      /\ ~config.rehashed => IsPrefix(Chain, recorded)
      /\ Accepted(config.bundle) /\ ~config.rehashed /\ config.bundle.expected_event_count = {Len(recorded)}
           => Chain = recorded
-----------------------------------------------------------------------------
(* Startup. *)

\* A host that is this machine: by its name, or by an address written in full.
Octets == {ToString(n) : n \in 0..255}

IsAddress(host) == Len(host) = 4 /\ \A i \in 1..4 : host[i] \in Octets

IsLoopback(host) ==
  \/ host \in {<<"localhost">>, <<"::1">>}
  \/ IsAddress(host) /\ host[1] = "127"

\* A base URL whose host is_https_or_local_http may take for another, or for local
\* by how its name begins.
Misread(base_url) ==
  \/ base_url.behind_at # {}
  \/ base_url.host[1] = "127" /\ ~IsAddress(base_url.host)

\* Whatever rules and fallback a configuration has, the default ones included, and
\* whatever keys the environment has, no task of the session goes to a cloud
\* provider that its file does not enable; and none whose key would leave the
\* machine in the clear, but for a base URL that is misread: one with an "@" behind
\* its host, or a host name that begins with "127.".
LocalUnlessEnabled ==
  about = "startup" =>
    \A loaded \in Loaded(config).config, task \in Tasks :
      LET route    == SessionRoute(SessionOf(loaded, config.env), task)
          section  == Given(Given(config.file.sections, "providers"), route.provider)
          base_url == loaded.providers[route.provider].base_url
      IN  route.ok /\ route.provider # "ollama" =>
            /\ "enabled" \in DOMAIN section /\ section.enabled
            /\ \/ config.env.keys[route.provider] \subseteq {""} \/ base_url.scheme = "https"
               \/ IsLoopback(base_url.host) \/ Misread(base_url)

\* What is shown of a configuration, kept as the file, is loaded as the same one,
\* environment and defaults included; only a table of tools without an entry is not
\* shown, and comes back as the default table.  The file that init makes is loaded
\* as an empty one.
ShownReloads ==
  [][about = "startup" =>
       /\ KeepShown =>
            \A shown \in Loaded(config).config :
              Loaded(config').config =
                {IF DOMAIN shown.permissions.tools = {}
                 THEN [shown EXCEPT !.permissions.tools = PermissionsConfig.tools] ELSE shown}
       /\ InitConfig => Loaded(config') = load_from(Toml(<<>>), config.env)]_case_vars
=============================================================================
