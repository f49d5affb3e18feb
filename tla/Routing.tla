------------------------------- MODULE Routing -------------------------------
(***************************************************************************)
(* Deterministic provider routing: the pure resolver of sc-provider-core   *)
(* (crates/sc-provider-core/src/routing.rs) and the way a session feeds it *)
(* (Session::resolve_route, crates/sc-agent-core/src/lib.rs).              *)
(*                                                                         *)
(* A session's routing configuration is a record                           *)
(*   [providers : sequence of the registered provider keys,                *)
(*    enabled   : keys whose configuration section says enabled,           *)
(*    rules     : sequence of [match_contains, provider, model],           *)
(*    fallback  : [provider, model]; provider "" is no fallback].          *)
(* A task is the set of rule keywords its text contains.                   *)
(***************************************************************************)
EXTENDS Integers, Sequences

\* ResolvedRoute, and a RoutingError in the same shape.
Route(provider, model, reason) ==
  [ok |-> TRUE, provider |-> provider, model |-> model, reason |-> reason]

RouteError(error) == [ok |-> FALSE, provider |-> "", model |-> "", reason |-> error]

First(S) == CHOOSE i \in S : \A j \in S : i <= j

AvailableProvider(provider, enabled, has_key, is_local) ==
  [provider |-> provider, enabled |-> enabled, has_key |-> has_key, is_local |-> is_local]

FallbackRoute(provider, model, enabled) == [provider |-> provider, model |-> model, enabled |-> enabled]

RouteRequest(provider, model, task) ==
  [requested_provider |-> provider, requested_model |-> model, task |-> task]

find_provider(providers, key) == {i \in DOMAIN providers : providers[i].provider = key}

validate_provider(p, allow_cloud) ==
  CASE ~p.enabled                                                   -> "ProviderDisabled"
    [] p.enabled /\ ~p.has_key                                      -> "ProviderMissingKey"
    [] p.enabled /\ p.has_key /\ ~p.is_local /\ ~allow_cloud        -> "CloudNotAllowed"
    [] OTHER                                                        -> "Valid"

reject_default_model(model) == model = "default"

rule_matches(rule, task) == rule.match_contains \cap task # {}

\* The checks an override, a rule and a fallback go through alike.
Checked(providers, allow_cloud, provider, model, reason) ==
  LET found == find_provider(providers, provider)
      valid == validate_provider(providers[First(found)], allow_cloud)
  IN  IF reject_default_model(model) THEN RouteError("InvalidModelSlug")
      ELSE IF found = {} THEN RouteError("ProviderNotFound")
      ELSE IF valid # "Valid" THEN RouteError(valid)
      ELSE Route(provider, model, reason)

\* The enabled, credentialed, local providers, by position.
Locals(providers) ==
  {i \in DOMAIN providers :
     providers[i].is_local /\ providers[i].enabled /\ providers[i].has_key}

\* config = [rules, fallback]: rules is a function on positions, the first
\* matching position wins; a fallback with provider "" is None.
resolve_route(providers, config, request, allow_cloud) ==
  LET matching == {i \in DOMAIN config.rules : rule_matches(config.rules[i], request.task)}
      rule     == config.rules[First(matching)]
      fallback == config.fallback
      local    == providers[First(Locals(providers))].provider
  IN  IF request.requested_provider # ""
        THEN Checked(providers, allow_cloud, request.requested_provider,
                     request.requested_model, "ExplicitOverride")
      ELSE IF matching # {}
        THEN Checked(providers, allow_cloud, rule.provider, rule.model, "RuleMatch")
      ELSE IF fallback.provider # "" /\ fallback.enabled
        THEN Checked(providers, allow_cloud, fallback.provider, fallback.model, "Fallback")
      ELSE IF Locals(providers) = {} THEN RouteError("NoRouteAvailable")
      ELSE IF reject_default_model(request.requested_model)
        THEN RouteError("InvalidModelSlug")
      ELSE Route(local, request.requested_model, "LocalFirst")

-----------------------------------------------------------------------------
(* The session's side. *)

\* A provider without a configuration section of its own counts as enabled.
provider_enabled(session, key) ==
  key \in {"ollama", "nvidia", "openrouter"} => key \in session.enabled

available_providers(session) ==
  [i \in DOMAIN session.providers |->
     LET key == session.providers[i]
     IN  AvailableProvider(key, provider_enabled(session, key), TRUE, key = "ollama")]

Usable(session) ==
  {key \in {session.providers[i] : i \in DOMAIN session.providers} :
     provider_enabled(session, key)}

router_config(session) ==
  [rules    |-> session.rules,
   fallback |-> FallbackRoute(session.fallback.provider, session.fallback.model, TRUE)]

\* Rules and a fallback that name an unusable provider are dropped.
RetainNothingDropped(session) == router_config(session)

Retain(session) ==
  LET config == router_config(session)
      kept   == {i \in DOMAIN config.rules : config.rules[i].provider \in Usable(session)}
  IN  [rules    |-> [i \in kept |-> config.rules[i]],
       fallback |-> IF config.fallback.provider \in Usable(session)
                    THEN config.fallback
                    ELSE [config.fallback EXCEPT !.provider = ""]]

AllowCloudBySection(providers) ==
  \E i \in DOMAIN providers :
    providers[i].provider \in {"nvidia", "openrouter"} /\ providers[i].enabled

AllowCloud(providers) ==
  \E i \in DOMAIN providers : ~providers[i].is_local /\ providers[i].enabled

\* Session::resolve_route; a session never asks for a provider or a model.
SessionRoute(session, task) ==
  LET providers == available_providers(session)
  IN  resolve_route(providers, Retain(session), RouteRequest("", "", task), AllowCloud(providers))
=============================================================================
