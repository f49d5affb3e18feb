------------------------- MODULE DecisionEdits_proofs -------------------------
(***************************************************************************)
(* Proofs about the decisions, for every permission configuration,         *)
(* registry, list of rules, contract, plan, recording and configuration    *)
(* file: Shaped is inductive, and of what is shaped so the checker, the    *)
(* router, the preflight and the check of a bundle promise what the runs   *)
(* show.  Then about two algorithms by themselves: the matcher decides     *)
(* what a pattern means, and the chunks of a text cover it.                *)
(***************************************************************************)
EXTENDS DecisionEdits, Globs, Retrieval, Induction, SequenceTheorems, TLAPS

-----------------------------------------------------------------------------
(* The permission checker. *)

\* How strict a decision is tells which one it is.
LEMMA StrictValues ==
  ASSUME NEW perms, NEW c
  PROVE  /\ Strict(perms, c) \in 0..2
         /\ Strict(perms, c) = 0 <=> check_permission(perms, c[1], c[2]) = "Allow"
         /\ Strict(perms, c) = 2 <=> check_permission(perms, c[1], c[2]) = "Deny"
<1> DEFINE decision == check_permission(perms, c[1], c[2])
<1>1. decision \in {"Allow", "Ask", "Deny"}
  BY DEF check_permission, Policy
<1> HIDE DEF decision
<1>2. Strictness[decision] \in 0..2 /\ (Strictness[decision] = 0 <=> decision = "Allow")
      /\ (Strictness[decision] = 2 <=> decision = "Deny")
  BY <1>1 DEF Strictness
<1> QED BY <1>2 DEF Strict, decision

\* An execution without approval follows a word that says so, and patterns that
\* could be matched.
LEMMA AllowedExplicitly ==
  ASSUME NEW perms, NEW c, Strict(perms, c) = 0
  PROVE  /\ policy_for(perms, c[1]) \in {"allow", "allowed"}
         /\ HasPatterns(perms, c[1]) => c[2] # NoTarget /\ c[1] \in Extractors
<1>1. check_permission(perms, c[1], c[2]) = "Allow"
  BY StrictValues
<1>2. ~(HasPatterns(perms, c[1]) /\ RefusedByPatterns(perms, c[1], c[2])) /\ Policy(policy_for(perms, c[1])) = "Allow"
  BY <1>1 DEF check_permission
<1>3. policy_for(perms, c[1]) \in {"allow", "allowed"}
  BY <1>2 DEF Policy
<1>4. ASSUME HasPatterns(perms, c[1]) PROVE derive_target(c[1], c[2]) # NoTarget
  BY <1>2, <1>4 DEF RefusedByPatterns
<1> QED BY <1>3, <1>4 DEF derive_target

\* Whatever the configuration is, only an explicit word lets a call through
\* without approval (AllowIsExplicit).
THEOREM ExplicitAllow == DecisionsSpec => []AllowIsExplicit
<1>1. AllowIsExplicit
  BY AllowedExplicitly DEF AllowIsExplicit
<1> QED BY <1>1, PTL

\* An entry with one pattern more.
IsEdited(perms, edited, key) ==
  /\ DOMAIN edited.tools = DOMAIN perms.tools /\ key \in DOMAIN perms.tools
  /\ edited.default_policy = perms.default_policy
  /\ \A other \in DOMAIN perms.tools :
       /\ edited.tools[other].policy = perms.tools[other].policy
       /\ other # key => edited.tools[other] = perms.tools[other]

\* The governing entry and its word stay, and the decision where another entry
\* governs, or none.
LEMMA EditedElsewhere ==
  ASSUME NEW perms, NEW edited, NEW key, NEW tool, NEW args, IsEdited(perms, edited, key)
  PROVE  /\ EntryKey(edited, tool) = EntryKey(perms, tool)
         /\ HasEntry(edited, tool) = HasEntry(perms, tool)
         /\ policy_for(edited, tool) = policy_for(perms, tool)
         /\ EntryKey(perms, tool) # key => check_permission(edited, tool, args) = check_permission(perms, tool, args)
<1>1. EntryKey(edited, tool) = EntryKey(perms, tool)
  BY DEF IsEdited, EntryKey
<1>2. HasEntry(edited, tool) = HasEntry(perms, tool)
  BY <1>1 DEF IsEdited, HasEntry
<1>3. HasEntry(perms, tool) => entry_for(edited, tool).policy = entry_for(perms, tool).policy
  BY <1>1 DEF IsEdited, HasEntry, entry_for
<1>4. policy_for(edited, tool) = policy_for(perms, tool)
  BY <1>2, <1>3 DEF policy_for, IsEdited
<1>5. ASSUME EntryKey(perms, tool) # key
      PROVE  check_permission(edited, tool, args) = check_permission(perms, tool, args)
  <2>1. HasEntry(perms, tool) => entry_for(edited, tool) = entry_for(perms, tool)
    BY <1>1, <1>5 DEF IsEdited, HasEntry, entry_for
  <2>2. HasPatterns(edited, tool) = HasPatterns(perms, tool)
    BY <1>2, <2>1 DEF HasPatterns
  <2>3. HasPatterns(perms, tool) => RefusedByPatterns(edited, tool, args) = RefusedByPatterns(perms, tool, args)
    BY <2>1 DEF HasPatterns, RefusedByPatterns
  <2> QED BY <1>4, <2>2, <2>3 DEF check_permission
<1> QED BY <1>1, <1>2, <1>4, <1>5

\* The entry that an edit made of another.
LEMMA EditedEntry ==
  ASSUME NEW perms \in PermissionConfigs, NEW key \in DOMAIN perms.tools, NEW entry \in Entries,
         entry.policy = perms.tools[key].policy,
         NEW edited, edited = [perms EXCEPT !.tools[key] = entry]
  PROVE  IsEdited(perms, edited, key) /\ edited.tools[key] = entry
  BY DEF PermissionConfigs, IsEdited

\* A configuration with one pattern more.
WithDenyPattern(perms, key, p)  == [perms EXCEPT !.tools[key].deny_patterns = @ \cup {p}]
WithAllowPattern(perms, key, p) == [perms EXCEPT !.tools[key].allow_patterns = @ \cup {p}]

\* Adding a pattern is such an edit.
LEMMA DenyPatternAdded ==
  ASSUME NEW perms \in PermissionConfigs, NEW key \in DOMAIN perms.tools, NEW p \in GlobPatterns,
         NEW edited, edited = WithDenyPattern(perms, key, p)
  PROVE  /\ IsEdited(perms, edited, key) /\ edited \in PermissionConfigs
         /\ edited.tools[key].deny_patterns = perms.tools[key].deny_patterns \cup {p}
         /\ edited.tools[key].allow_patterns = perms.tools[key].allow_patterns
<1> DEFINE entry == [perms.tools[key] EXCEPT !.deny_patterns = @ \cup {p}]
<1>1. PICK K \in EntryKeys : perms.tools \in [K -> Entries]
  BY DEF PermissionConfigs
<1>2. perms.tools[key] \in Entries
  BY <1>1
<1>3. entry \in Entries /\ entry.policy = perms.tools[key].policy
      /\ entry.deny_patterns = perms.tools[key].deny_patterns \cup {p}
      /\ entry.allow_patterns = perms.tools[key].allow_patterns
  BY <1>2 DEF Entries
<1>4. edited = [perms EXCEPT !.tools[key] = entry]
  BY DEF WithDenyPattern
<1> HIDE DEF entry
<1>5. IsEdited(perms, edited, key) /\ edited.tools[key] = entry
  BY <1>3, <1>4, EditedEntry
<1>6. edited \in PermissionConfigs
  BY <1>1, <1>3, <1>4 DEF PermissionConfigs
<1> QED BY <1>3, <1>5, <1>6

LEMMA AllowPatternAdded ==
  ASSUME NEW perms \in PermissionConfigs, NEW key \in DOMAIN perms.tools, NEW p \in GlobPatterns,
         NEW edited, edited = WithAllowPattern(perms, key, p)
  PROVE  /\ IsEdited(perms, edited, key) /\ edited \in PermissionConfigs
         /\ edited.tools[key].allow_patterns = perms.tools[key].allow_patterns \cup {p}
         /\ edited.tools[key].deny_patterns = perms.tools[key].deny_patterns
<1> DEFINE entry == [perms.tools[key] EXCEPT !.allow_patterns = @ \cup {p}]
<1>1. PICK K \in EntryKeys : perms.tools \in [K -> Entries]
  BY DEF PermissionConfigs
<1>2. perms.tools[key] \in Entries
  BY <1>1
<1>3. entry \in Entries /\ entry.policy = perms.tools[key].policy
      /\ entry.allow_patterns = perms.tools[key].allow_patterns \cup {p}
      /\ entry.deny_patterns = perms.tools[key].deny_patterns
  BY <1>2 DEF Entries
<1>4. edited = [perms EXCEPT !.tools[key] = entry]
  BY DEF WithAllowPattern
<1> HIDE DEF entry
<1>5. IsEdited(perms, edited, key) /\ edited.tools[key] = entry
  BY <1>3, <1>4, EditedEntry
<1>6. edited \in PermissionConfigs
  BY <1>1, <1>3, <1>4 DEF PermissionConfigs
<1> QED BY <1>3, <1>5, <1>6

\* What the patterns of a tool refuse, they denied.
Refuses(perms, c) == HasPatterns(perms, c[1]) /\ RefusedByPatterns(perms, c[1], c[2])

\* Where the word stays the same, the decision is as strict as the patterns.
LEMMA StricterByPatterns ==
  ASSUME NEW perms, NEW edited, NEW c, policy_for(edited, c[1]) = policy_for(perms, c[1]),
         Refuses(perms, c) => Refuses(edited, c)
  PROVE  Strict(edited, c) >= Strict(perms, c)
<1>1. \/ check_permission(edited, c[1], c[2]) = "Deny"
      \/ check_permission(edited, c[1], c[2]) = check_permission(perms, c[1], c[2])
  BY DEF Refuses, check_permission
<1>2. CASE check_permission(edited, c[1], c[2]) = "Deny"
  <2>1. Strict(edited, c) = 2 /\ Strict(perms, c) \in 0..2
    BY <1>2, StrictValues
  <2> QED BY <2>1
<1>3. CASE check_permission(edited, c[1], c[2]) = check_permission(perms, c[1], c[2])
  <2>1. Strict(edited, c) = Strict(perms, c) /\ Strict(perms, c) \in 0..2
    BY <1>3, StrictValues DEF Strict
  <2> QED BY <2>1
<1> QED BY <1>1, <1>2, <1>3

\* An entry with one pattern more.
DenyAdded(old, new, p) ==
  new.deny_patterns = old.deny_patterns \cup {p} /\ new.allow_patterns = old.allow_patterns

AllowAdded(old, new, p) ==
  new.allow_patterns = old.allow_patterns \cup {p} /\ new.deny_patterns = old.deny_patterns

\* A deny pattern more refuses no less, nor does the first allow pattern; a
\* further allow pattern refuses no more.
LEMMA PatternsRefuse ==
  ASSUME NEW perms, NEW edited, NEW c, NEW p, IsEdited(perms, edited, EntryKey(perms, c[1]))
  PROVE  LET old == entry_for(perms, c[1])
             new == entry_for(edited, c[1])
         IN  /\ DenyAdded(old, new, p) => (Refuses(perms, c) => Refuses(edited, c))
             /\ AllowAdded(old, new, p) /\ old.allow_patterns = {} => (Refuses(perms, c) => Refuses(edited, c))
             /\ AllowAdded(old, new, p) /\ old.allow_patterns # {} => (Refuses(edited, c) => Refuses(perms, c))
<1> DEFINE old == entry_for(perms, c[1])
           new == entry_for(edited, c[1])
           target == derive_target(c[1], c[2])
           Fails(entry) == \/ target = NoTarget
                           \/ first_deny_match(entry, target)
                           \/ entry.allow_patterns # {} /\ ~any_allow_match(entry, target)
           Has(entry) == entry.allow_patterns # {} \/ entry.deny_patterns # {}
<1>1. HasEntry(perms, c[1]) /\ HasEntry(edited, c[1])
  BY EditedElsewhere DEF IsEdited, HasEntry
<1>2. Refuses(perms, c) <=> Has(old) /\ Fails(old)
  BY <1>1 DEF Refuses, HasPatterns, RefusedByPatterns
<1>3. Refuses(edited, c) <=> Has(new) /\ Fails(new)
  BY <1>1 DEF Refuses, HasPatterns, RefusedByPatterns
<1> HIDE DEF old, new, target
<1>4. ASSUME DenyAdded(old, new, p) PROVE Has(old) /\ Fails(old) => Has(new) /\ Fails(new)
  BY <1>4 DEF DenyAdded, first_deny_match, any_allow_match
<1>5. ASSUME AllowAdded(old, new, p)
      PROVE  /\ old.allow_patterns = {} => (Has(old) /\ Fails(old) => Has(new) /\ Fails(new))
             /\ old.allow_patterns # {} => (Has(new) /\ Fails(new) => Has(old) /\ Fails(old))
  BY <1>5 DEF AllowAdded, first_deny_match, any_allow_match
<1> HIDE DEF Fails, Has
<1>6. /\ DenyAdded(old, new, p) => (Refuses(perms, c) => Refuses(edited, c))
      /\ AllowAdded(old, new, p) /\ old.allow_patterns = {} => (Refuses(perms, c) => Refuses(edited, c))
      /\ AllowAdded(old, new, p) /\ old.allow_patterns # {} => (Refuses(edited, c) => Refuses(perms, c))
  BY <1>2, <1>3, <1>4, <1>5
<1> QED BY <1>6 DEF old, new

\* So a deny pattern makes no call easier, the first allow pattern neither, and a
\* further one no call harder.
LEMMA PatternAddedTo ==
  ASSUME NEW perms \in PermissionConfigs, NEW key \in DOMAIN perms.tools, NEW p \in GlobPatterns, NEW c, NEW edited
  PROVE  /\ edited = WithDenyPattern(perms, key, p) => Strict(edited, c) >= Strict(perms, c)
         /\ edited = WithAllowPattern(perms, key, p) =>
              IF perms.tools[key].allow_patterns = {} THEN Strict(edited, c) >= Strict(perms, c)
              ELSE Strict(edited, c) <= Strict(perms, c)
<1>1. ASSUME IsEdited(perms, edited, key), EntryKey(perms, c[1]) # key
      PROVE  Strict(edited, c) = Strict(perms, c) /\ Strict(perms, c) \in 0..2
  BY <1>1, EditedElsewhere, StrictValues DEF Strict
<1>2. ASSUME IsEdited(perms, edited, key) PROVE policy_for(edited, c[1]) = policy_for(perms, c[1])
  BY <1>2, EditedElsewhere
<1>3. ASSUME EntryKey(perms, c[1]) = key, IsEdited(perms, edited, key)
      PROVE  entry_for(perms, c[1]) = perms.tools[key] /\ entry_for(edited, c[1]) = edited.tools[key]
  BY <1>3, EditedElsewhere DEF entry_for
<1>4. ASSUME edited = WithDenyPattern(perms, key, p) PROVE Strict(edited, c) >= Strict(perms, c)
  <2>1. IsEdited(perms, edited, key) /\ DenyAdded(perms.tools[key], edited.tools[key], p)
    BY <1>4, DenyPatternAdded DEF DenyAdded
  <2>2. CASE EntryKey(perms, c[1]) = key
    <3>1. IsEdited(perms, edited, EntryKey(perms, c[1])) /\ DenyAdded(entry_for(perms, c[1]), entry_for(edited, c[1]), p)
      BY <1>3, <2>1, <2>2
    <3>2. Refuses(perms, c) => Refuses(edited, c)
      BY <1>3, <2>1, <2>2, <3>1, PatternsRefuse
    <3> QED BY <1>2, <2>1, <3>2, StricterByPatterns
  <2>3. CASE EntryKey(perms, c[1]) # key
    BY <1>1, <2>1, <2>3
  <2> QED BY <2>2, <2>3
<1>5. ASSUME edited = WithAllowPattern(perms, key, p)
      PROVE  IF perms.tools[key].allow_patterns = {} THEN Strict(edited, c) >= Strict(perms, c)
             ELSE Strict(edited, c) <= Strict(perms, c)
  <2>1. IsEdited(perms, edited, key) /\ AllowAdded(perms.tools[key], edited.tools[key], p)
    BY <1>5, AllowPatternAdded DEF AllowAdded
  <2>2. ASSUME EntryKey(perms, c[1]) = key, perms.tools[key].allow_patterns = {}
        PROVE  Strict(edited, c) >= Strict(perms, c)
    <3>1. IsEdited(perms, edited, EntryKey(perms, c[1])) /\ AllowAdded(entry_for(perms, c[1]), entry_for(edited, c[1]), p)
      BY <1>3, <2>1, <2>2
    <3>2. Refuses(perms, c) => Refuses(edited, c)
      BY <1>3, <2>1, <2>2, <3>1, PatternsRefuse
    <3> QED BY <1>2, <2>1, <3>2, StricterByPatterns
  <2>3. ASSUME EntryKey(perms, c[1]) = key, perms.tools[key].allow_patterns # {}
        PROVE  Strict(edited, c) <= Strict(perms, c)
    <3>1. Refuses(edited, c) => Refuses(perms, c)
      BY <1>3, <2>1, <2>3, PatternsRefuse
    <3>2. Strict(perms, c) >= Strict(edited, c)
      BY <1>2, <2>1, <3>1, StricterByPatterns
    <3>3. Strict(perms, c) \in 0..2 /\ Strict(edited, c) \in 0..2
      BY StrictValues
    <3> QED BY <3>2, <3>3
  <2>4. CASE EntryKey(perms, c[1]) # key
    BY <1>1, <2>1, <2>4
  <2> QED BY <2>2, <2>3, <2>4
<1> QED BY <1>4, <1>5

-----------------------------------------------------------------------------
(* The router. *)

LEMMA FirstIsLeast ==
  ASSUME NEW S \in SUBSET Nat, S # {}
  PROVE  First(S) \in S /\ \A j \in S : First(S) <= j
<1>1. \E i \in S : \A j \in S : i <= j
  BY LeastExists
<1> QED BY <1>1 DEF First

\* The first of some is the first of fewer, if it is among them.
LEMMA FirstOfFewer ==
  ASSUME NEW S \in SUBSET Nat, NEW F \in SUBSET S, First(S) \in F
  PROVE  First(F) = First(S)
<1>1. F \in SUBSET Nat /\ S # {} /\ F # {}
  OBVIOUS
<1>2. First(F) \in F /\ First(S) <= First(F)
  BY <1>1, FirstIsLeast
<1>3. First(F) <= First(S)
  BY <1>1, FirstIsLeast
<1>4. First(F) \in Nat /\ First(S) \in Nat
  BY <1>1, <1>2
<1> QED BY <1>2, <1>3, <1>4

LEMMA Positions ==
  ASSUME NEW session \in RoutingConfigs
  PROVE  /\ DOMAIN session.providers \subseteq Nat
         /\ DOMAIN session.rules \subseteq Nat
<1>1. session.providers \in Registries /\ session.rules \in RuleLists
  BY DEF RoutingConfigs
<1>2. session.providers \in Seq(Range(session.providers)) /\ session.rules \in Seq(Range(session.rules))
  BY <1>1, ListAssumption
<1> QED BY <1>2

\* What the checks answer of a provider that is registered and enabled: only its
\* model can be refused.
Resolved(provider, model, reason) ==
  IF model = "default" THEN RouteError("InvalidModelSlug") ELSE Route(provider, model, reason)

LEMMA ResolvedFields ==
  ASSUME NEW provider, NEW model, NEW reason
  PROVE  /\ Resolved(provider, model, reason).ok \in BOOLEAN
         /\ Resolved(provider, model, reason).ok => Resolved(provider, model, reason).provider = provider
         /\ ~Resolved(provider, model, reason).ok => Resolved(provider, model, reason).reason = "InvalidModelSlug"
  BY DEF Resolved, Route, RouteError

LEMMA UsableIsValid ==
  ASSUME NEW session \in RoutingConfigs, NEW provider \in Usable(session), NEW model, NEW reason
  PROVE  Checked(available_providers(session), AllowCloud(available_providers(session)), provider, model, reason)
           = Resolved(provider, model, reason)
<1> DEFINE providers == available_providers(session)
           found == find_provider(providers, provider)
<1>1. \A i \in DOMAIN session.providers :
        /\ i \in DOMAIN providers
        /\ providers[i].provider = session.providers[i] /\ providers[i].has_key
        /\ providers[i].enabled <=> provider_enabled(session, session.providers[i])
        /\ providers[i].is_local <=> session.providers[i] = "ollama"
  BY DEF available_providers, AvailableProvider
<1>2. DOMAIN providers = DOMAIN session.providers
  BY DEF available_providers
<1>3. PICK i \in DOMAIN session.providers : session.providers[i] = provider
  BY DEF Usable
<1>4. provider_enabled(session, provider)
  BY DEF Usable
<1> HIDE DEF providers
<1>5. i \in found /\ found \subseteq Nat
  BY <1>1, <1>2, <1>3, Positions DEF find_provider
<1>6. First(found) \in found
  BY <1>5, FirstIsLeast
<1>7. /\ First(found) \in DOMAIN session.providers
      /\ providers[First(found)].provider = provider
  BY <1>2, <1>6 DEF find_provider
<1>8. providers[First(found)].enabled /\ providers[First(found)].has_key
  BY <1>1, <1>4, <1>7
<1>9. providers[First(found)].is_local \/ AllowCloud(providers)
  BY <1>2, <1>7, <1>8 DEF AllowCloud
<1>10. validate_provider(providers[First(found)], AllowCloud(providers)) = "Valid"
  BY <1>8, <1>9 DEF validate_provider
<1> QED BY <1>5, <1>10 DEF Checked, Resolved, reject_default_model, providers

\* The rules that match a task and name a usable provider.
Matching(session, task) ==
  {i \in DOMAIN session.rules : session.rules[i].provider \in Usable(session) /\ rule_matches(session.rules[i], task)}

\* So of a session's configuration only the usable part counts: the first rule
\* that matches, the fallback, ollama.
LEMMA RouteOfSession ==
  ASSUME NEW session \in RoutingConfigs, NEW task
  PROVE  /\ Matching(session, task) # {} =>
              SessionRoute(session, task) =
                Resolved(session.rules[First(Matching(session, task))].provider,
                         session.rules[First(Matching(session, task))].model, "RuleMatch")
         /\ Matching(session, task) = {} /\ session.fallback.provider \in Usable(session) \ {""} =>
              SessionRoute(session, task) = Resolved(session.fallback.provider, session.fallback.model, "Fallback")
         /\ Matching(session, task) = {} /\ session.fallback.provider \notin Usable(session) \ {""} =>
              SessionRoute(session, task) = IF "ollama" \in Usable(session) THEN Route("ollama", "", "LocalFirst")
                                            ELSE RouteError("NoRouteAvailable")
<1> DEFINE providers == available_providers(session)
           kept == Retain(session)
           request == RouteRequest("", "", task)
           matching == {i \in DOMAIN kept.rules : rule_matches(kept.rules[i], request.task)}
           rule == session.rules[First(Matching(session, task))]
<1>1. DOMAIN kept.rules = {i \in DOMAIN session.rules : session.rules[i].provider \in Usable(session)}
      /\ \A i \in DOMAIN kept.rules : kept.rules[i] = session.rules[i]
  BY DEF Retain, router_config
<1>2. request.requested_provider = "" /\ request.requested_model = "" /\ request.task = task
  BY DEF RouteRequest
<1>3. IF session.fallback.provider \in Usable(session)
      THEN /\ kept.fallback.provider = session.fallback.provider /\ kept.fallback.model = session.fallback.model
           /\ kept.fallback.enabled
      ELSE kept.fallback.provider = ""
  BY DEF Retain, router_config, FallbackRoute
<1> HIDE DEF kept, request
<1>4. matching = Matching(session, task)
  BY <1>1, <1>2 DEF Matching
<1>5. ASSUME Matching(session, task) # {}
      PROVE  /\ kept.rules[First(matching)] = rule
             /\ rule.provider \in Usable(session)
  <2>1. Matching(session, task) \subseteq Nat
    BY Positions DEF Matching
  <2>2. First(Matching(session, task)) \in Matching(session, task)
    BY <1>5, <2>1, FirstIsLeast
  <2> QED BY <1>1, <1>4, <2>2 DEF Matching
<1>6. ASSUME Matching(session, task) # {}
      PROVE  SessionRoute(session, task) = Resolved(rule.provider, rule.model, "RuleMatch")
  <2>1. SessionRoute(session, task) = Checked(providers, AllowCloud(providers), rule.provider, rule.model, "RuleMatch")
    BY <1>2, <1>4, <1>5, <1>6 DEF SessionRoute, resolve_route, kept, request
  <2>2. SessionRoute(session, task) = Resolved(rule.provider, rule.model, "RuleMatch")
    BY <1>5, <1>6, <2>1, UsableIsValid
  <2> QED BY <2>2
<1>7. ASSUME Matching(session, task) = {}, session.fallback.provider \in Usable(session) \ {""}
      PROVE  SessionRoute(session, task) = Resolved(session.fallback.provider, session.fallback.model, "Fallback")
  <2>1. SessionRoute(session, task)
          = Checked(providers, AllowCloud(providers), session.fallback.provider, session.fallback.model, "Fallback")
    BY <1>2, <1>3, <1>4, <1>7 DEF SessionRoute, resolve_route, kept, request
  <2>2. session.fallback.provider \in Usable(session)
    BY <1>7
  <2>3. \A model, reason : Checked(providers, AllowCloud(providers), session.fallback.provider, model, reason)
                             = Resolved(session.fallback.provider, model, reason)
    BY <2>2, UsableIsValid
  <2> QED BY <2>1, <2>3
<1>8. ASSUME Matching(session, task) = {}, session.fallback.provider \notin Usable(session) \ {""}
      PROVE  SessionRoute(session, task) =
               IF "ollama" \in Usable(session) THEN Route("ollama", "", "LocalFirst") ELSE RouteError("NoRouteAvailable")
  <2>1. SessionRoute(session, task) =
          IF Locals(providers) = {} THEN RouteError("NoRouteAvailable")
          ELSE Route(providers[First(Locals(providers))].provider, "", "LocalFirst")
    BY <1>2, <1>3, <1>4, <1>8 DEF SessionRoute, resolve_route, kept, request, reject_default_model
  <2>2. /\ DOMAIN providers = DOMAIN session.providers
        /\ \A i \in DOMAIN providers :
             /\ providers[i].provider = session.providers[i]
             /\ i \in Locals(providers) <=> session.providers[i] = "ollama" /\ provider_enabled(session, "ollama")
    BY DEF available_providers, AvailableProvider, Locals
  <2> HIDE DEF providers
  <2>3. Locals(providers) # {} <=> "ollama" \in Usable(session)
    BY <2>2 DEF Usable, Locals
  <2>4. ASSUME Locals(providers) # {} PROVE providers[First(Locals(providers))].provider = "ollama"
    <3>1. Locals(providers) \subseteq Nat /\ Locals(providers) \subseteq DOMAIN providers
      BY <2>2, Positions DEF Locals
    <3>2. First(Locals(providers)) \in Locals(providers)
      BY <2>4, <3>1, FirstIsLeast
    <3> QED BY <2>2, <3>1, <3>2
  <2>5. SessionRoute(session, task) =
          IF "ollama" \in Usable(session) THEN Route("ollama", "", "LocalFirst") ELSE RouteError("NoRouteAvailable")
    BY <2>1, <2>3, <2>4
  <2> QED BY <2>5
<1> QED BY <1>6, <1>7, <1>8

\* Every route names a provider that is registered, enabled and asked for, and
\* what cannot be routed asks for the placeholder model or has no local provider.
LEMMA RoutedToUsable ==
  ASSUME NEW session \in RoutingConfigs, NEW task, NEW route, route = SessionRoute(session, task)
  PROVE  IF route.ok
         THEN /\ route.provider \in Usable(session)
              /\ \/ route.provider \in {"ollama", session.fallback.provider}
                 \/ \E i \in DOMAIN session.rules : /\ rule_matches(session.rules[i], task)
                                                    /\ session.rules[i].provider = route.provider
         ELSE \/ route.reason = "InvalidModelSlug"
              \/ route.reason = "NoRouteAvailable" /\ "ollama" \notin Usable(session)
<1>1. CASE Matching(session, task) # {}
  <2> DEFINE rule == session.rules[First(Matching(session, task))]
  <2>1. Matching(session, task) \subseteq Nat
    BY Positions DEF Matching
  <2>2. First(Matching(session, task)) \in Matching(session, task)
    BY <1>1, <2>1, FirstIsLeast
  <2>3. /\ First(Matching(session, task)) \in DOMAIN session.rules
        /\ rule.provider \in Usable(session) /\ rule_matches(rule, task)
    BY <2>2 DEF Matching
  <2>4. route = Resolved(rule.provider, rule.model, "RuleMatch")
    BY <1>1, RouteOfSession
  <2> HIDE DEF rule
  <2>5. IF route.ok THEN route.provider = rule.provider ELSE route.reason = "InvalidModelSlug"
    BY <2>4, ResolvedFields
  <2> QED BY <2>3, <2>5 DEF rule
<1>2. CASE Matching(session, task) = {} /\ session.fallback.provider \in Usable(session) \ {""}
  <2>1. route = Resolved(session.fallback.provider, session.fallback.model, "Fallback")
    BY <1>2, RouteOfSession
  <2>2. IF route.ok THEN route.provider = session.fallback.provider ELSE route.reason = "InvalidModelSlug"
    BY <2>1, ResolvedFields
  <2> QED BY <1>2, <2>2
<1>3. CASE Matching(session, task) = {} /\ session.fallback.provider \notin Usable(session) \ {""}
  <2>1. route = IF "ollama" \in Usable(session) THEN Route("ollama", "", "LocalFirst") ELSE RouteError("NoRouteAvailable")
    BY <1>3, RouteOfSession
  <2>2. CASE "ollama" \in Usable(session)
    <3>1. Route("ollama", "", "LocalFirst").ok /\ Route("ollama", "", "LocalFirst").provider = "ollama"
      BY DEF Route
    <3>2. route.ok /\ route.provider = "ollama"
      BY <2>1, <2>2, <3>1, Zenon
    <3> QED BY <2>2, <3>2
  <2>3. CASE "ollama" \notin Usable(session)
    <3>1. ~RouteError("NoRouteAvailable").ok /\ RouteError("NoRouteAvailable").reason = "NoRouteAvailable"
      BY DEF RouteError
    <3>2. ~route.ok /\ route.reason = "NoRouteAvailable"
      BY <2>1, <2>3, <3>1, Zenon
    <3> QED BY <2>3, <3>2
  <2> QED BY <2>2, <2>3
<1> QED BY <1>1, <1>2, <1>3

\* A provider turned off that a task does not use leaves its route alone.
LEMMA RouteKept ==
  ASSUME NEW session \in RoutingConfigs, NEW key, NEW task, NEW off, off = [session EXCEPT !.enabled = @ \ {key}],
         SessionRoute(session, task).ok, SessionRoute(session, task).provider # key
  PROVE  SessionRoute(off, task) = SessionRoute(session, task)
<1>1. /\ off.providers = session.providers /\ off.rules = session.rules /\ off.fallback = session.fallback
      /\ off.enabled = session.enabled \ {key} /\ off \in RoutingConfigs
  BY DEF RoutingConfigs
<1>2. Usable(off) \subseteq Usable(session) /\ Usable(session) \ {key} \subseteq Usable(off)
  BY <1>1 DEF Usable, provider_enabled
<1>3. Matching(off, task) \subseteq Matching(session, task)
  BY <1>1, <1>2 DEF Matching
<1>4. CASE Matching(session, task) # {}
  <2> DEFINE first == First(Matching(session, task))
             rule == session.rules[first]
  <2>1. Matching(session, task) \subseteq Nat
    BY Positions DEF Matching
  <2>2. first \in Matching(session, task)
    BY <1>4, <2>1, FirstIsLeast
  <2>3. SessionRoute(session, task) = Resolved(rule.provider, rule.model, "RuleMatch")
    BY <1>4, RouteOfSession
  <2>4. rule.provider # key
    BY <2>3, ResolvedFields
  <2>5. first \in Matching(off, task)
    <3> HIDE DEF first
    <3>1. first \in DOMAIN session.rules /\ rule_matches(rule, task) /\ rule.provider \in Usable(session)
      BY <2>2 DEF Matching
    <3>2. rule.provider \in Usable(off)
      BY <1>2, <2>4, <3>1
    <3> QED BY <1>1, <3>1, <3>2 DEF Matching
  <2>6. First(Matching(off, task)) = first
    BY <1>3, <2>1, <2>5, FirstOfFewer
  <2> HIDE DEF first
  <2>7. SessionRoute(off, task) = Resolved(rule.provider, rule.model, "RuleMatch")
    <3>1. Matching(off, task) # {} /\ off \in RoutingConfigs /\ off.rules = session.rules
      BY <1>1, <2>5
    <3>2. SessionRoute(off, task) =
            LET governing == off.rules[First(Matching(off, task))]
            IN  Resolved(governing.provider, governing.model, "RuleMatch")
      BY <3>1, RouteOfSession
    <3> QED BY <2>6, <3>1, <3>2
  <2> QED BY <2>3, <2>7
<1>5. CASE Matching(session, task) = {} /\ session.fallback.provider \in Usable(session) \ {""}
  <2>1. SessionRoute(session, task) = Resolved(session.fallback.provider, session.fallback.model, "Fallback")
    BY <1>5, RouteOfSession
  <2>2. session.fallback.provider # key
    BY <2>1, ResolvedFields
  <2>3. Matching(off, task) = {} /\ off.fallback.provider \in Usable(off) \ {""}
    BY <1>1, <1>2, <1>3, <1>5, <2>2
  <2>4. SessionRoute(off, task) = Resolved(session.fallback.provider, session.fallback.model, "Fallback")
    <3>1. off \in RoutingConfigs /\ off.fallback = session.fallback
      BY <1>1, <2>3
    <3>2. SessionRoute(off, task) = Resolved(off.fallback.provider, off.fallback.model, "Fallback")
      BY <2>3, <3>1, RouteOfSession
    <3> QED BY <3>1, <3>2
  <2> QED BY <2>1, <2>4
<1>6. CASE Matching(session, task) = {} /\ session.fallback.provider \notin Usable(session) \ {""}
  <2>1. SessionRoute(session, task)
          = IF "ollama" \in Usable(session) THEN Route("ollama", "", "LocalFirst") ELSE RouteError("NoRouteAvailable")
    BY <1>6, RouteOfSession
  <2>2. "ollama" \in Usable(session) /\ "ollama" # key
    <3>1. ~RouteError("NoRouteAvailable").ok /\ Route("ollama", "", "LocalFirst").provider = "ollama"
      BY DEF Route, RouteError
    <3> QED BY <2>1, <3>1
  <2>3. /\ Matching(off, task) = {} /\ off.fallback.provider \notin Usable(off) \ {""}
        /\ "ollama" \in Usable(off)
    BY <1>1, <1>2, <1>3, <1>6, <2>2
  <2>4. SessionRoute(off, task) = Route("ollama", "", "LocalFirst")
    BY <1>1, <2>3, RouteOfSession
  <2> QED BY <2>1, <2>2, <2>4
<1> QED BY <1>4, <1>5, <1>6

-----------------------------------------------------------------------------
(* The preflight. *)

\* The fields of a contract that have a default.
LEMMA ContractFields ==
  /\ DOMAIN Defaults = {"allowed_tools", "denied_tools", "allowed_paths", "denied_paths", "network_policy",
                        "provider_policy", "model_policy", "data_boundary", "commit_policy", "push_policy",
                        "approvals_required"}
  /\ Required = {"task_id", "task", "worker", "workspace", "schema_version"}
  BY DEF Defaults, Required, TextFields

\* What a contract says in a field is what its file says, or the default.
LEMMA ContractSays ==
  ASSUME NEW raw, NEW field \in DOMAIN Defaults
  PROVE  /\ raw[field] = {} => into_contract(raw)[field] = Defaults[field]
         /\ raw[field] # {} => into_contract(raw)[field] \in raw[field]
<1>1. field \notin Required
  BY ContractFields
<1>2. into_contract(raw)[field] = IF raw[field] = {} THEN Defaults[field] ELSE CHOOSE v \in raw[field] : TRUE
  BY <1>1 DEF into_contract, unwrap_or
<1> QED BY <1>2

LEMMA ParsedContract ==
  ASSUME NEW raw, NEW contract
  PROVE  contract \in parse(raw) <=>
           /\ contract = into_contract(raw) /\ validate_contract(contract)
           /\ \A field \in Required : raw[field] # {}
  BY DEF parse

\* A plan passes when no check finds anything.
NothingFound(plan, contract) ==
  /\ check_tools(plan, contract) = {} /\ check_paths(plan, contract) = {}
  /\ check_network(plan, contract) = {} /\ check_provider(plan, contract) = {}
  /\ check_model(plan, contract) = {} /\ check_data_boundary(plan, contract) = {}
  /\ check_commits_and_pushes(plan, contract) = {}

LEMMA PassedMeans ==
  ASSUME NEW plan, NEW contract
  PROVE  preflight(plan, contract).passed <=> NothingFound(plan, contract)
<1> DEFINE violations == check_tools(plan, contract) \cup check_paths(plan, contract)
                    \cup check_network(plan, contract) \cup check_provider(plan, contract)
                    \cup check_model(plan, contract) \cup check_data_boundary(plan, contract)
                    \cup check_commits_and_pushes(plan, contract)
<1>1. preflight(plan, contract).passed = (violations = {})
  BY DEF preflight
<1>2. violations = {} <=> NothingFound(plan, contract)
  BY DEF NothingFound
<1> QED BY <1>1, <1>2

LEMMA PassingMeans ==
  ASSUME NEW raw, NEW plan
  PROVE  plan \in Passing(raw) <=>
           plan \in Plans /\ into_contract(raw) \in parse(raw) /\ NothingFound(plan, into_contract(raw))
<1>1. \A contract \in parse(raw) : contract = into_contract(raw)
  BY ParsedContract
<1> QED BY <1>1, PassedMeans DEF Passing

\* Where the boundary is local_only, written or implied, what passes is local.
LEMMA LocalOnlyKeepsLocal ==
  ASSUME NEW raw, raw.data_boundary \in {{}, {"LocalOnly"}}, NEW plan \in Passing(raw)
  PROVE  plan.provider \in LOCAL_PROVIDER_NAMES /\ plan.network_hosts_needed \subseteq LOCAL_HOSTS
<1>1. "data_boundary" \in DOMAIN Defaults /\ Defaults["data_boundary"] = "LocalOnly"
  BY DEF Defaults
<1>2. into_contract(raw).data_boundary = "LocalOnly"
  BY <1>1, ContractSays
<1>3. check_data_boundary(plan, into_contract(raw)) = {}
  BY PassingMeans DEF NothingFound
<1>4. ~is_cloud_data_transfer(plan)
  BY <1>2, <1>3 DEF check_data_boundary
<1> QED BY <1>4 DEF is_cloud_data_transfer

\* A pattern "**/segment" covers a path with that segment anywhere.
LEMMA CoveredAtAnyDepth ==
  ASSUME NEW path \in Seq(STRING), NEW i \in DOMAIN path, NEW segment
  PROVE  /\ path[i] = segment => path_matches(Pattern(TRUE, <<segment>>, FALSE), path)
         /\ <<path[i], segment>> \in StartsWith => path_matches(Pattern(TRUE, <<segment>>, TRUE), path)
<1>1. i \in 1..Len(path) /\ Len(path) \in Nat
  OBVIOUS
<1>2. <<segment>> # <<>> /\ Len(<<segment>>) = 1 /\ <<segment>>[1] = segment
  OBVIOUS
<1>3. ASSUME path[i] = segment PROVE is_under_root(<<segment>>, SubSeq(path, i, Len(path)))
  <2> DEFINE rest == SubSeq(path, i, Len(path))
  <2>1. rest \in Seq(STRING) /\ Len(rest) = Len(path) - i + 1 /\ rest[1] = path[i]
    BY <1>1
  <2> HIDE DEF rest
  <2>2. Len(rest) >= 1
    BY <1>1, <2>1
  <2>3. SubSeq(rest, 1, 1) = <<rest[1]>>
    <3>1. rest[1] \in STRING
      BY <2>1, <2>2
    <3>2. SubSeq(rest, 1, 1) \in Seq(STRING) /\ Len(SubSeq(rest, 1, 1)) = 1 /\ SubSeq(rest, 1, 1)[1] = rest[1]
      BY <2>1, <2>2
    <3> DEFINE cut == SubSeq(rest, 1, 1)
               one == <<rest[1]>>
    <3>3. one \in Seq(STRING) /\ Len(one) = 1 /\ one[1] = rest[1]
      BY <3>1
    <3> HIDE DEF cut, one
    <3>4. cut = one
      BY <3>2, <3>3, SeqEqual DEF cut
    <3> QED BY <3>4 DEF cut, one
  <2> QED BY <1>2, <1>3, <2>1, <2>2, <2>3 DEF is_under_root, rest
<1>4. path[i] = segment => matches_at_any_depth(<<segment>>, path, FALSE)
  BY <1>2, <1>3 DEF matches_at_any_depth
<1>5. <<path[i], segment>> \in StartsWith => matches_at_any_depth(<<segment>>, path, TRUE)
  BY <1>2 DEF matches_at_any_depth
<1> QED BY <1>4, <1>5 DEF path_matches, Pattern

\* A contract silent on denied_paths lets no plan pass that changes what the
\* defaults guard.
LEMMA DefaultsGuard ==
  ASSUME NEW raw, raw.denied_paths = {}, NEW plan \in Passing(raw), NEW path \in plan.files_to_change,
         NEW i \in DOMAIN path
  PROVE  path[i] \notin {".git", "node_modules", "target"} /\ <<path[i], ".env">> \notin StartsWith
<1>1. "denied_paths" \in DOMAIN Defaults /\ Defaults["denied_paths"] = default_denied_paths
  BY DEF Defaults
<1>2. into_contract(raw).denied_paths = default_denied_paths
  BY <1>1, ContractSays
<1>3. plan \in Plans /\ check_paths(plan, into_contract(raw)) = {}
  BY PassingMeans DEF NothingFound
<1>4. ~CoveredBy(default_denied_paths, path)
  BY <1>2, <1>3 DEF check_paths, Violations
<1>5. path \in Seq(STRING)
  BY <1>3, PlanAssumption
<1>6. ASSUME NEW segment \in {".git", "node_modules", "target"} PROVE path[i] # segment
  <2>1. Pattern(TRUE, <<segment>>, FALSE) \in default_denied_paths
    BY <1>6 DEF default_denied_paths
  <2> QED BY <1>4, <1>5, <2>1, CoveredAtAnyDepth DEF CoveredBy
<1>7. <<path[i], ".env">> \notin StartsWith
  <2>1. Pattern(TRUE, <<".env">>, TRUE) \in default_denied_paths
    BY DEF default_denied_paths
  <2> QED BY <1>4, <1>5, <2>1, CoveredAtAnyDepth DEF CoveredBy
<1> QED BY <1>6, <1>7

Without(raw, field) == [raw EXCEPT ![field] = {}]

\* What a field that must be there says.
ValueOf(field) == CHOOSE v \in field : TRUE

\* A field that is left out changes no other field of the contract, nor whether
\* there is one.
LEMMA OmittedField ==
  ASSUME NEW raw, IsContractFile(raw), NEW field \in DOMAIN Defaults, NEW off, off = Without(raw, field)
  PROVE  /\ \A other \in DOMAIN Defaults \cup Required : other # field => into_contract(off)[other] = into_contract(raw)[other]
         /\ into_contract(off)[field] = Defaults[field]
         /\ into_contract(off) \in parse(off) <=> into_contract(raw) \in parse(raw)
<1>1. /\ DOMAIN raw = DOMAIN Defaults \cup Required /\ off[field] = {}
      /\ \A other \in DOMAIN Defaults \cup Required : other # field => off[other] = raw[other]
  BY DEF IsContractFile, Without
<1>2. field \notin Required
  BY ContractFields
<1>3. \A other \in DOMAIN Defaults \cup Required : other # field => into_contract(off)[other] = into_contract(raw)[other]
  <2>1. \A file : \A other \in DOMAIN Defaults \cup Required :
          into_contract(file)[other] = IF other \in Required THEN ValueOf(file[other])
                                       ELSE unwrap_or(file[other], Defaults[other])
    BY DEF into_contract, ValueOf
  <2> QED BY <1>1, <2>1
<1>4. into_contract(off)[field] = Defaults[field]
  BY <1>1, ContractSays
<1>5. \A other \in Required : into_contract(off)[other] = into_contract(raw)[other] /\ off[other] = raw[other]
  BY <1>1, <1>2, <1>3
<1>6. TextFields \subseteq Required /\ "schema_version" \in Required
  BY DEF Required
<1>7. validate_contract(into_contract(off)) <=> validate_contract(into_contract(raw))
  BY <1>5, <1>6 DEF validate_contract
<1> QED BY <1>3, <1>4, <1>5, <1>7, ParsedContract

\* What a check finds in a contract it finds in one with a default in a field whose
\* absence means the most restrictive value, but for the providers that only an
\* allow list refused.
Omitted(c, d, field) ==
  /\ \A other \in DOMAIN Defaults : other # field => d[other] = c[other]
  /\ field \in FailClosed /\ d[field] = Defaults[field]
  /\ c.network_policy.is \in {"Deny", "AllowList", "Allow"}
  /\ c.provider_policy.is \in {"LocalOnly", "AllowList", "Any"}

LEMMA OmittedValues ==
  ASSUME NEW c, NEW d, NEW field, Omitted(c, d, field)
  PROVE  /\ d.denied_tools = c.denied_tools /\ d.denied_paths = c.denied_paths
         /\ d.allowed_tools \in {c.allowed_tools, {}} /\ d.allowed_paths \in {c.allowed_paths, {}}
         /\ d.network_policy \in {c.network_policy, PlainPolicy("Deny")}
         /\ \/ d.provider_policy = c.provider_policy
            \/ field = "provider_policy" /\ d.provider_policy = PlainPolicy("LocalOnly")
         /\ d.model_policy \in {c.model_policy, AllowList({})}
         /\ d.data_boundary \in {c.data_boundary, "LocalOnly"}
         /\ d.commit_policy \in {c.commit_policy, "Never"} /\ d.push_policy \in {c.push_policy, "Never"}
         /\ d.approvals_required \in {c.approvals_required, PlainPolicy("All")}
<1>1. \A other \in DOMAIN Defaults : d[other] = c[other] \/ (other = field /\ d[other] = Defaults[other])
  BY DEF Omitted
<1>2. field \notin {"denied_tools", "denied_paths"}
  BY DEF Omitted, FailClosed
<1>3. /\ Defaults["allowed_tools"] = {} /\ Defaults["allowed_paths"] = {}
      /\ Defaults["network_policy"] = PlainPolicy("Deny") /\ Defaults["provider_policy"] = PlainPolicy("LocalOnly")
      /\ Defaults["model_policy"] = AllowList({}) /\ Defaults["data_boundary"] = "LocalOnly"
      /\ Defaults["commit_policy"] = "Never" /\ Defaults["push_policy"] = "Never"
      /\ Defaults["approvals_required"] = PlainPolicy("All")
  BY DEF Defaults
<1> QED BY <1>1, <1>2, <1>3, ContractFields

LEMMA StricterChecks ==
  ASSUME NEW c, NEW d, NEW field, Omitted(c, d, field), NEW plan, NothingFound(plan, d)
  PROVE  \/ NothingFound(plan, c)
         \/ field = "provider_policy" /\ plan.provider \in LOCAL_PROVIDER_NAMES /\ check_provider(plan, c) # {}
<1>1. check_tools(plan, c) = {}
  <2>1. check_tools(plan, d) = {}
    BY DEF NothingFound
  <2>2. plan.tools_needed \cap d.denied_tools = {} /\ plan.tools_needed \subseteq d.allowed_tools
    BY <2>1 DEF check_tools, Violations
  <2>3. plan.tools_needed \cap c.denied_tools = {} /\ plan.tools_needed \subseteq c.allowed_tools
    BY <2>2, OmittedValues
  <2> QED BY <2>3 DEF check_tools, Violations
<1>2. check_paths(plan, c) = {}
  <2>1. check_paths(plan, d) = {}
    BY DEF NothingFound
  <2>2. \A path \in plan.files_to_change : ~CoveredBy(d.denied_paths, path) /\ CoveredBy(d.allowed_paths, path)
    BY <2>1 DEF check_paths, Violations
  <2>3. ~\E path \in plan.files_to_change : d.allowed_paths = {}
    BY <2>2 DEF CoveredBy
  <2>4. \A path \in plan.files_to_change : ~CoveredBy(c.denied_paths, path) /\ CoveredBy(c.allowed_paths, path)
    BY <2>2, <2>3, OmittedValues
  <2> QED BY <2>4 DEF check_paths, Violations
<1>3. check_network(plan, c) = {}
  <2>1. check_network(plan, d) = {}
    BY DEF NothingFound
  <2>2. CASE d.network_policy = c.network_policy
    BY <2>1, <2>2 DEF check_network
  <2>3. CASE d.network_policy = PlainPolicy("Deny")
    <3>1. d.network_policy.is = "Deny"
      BY <2>3 DEF PlainPolicy
    <3>2. plan.network_hosts_needed = {}
      BY <2>1, <3>1 DEF check_network
    <3> QED BY <3>2 DEF check_network, Omitted, Violations
  <2> QED BY <2>2, <2>3, OmittedValues
<1>4. check_model(plan, c) = {}
  <2>1. check_model(plan, d) = {}
    BY DEF NothingFound
  <2>2. CASE d.model_policy = AllowList({})
    <3>1. d.model_policy.is = "AllowList" /\ d.model_policy.list = {}
      BY <2>2 DEF AllowList
    <3>2. plan.model = ""
      BY <2>1, <3>1 DEF check_model
    <3> QED BY <3>2 DEF check_model
  <2>3. CASE d.model_policy = c.model_policy
    BY <2>1, <2>3 DEF check_model
  <2> QED BY <2>2, <2>3, OmittedValues
<1>5. check_data_boundary(plan, c) = {}
  BY OmittedValues DEF NothingFound, check_data_boundary
<1>6. check_commits_and_pushes(plan, c) = {}
  <2>1. Gate(d.commit_policy, plan.estimated_commits, "commit_denied") = {} /\ Gate(d.push_policy, plan.estimated_pushes, "push_denied") = {}
    BY DEF NothingFound, check_commits_and_pushes
  <2>2. Gate(c.commit_policy, plan.estimated_commits, "commit_denied") = {}
    BY <2>1, OmittedValues DEF Gate
  <2>3. Gate(c.push_policy, plan.estimated_pushes, "push_denied") = {}
    BY <2>1, OmittedValues DEF Gate
  <2> QED BY <2>2, <2>3 DEF check_commits_and_pushes
<1>7. CASE d.provider_policy = c.provider_policy
  <2>1. check_provider(plan, c) = {}
    BY <1>7 DEF NothingFound, check_provider
  <2> QED BY <1>1, <1>2, <1>3, <1>4, <1>5, <1>6, <2>1 DEF NothingFound
<1>8. CASE field = "provider_policy" /\ d.provider_policy = PlainPolicy("LocalOnly") /\ check_provider(plan, c) # {}
  <2>1. d.provider_policy.is = "LocalOnly"
    BY <1>8 DEF PlainPolicy
  <2>2. plan.provider = "" \/ plan.provider \in LOCAL_PROVIDER_NAMES
    BY <2>1 DEF NothingFound, check_provider
  <2>3. plan.provider # ""
    BY <1>8 DEF check_provider
  <2> QED BY <1>8, <2>2, <2>3
<1>9. CASE check_provider(plan, c) = {}
  BY <1>1, <1>2, <1>3, <1>4, <1>5, <1>6, <1>9 DEF NothingFound
<1> QED BY <1>7, <1>8, <1>9, OmittedValues

\* Nor is an approval dropped, but for one of all actions.
LEMMA ApprovalsKept ==
  ASSUME NEW c, NEW d, NEW field, Omitted(c, d, field), NEW plan, NothingFound(plan, d)
  PROVE  \/ "all_actions" \in approvals_required(plan, d)
         \/ approvals_required(plan, c) \subseteq approvals_required(plan, d)
<1>1. Gate(d.commit_policy, plan.estimated_commits, "commit_denied") = {} /\ Gate(d.push_policy, plan.estimated_pushes, "push_denied") = {}
  BY DEF NothingFound, check_commits_and_pushes
<1>2. NeedsApproval(c.commit_policy, plan.estimated_commits, "commit") \subseteq NeedsApproval(d.commit_policy, plan.estimated_commits, "commit")
  BY <1>1, OmittedValues DEF Gate, NeedsApproval
<1>3. NeedsApproval(c.push_policy, plan.estimated_pushes, "push") \subseteq NeedsApproval(d.push_policy, plan.estimated_pushes, "push")
  BY <1>1, OmittedValues DEF Gate, NeedsApproval
<1>4. CASE d.approvals_required = c.approvals_required
  <2>1. collect_approval_scope(d) = collect_approval_scope(c)
    BY <1>4 DEF collect_approval_scope
  <2> QED BY <1>2, <1>3, <2>1 DEF approvals_required
<1>5. CASE d.approvals_required = PlainPolicy("All")
  <2>1. d.approvals_required.is = "All"
    BY <1>5 DEF PlainPolicy
  <2>2. "all_actions" \in collect_approval_scope(d)
    BY <2>1 DEF collect_approval_scope
  <2> QED BY <2>2 DEF approvals_required
<1> QED BY <1>4, <1>5, OmittedValues

\* Leaving out a field.
LEMMA OmissionCloses ==
  ASSUME NEW raw, IsContractFile(raw), NEW field, NEW off, off = Without(raw, field)
  PROVE  /\ field \in Required => parse(off) = {}
         /\ field \in FailClosed =>
              /\ parse(off) = {} <=> parse(raw) = {}
              /\ \A plan \in Passing(off) :
                   /\ \/ plan \in Passing(raw)
                      \/ /\ field = "provider_policy" /\ plan.provider \in LOCAL_PROVIDER_NAMES
                         /\ \E contract \in parse(raw) : check_provider(plan, contract) # {}
                   /\ \/ "all_actions" \in Approvals(off, plan)
                      \/ Approvals(raw, plan) \subseteq Approvals(off, plan)
<1>1. ASSUME field \in Required PROVE parse(off) = {}
  <2>1. field \in DOMAIN raw
    BY <1>1 DEF IsContractFile
  <2>2. off[field] = {}
    BY <2>1 DEF Without
  <2> QED BY <1>1, <2>2 DEF parse
<1>2. ASSUME field \in FailClosed
      PROVE  /\ parse(off) = {} <=> parse(raw) = {}
             /\ \A plan \in Passing(off) :
                  /\ \/ plan \in Passing(raw)
                     \/ /\ field = "provider_policy" /\ plan.provider \in LOCAL_PROVIDER_NAMES
                        /\ \E contract \in parse(raw) : check_provider(plan, contract) # {}
                  /\ \/ "all_actions" \in Approvals(off, plan)
                     \/ Approvals(raw, plan) \subseteq Approvals(off, plan)
  <2> DEFINE c == into_contract(raw)
             d == into_contract(off)
  <2>1. field \in DOMAIN Defaults
    BY <1>2 DEF FailClosed
  <2>2. /\ \A other \in DOMAIN Defaults : other # field => d[other] = c[other]
        /\ d[field] = Defaults[field] /\ (d \in parse(off) <=> c \in parse(raw))
    <3>1. /\ \A other \in DOMAIN Defaults \cup Required : other # field => d[other] = c[other]
          /\ d[field] = Defaults[field]
          /\ d \in parse(off) <=> c \in parse(raw)
      BY <2>1, OmittedField
    <3> HIDE DEF c, d
    <3> QED BY <3>1
  <2>3. c.network_policy.is \in {"Deny", "AllowList", "Allow"}
    <3>1. "network_policy" \in DOMAIN Defaults /\ Defaults["network_policy"].is = "Deny"
      BY DEF Defaults, PlainPolicy
    <3>2. c["network_policy"] = Defaults["network_policy"] \/ c["network_policy"] \in raw["network_policy"]
      BY <3>1, ContractSays
    <3> QED BY <3>1, <3>2 DEF IsContractFile
  <2>4. c.provider_policy.is \in {"LocalOnly", "AllowList", "Any"}
    <3>1. "provider_policy" \in DOMAIN Defaults /\ Defaults["provider_policy"].is = "LocalOnly"
      BY DEF Defaults, PlainPolicy
    <3>2. c["provider_policy"] = Defaults["provider_policy"] \/ c["provider_policy"] \in raw["provider_policy"]
      BY <3>1, ContractSays
    <3> QED BY <3>1, <3>2 DEF IsContractFile
  <2> HIDE DEF c, d
  <2>5. Omitted(c, d, field)
    BY <1>2, <2>2, <2>3, <2>4 DEF Omitted
  <2>6. \A file, contract : contract \in parse(file) => contract = into_contract(file)
    BY ParsedContract
  <2>7. parse(off) = {} <=> parse(raw) = {}
    BY <2>2, <2>6 DEF c, d
  <2>8. ASSUME NEW plan \in Passing(off)
        PROVE  /\ \/ plan \in Passing(raw)
                  \/ /\ field = "provider_policy" /\ plan.provider \in LOCAL_PROVIDER_NAMES
                     /\ \E contract \in parse(raw) : check_provider(plan, contract) # {}
               /\ \/ "all_actions" \in Approvals(off, plan)
                  \/ Approvals(raw, plan) \subseteq Approvals(off, plan)
    <3>1. plan \in Plans /\ d \in parse(off) /\ NothingFound(plan, d)
      BY PassingMeans DEF d
    <3>2. c \in parse(raw)
      BY <2>2, <3>1
    <3>3. \/ NothingFound(plan, c)
          \/ field = "provider_policy" /\ plan.provider \in LOCAL_PROVIDER_NAMES /\ check_provider(plan, c) # {}
      BY <2>5, <3>1, StricterChecks
    <3>4. \/ "all_actions" \in approvals_required(plan, d)
          \/ approvals_required(plan, c) \subseteq approvals_required(plan, d)
      BY <2>5, <3>1, ApprovalsKept
    <3>5. parse(off) = {d} /\ parse(raw) = {c}
      BY <2>6, <3>1, <3>2 DEF c, d
    <3>6. Approvals(off, plan) = approvals_required(plan, d) /\ Approvals(raw, plan) = approvals_required(plan, c)
      BY <3>5 DEF Approvals, preflight
    <3>7. NothingFound(plan, c) => plan \in Passing(raw)
      BY <3>1, <3>2, PassingMeans DEF c
    <3> QED BY <3>2, <3>3, <3>4, <3>6, <3>7
  <2> QED BY <2>7, <2>8
<1> QED BY <1>1, <1>2

-----------------------------------------------------------------------------
(* Digests. *)

\* digest is the function Digest computes, up to the i-th event.
DigestsUpTo(digest, events, i) ==
  digest = [n \in 0..i |-> IF n = 0 THEN GENESIS_HASH ELSE hash_step(digest[n - 1], events[n])]

LEMMA DigestsExist ==
  ASSUME NEW events, NEW i \in Nat
  PROVE  \E digest : DigestsUpTo(digest, events, i)
<1> DEFINE T == {k \in Nat : \E digest : DigestsUpTo(digest, events, k)}
<1>1. 0 \in T
  <2> DEFINE f == [n \in 0..0 |-> GENESIS_HASH]
  <2>1. DigestsUpTo(f, events, 0)
    BY DEF DigestsUpTo
  <2> HIDE DEF f
  <2> QED BY <2>1
<1>2. ASSUME NEW k \in Nat, k \in T PROVE k + 1 \in T
  <2>1. PICK digest : DigestsUpTo(digest, events, k)
    BY <1>2
  <2> DEFINE f == [n \in 0..(k + 1) |-> IF n = k + 1 THEN hash_step(digest[k], events[k + 1]) ELSE digest[n]]
  <2>2. \A n \in 0..k : digest[n] = IF n = 0 THEN GENESIS_HASH ELSE hash_step(digest[n - 1], events[n])
    BY <2>1 DEF DigestsUpTo
  <2>3. \A n \in 0..k : f[n] = digest[n] /\ n # k + 1
    OBVIOUS
  <2>4. f[k + 1] = hash_step(digest[k], events[k + 1]) /\ k \in 0..k /\ k + 1 - 1 = k /\ k + 1 # 0
    OBVIOUS
  <2>5. f = [n \in 0..(k + 1) |-> f[n]]
    OBVIOUS
  <2> HIDE DEF f
  <2>6. ASSUME NEW n \in 0..(k + 1) PROVE f[n] = IF n = 0 THEN GENESIS_HASH ELSE hash_step(f[n - 1], events[n])
    <3>1. CASE n = k + 1
      BY <2>3, <2>4, <3>1
    <3>2. CASE n \in 0..k
      <4>1. n # 0 => n - 1 \in 0..k
        BY <3>2
      <4> QED BY <2>2, <2>3, <3>2, <4>1
    <3> QED BY <3>1, <3>2
  <2>7. DigestsUpTo(f, events, k + 1)
    BY <2>5, <2>6 DEF DigestsUpTo
  <2> QED BY <2>7
<1> HIDE DEF T
<1>3. i \in T
  BY <1>1, <1>2, NaturalsFromZero
<1> QED BY <1>3 DEF T

LEMMA DigestsAgree ==
  ASSUME NEW events, NEW i \in Nat, NEW j \in Nat, NEW f, NEW g, DigestsUpTo(f, events, i), DigestsUpTo(g, events, j)
  PROVE  \A n \in Nat : n <= i /\ n <= j => f[n] = g[n]
<1> DEFINE T == {n \in Nat : n <= i /\ n <= j => f[n] = g[n]}
<1>1. \A n \in 0..i : f[n] = IF n = 0 THEN GENESIS_HASH ELSE hash_step(f[n - 1], events[n])
  BY DEF DigestsUpTo
<1>2. \A n \in 0..j : g[n] = IF n = 0 THEN GENESIS_HASH ELSE hash_step(g[n - 1], events[n])
  BY DEF DigestsUpTo
<1>3. 0 \in T
  BY <1>1, <1>2
<1>4. ASSUME NEW n \in Nat, n \in T PROVE n + 1 \in T
  <2> SUFFICES ASSUME n + 1 <= i, n + 1 <= j PROVE f[n + 1] = g[n + 1]
    OBVIOUS
  <2>1. f[n] = g[n]
    BY <1>4
  <2>2. n + 1 \in 0..i /\ n + 1 \in 0..j /\ n + 1 # 0 /\ n + 1 - 1 = n
    OBVIOUS
  <2> QED BY <1>1, <1>2, <2>1, <2>2
<1> HIDE DEF T
<1>5. Nat \subseteq T
  BY <1>3, <1>4, NaturalsFromZero
<1> QED BY <1>5 DEF T

\* A digest is the step of the one before.
LEMMA DigestSteps ==
  ASSUME NEW events
  PROVE  /\ Digest(events, 0) = GENESIS_HASH
         /\ \A i \in Nat : Digest(events, i + 1) = hash_step(Digest(events, i), events[i + 1])
<1>1. ASSUME NEW i \in Nat PROVE \E f : DigestsUpTo(f, events, i) /\ Digest(events, i) = f[i]
  <2> DEFINE digest == CHOOSE f : DigestsUpTo(f, events, i)
  <2>1. DigestsUpTo(digest, events, i)
    BY DigestsExist
  <2>2. Digest(events, i) = digest[i]
    BY DEF Digest, DigestsUpTo
  <2> HIDE DEF digest
  <2> QED BY <2>1, <2>2
<1>2. Digest(events, 0) = GENESIS_HASH
  <2>1. PICK f : DigestsUpTo(f, events, 0) /\ Digest(events, 0) = f[0]
    BY <1>1
  <2> QED BY <2>1 DEF DigestsUpTo
<1>3. ASSUME NEW i \in Nat PROVE Digest(events, i + 1) = hash_step(Digest(events, i), events[i + 1])
  <2>1. PICK f : DigestsUpTo(f, events, i + 1) /\ Digest(events, i + 1) = f[i + 1]
    BY <1>1
  <2>2. PICK g : DigestsUpTo(g, events, i) /\ Digest(events, i) = g[i]
    BY <1>1
  <2>3. f[i] = g[i]
    BY <2>1, <2>2, DigestsAgree
  <2>4. f[i + 1] = hash_step(f[i], events[i + 1])
    <3>1. \A n \in 0..(i + 1) : f[n] = IF n = 0 THEN GENESIS_HASH ELSE hash_step(f[n - 1], events[n])
      BY <2>1 DEF DigestsUpTo
    <3>2. i + 1 \in 0..(i + 1) /\ i + 1 # 0 /\ i + 1 - 1 = i
      OBVIOUS
    <3> QED BY <3>1, <3>2
  <2> QED BY <2>1, <2>2, <2>3, <2>4
<1> QED BY <1>2, <1>3

\* Equal events have equal digests.
LEMMA DigestOfEvents ==
  ASSUME NEW a, NEW b, NEW i \in Nat, \A k \in 1..i : a[k] = b[k]
  PROVE  Digest(a, i) = Digest(b, i)
<1> DEFINE T == {n \in Nat : n <= i => Digest(a, n) = Digest(b, n)}
<1>1. 0 \in T
  BY DigestSteps
<1>2. ASSUME NEW n \in Nat, n \in T PROVE n + 1 \in T
  <2> SUFFICES ASSUME n + 1 <= i PROVE Digest(a, n + 1) = Digest(b, n + 1)
    OBVIOUS
  <2>1. Digest(a, n) = Digest(b, n) /\ a[n + 1] = b[n + 1]
    BY <1>2
  <2> QED BY <2>1, DigestSteps
<1> HIDE DEF T
<1>3. i \in T
  BY <1>1, <1>2, NaturalsFromZero
<1> QED BY <1>3 DEF T

\* And equal digests are of equal events, as many of them.
LEMMA DigestTells ==
  ASSUME NEW a, NEW b, NEW i \in Nat, NEW j \in Nat, Digest(a, i) = Digest(b, j)
  PROVE  i = j /\ \A k \in 1..i : a[k] = b[k]
<1> DEFINE Told(n, m) == Digest(a, n) = Digest(b, m) => n = m /\ \A k \in 1..n : a[k] = b[k]
           T == {n \in Nat : \A m \in Nat : Told(n, m)}
<1>1. \A events : \A n \in Nat : n # 0 => Digest(events, n) = <<Digest(events, n - 1), events[n]>> /\ n - 1 \in Nat
  <2> SUFFICES ASSUME NEW events, NEW n \in Nat, n # 0
               PROVE  Digest(events, n) = <<Digest(events, n - 1), events[n]>> /\ n - 1 \in Nat
    OBVIOUS
  <2>1. n - 1 \in Nat /\ (n - 1) + 1 = n
    OBVIOUS
  <2>2. Digest(events, (n - 1) + 1) = hash_step(Digest(events, n - 1), events[(n - 1) + 1])
    BY <2>1, DigestSteps
  <2> QED BY <2>1, <2>2 DEF hash_step
<1>2. \A events : Digest(events, 0) = <<>>
  BY DigestSteps DEF GENESIS_HASH
<1>3. \A x, y : <<x, y>> # <<>>
  OBVIOUS
<1>4. 0 \in T
  <2> SUFFICES ASSUME NEW m \in Nat, Digest(a, 0) = Digest(b, m) PROVE m = 0
    OBVIOUS
  <2>1. Digest(b, m) = <<>>
    BY <1>2
  <2>2. m # 0 => Digest(b, m) = <<Digest(b, m - 1), b[m]>>
    BY <1>1
  <2> QED BY <1>3, <2>1, <2>2
<1>5. ASSUME NEW n \in Nat, n \in T PROVE n + 1 \in T
  <2> SUFFICES ASSUME NEW m \in Nat, Digest(a, n + 1) = Digest(b, m)
               PROVE  n + 1 = m /\ \A k \in 1..(n + 1) : a[k] = b[k]
    OBVIOUS
  <2>1. n + 1 \in Nat /\ n + 1 # 0 /\ n + 1 - 1 = n
    OBVIOUS
  <2>2. Digest(a, n + 1) = <<Digest(a, n), a[n + 1]>>
    BY <1>1, <2>1
  <2>3. m # 0
    BY <1>2, <1>3, <2>2
  <2>4. Digest(b, m) = <<Digest(b, m - 1), b[m]>> /\ m - 1 \in Nat
    BY <1>1, <2>3
  <2>5. <<Digest(a, n), a[n + 1]>> = <<Digest(b, m - 1), b[m]>>
    BY <2>2, <2>4
  <2>6. Digest(a, n) = Digest(b, m - 1) /\ a[n + 1] = b[m]
    BY <2>5
  <2>7. n = m - 1 /\ \A k \in 1..n : a[k] = b[k]
    BY <1>5, <2>4, <2>6
  <2>8. \A k \in 1..(n + 1) : k \in 1..n \/ k = n + 1
    OBVIOUS
  <2> QED BY <2>6, <2>7, <2>8
<1> HIDE DEF T
<1>6. i \in T
  BY <1>4, <1>5, NaturalsFromZero
<1> QED BY <1>6 DEF T

-----------------------------------------------------------------------------
(* The chain of a bundle. *)

Digests == UNION {{Digest(events, i) : i \in Nat} : events \in Seq(Events)}

\* The digests of a recording.
DigestsOf(events) == {Digest(events, i) : i \in 1..Len(events)}

Links(hashes) == [event : Events, hash : hashes]

\* A hash in the chain of a bundle is one of its recording, until a chain is
\* computed afresh.
HashesOf(case) == IF case.rehashed THEN Digests ELSE DigestsOf(case.recorded)

ProofBundles ==
  [identity : {"task"}, audit_chain : Seq(Links(Digests)), expected_event_count : SUBSET Nat,
   fields : [PlainFields \cup Checks -> {"not run", "empty", "passed"}]]

IsBundleCase(case) ==
  /\ case \in [recorded : Seq(Events), rehashed : BOOLEAN, edits : Nat, bundle : ProofBundles]
  /\ case.bundle.audit_chain \in Seq(Links(HashesOf(case)))

LEMMA DigestIsDigest ==
  ASSUME NEW events \in Seq(Events)
  PROVE  (\A i \in Nat : Digest(events, i) \in Digests) /\ DigestsOf(events) \subseteq Digests
<1>1. \A i \in Nat : Digest(events, i) \in Digests
  BY DEF Digests
<1>2. Len(events) \in Nat
  OBVIOUS
<1> QED BY <1>1, <1>2 DEF DigestsOf

LEMMA BuiltChain ==
  ASSUME NEW events \in Seq(Events)
  PROVE  /\ build_chain(events) \in Seq(Links(DigestsOf(events))) /\ build_chain(events) \in Seq(Links(Digests))
         /\ Len(build_chain(events)) = Len(events)
         /\ \A i \in 1..Len(events) : /\ build_chain(events)[i].event = events[i]
                                      /\ build_chain(events)[i].hash = Digest(events, i)
<1>1. DOMAIN events = 1..Len(events) /\ Len(events) \in Nat /\ \A i \in 1..Len(events) : events[i] \in Events
  OBVIOUS
<1>2. build_chain(events) = [i \in 1..Len(events) |-> [event |-> events[i], hash |-> Digest(events, i)]]
  BY <1>1 DEF build_chain
<1>3. \A i \in 1..Len(events) : [event |-> events[i], hash |-> Digest(events, i)] \in Links(DigestsOf(events))
  BY <1>1 DEF Links, DigestsOf
<1>4. DigestsOf(events) \subseteq Digests
  BY DigestIsDigest
<1>5. Links(DigestsOf(events)) \subseteq Links(Digests)
  BY <1>4 DEF Links
<1> DEFINE link(i) == [event |-> events[i], hash |-> Digest(events, i)]
<1>6. \A i \in 1..Len(events) : link(i).event = events[i] /\ link(i).hash = Digest(events, i)
  OBVIOUS
<1> HIDE DEF link
<1>7. build_chain(events) \in Seq(Links(DigestsOf(events))) /\ Len(build_chain(events)) = Len(events)
  BY <1>1, <1>2, <1>3, IsASeq
<1>8. build_chain(events) \in Seq(Links(Digests))
  BY <1>5, <1>7
<1>9. \A i \in 1..Len(events) : build_chain(events)[i] = link(i)
  BY <1>2 DEF link
<1> QED BY <1>6, <1>7, <1>8, <1>9

LEMMA EventsOfChain ==
  ASSUME NEW hashes, NEW chain \in Seq(Links(hashes))
  PROVE  /\ EventsOf(chain) \in Seq(Events) /\ Len(EventsOf(chain)) = Len(chain)
         /\ \A i \in 1..Len(chain) : EventsOf(chain)[i] = chain[i].event
<1>1. DOMAIN chain = 1..Len(chain) /\ Len(chain) \in Nat /\ \A i \in 1..Len(chain) : chain[i].event \in Events
  <2>1. \A link \in Links(hashes) : link.event \in Events
    BY DEF Links
  <2>2. \A i \in 1..Len(chain) : chain[i] \in Links(hashes)
    OBVIOUS
  <2>3. DOMAIN chain = 1..Len(chain) /\ Len(chain) \in Nat
    OBVIOUS
  <2> QED BY <2>1, <2>2, <2>3
<1>2. EventsOf(chain) = [i \in 1..Len(chain) |-> chain[i].event]
  BY <1>1 DEF EventsOf
<1> QED BY <1>1, <1>2, IsASeq

\* A chain that verifies and ends in a digest of a recording is what was recorded
\* up to there.
LEMMA VerifiedFollows ==
  ASSUME NEW bundle \in ProofBundles, verify(bundle), NEW events \in Seq(Events), NEW j \in Nat,
         LET n == Len(bundle.audit_chain)
         IN  n # 0 /\ j <= Len(events) /\ bundle.audit_chain[n].hash = Digest(events, j)
  PROVE  /\ Len(bundle.audit_chain) = j
         /\ \A i \in 1..j : bundle.audit_chain[i] = build_chain(events)[i]
<1> DEFINE chain == bundle.audit_chain
<1>1. chain \in Seq(Links(Digests))
  BY DEF ProofBundles
<1>2. \A i \in 1..Len(chain) : chain[i].hash = Digest(EventsOf(chain), i)
  BY <1>1 DEF verify
<1> HIDE DEF chain
<1>3. Len(chain) \in Nat /\ Len(chain) \in 1..Len(chain)
  BY <1>1 DEF chain
<1>4. Digest(EventsOf(chain), Len(chain)) = Digest(events, j)
  BY <1>2, <1>3 DEF chain
<1>5. Len(chain) = j /\ \A k \in 1..Len(chain) : EventsOf(chain)[k] = events[k]
  BY <1>3, <1>4, DigestTells
<1>6. ASSUME NEW i \in 1..j PROVE chain[i] = build_chain(events)[i]
  <2>1. i \in Nat /\ i \in 1..Len(chain) /\ i \in 1..Len(events) /\ \A k \in 1..i : EventsOf(chain)[k] = events[k]
    BY <1>5
  <2>2. chain[i].event = events[i] /\ chain[i].hash = Digest(events, i)
    <3>1. Digest(EventsOf(chain), i) = Digest(events, i)
      BY <2>1, DigestOfEvents
    <3>2. EventsOf(chain)[i] = chain[i].event
      BY <1>1, <2>1, EventsOfChain
    <3> QED BY <1>2, <2>1, <3>1, <3>2
  <2>3. build_chain(events)[i].event = events[i] /\ build_chain(events)[i].hash = Digest(events, i)
        /\ build_chain(events)[i] \in Links(Digests) /\ chain[i] \in Links(Digests)
    <3>1. build_chain(events) \in Seq(Links(Digests)) /\ i \in 1..Len(build_chain(events))
      BY <2>1, BuiltChain
    <3> QED BY <1>1, <2>1, <3>1, BuiltChain
  <2>4. \A a, b \in Links(Digests) : a.event = b.event /\ a.hash = b.hash => a = b
    BY DEF Links
  <2> QED BY <2>2, <2>3, <2>4
<1> QED BY <1>5, <1>6 DEF chain

\* A bundle that verifies is what was recorded: when its head is, when its length
\* is and no chain was computed afresh, and else up to its end.
LEMMA VerifiedIsRecorded ==
  ASSUME NEW case, IsBundleCase(case), verify(case.bundle)
  PROVE  LET chain    == case.bundle.audit_chain
             recorded == build_chain(case.recorded)
         IN  /\ chain_head(chain) = chain_head(recorded) => chain = recorded
             /\ ~case.rehashed => IsPrefix(chain, recorded)
             /\ ~case.rehashed /\ Len(chain) = Len(recorded) => chain = recorded
<1> DEFINE chain == case.bundle.audit_chain
           events == case.recorded
           recorded == build_chain(events)
<1>1. /\ events \in Seq(Events) /\ case.bundle \in ProofBundles /\ case.rehashed \in BOOLEAN
      /\ chain \in Seq(Links(HashesOf(case)))
  BY DEF IsBundleCase
<1>2. chain \in Seq(Links(Digests)) /\ Len(chain) \in Nat
  <2>1. chain \in Seq(Links(Digests))
    BY <1>1 DEF ProofBundles
  <2> HIDE DEF chain
  <2> QED BY <2>1
<1>3. /\ recorded \in Seq(Links(Digests)) /\ Len(recorded) = Len(events) /\ Len(events) \in Nat
      /\ \A i \in 1..Len(events) : recorded[i].hash = Digest(events, i)
  BY <1>1, BuiltChain
<1>4. ASSUME Len(chain) # 0, NEW j \in Nat, j <= Len(events), chain[Len(chain)].hash = Digest(events, j)
      PROVE  Len(chain) = j /\ \A i \in 1..j : chain[i] = recorded[i]
  BY <1>1, <1>4, VerifiedFollows
<1> HIDE DEF chain, recorded, events
<1>5. ASSUME chain_head(chain) = chain_head(recorded) PROVE chain = recorded
  <2>1. \A S : \A s \in Seq(S) : (s = <<>> <=> Len(s) = 0) /\ (s = <<>> <=> chain_head(s) = {})
    <3>1. \A S : \A s \in Seq(S) : s = <<>> <=> Len(s) = 0
      BY EmptySeq
    <3>2. \A s : s = <<>> <=> chain_head(s) = {}
      BY DEF chain_head
    <3> QED BY <3>1, <3>2
  <2>2. CASE chain = <<>>
    BY <1>2, <1>3, <1>5, <2>1, <2>2
  <2>3. CASE chain # <<>>
    <3>1. recorded # <<>> /\ Len(chain) # 0 /\ Len(recorded) # 0
      BY <1>2, <1>3, <1>5, <2>1, <2>3
    <3>2. chain[Len(chain)].hash = recorded[Len(recorded)].hash
      BY <1>5, <2>3, <3>1 DEF chain_head
    <3>3. recorded[Len(recorded)].hash = Digest(events, Len(events))
      BY <1>3, <3>1
    <3>4. Len(chain) = Len(events) /\ \A i \in 1..Len(events) : chain[i] = recorded[i]
      BY <1>3, <1>4, <3>1, <3>2, <3>3
    <3> QED BY <1>2, <1>3, <3>4, SeqEqual
  <2> QED BY <2>2, <2>3
<1>6. ASSUME ~case.rehashed
      PROVE  Len(chain) <= Len(recorded) /\ \A i \in 1..Len(chain) : chain[i] = recorded[i]
  <2>1. CASE Len(chain) = 0
    BY <1>3, <2>1
  <2>2. CASE Len(chain) # 0
    <3>1. Len(chain) \in 1..Len(chain)
      BY <1>2, <2>2
    <3>2. chain[Len(chain)] \in Links(DigestsOf(events))
      BY <1>1, <1>6, <3>1 DEF HashesOf, chain, events
    <3>3. chain[Len(chain)].hash \in DigestsOf(events)
      BY <3>2 DEF Links
    <3>4. PICK j \in 1..Len(events) : chain[Len(chain)].hash = Digest(events, j)
      BY <3>3 DEF DigestsOf
    <3>5. j \in Nat /\ j <= Len(events)
      BY <1>3
    <3> QED BY <1>3, <1>4, <2>2, <3>4, <3>5
  <2> QED BY <2>1, <2>2
<1>7. ASSUME ~case.rehashed PROVE IsPrefix(chain, recorded)
  <2> DEFINE n == Len(chain)
  <2>1. \A i \in 1..n : chain[i] \in Links(Digests) /\ recorded[i] \in Links(Digests)
    BY <1>2, <1>3, <1>6, <1>7
  <2>2. n \in Int /\ 1 \in Int
    BY <1>2
  <2>3. /\ SubSeq(chain, 1, n) \in Seq(Links(Digests))
        /\ Len(SubSeq(chain, 1, n)) = IF 1 <= n THEN n - 1 + 1 ELSE 0
        /\ \A i \in 1..n : SubSeq(chain, 1, n)[i] = chain[i]
    <3> HIDE DEF n
    <3>1. \A i \in 1..(n - 1 + 1) : SubSeq(chain, 1, n)[i] = chain[1 + i - 1]
      BY <2>1, <2>2, SubSeqProperties
    <3>2. \A i \in 1..n : i \in 1..(n - 1 + 1) /\ 1 + i - 1 = i
      BY <2>2
    <3> QED BY <2>1, <2>2, <3>1, <3>2, SubSeqProperties
  <2>4. /\ SubSeq(recorded, 1, n) \in Seq(Links(Digests))
        /\ Len(SubSeq(recorded, 1, n)) = IF 1 <= n THEN n - 1 + 1 ELSE 0
        /\ \A i \in 1..n : SubSeq(recorded, 1, n)[i] = recorded[i]
    <3> HIDE DEF n
    <3>1. \A i \in 1..(n - 1 + 1) : SubSeq(recorded, 1, n)[i] = recorded[1 + i - 1]
      BY <2>1, <2>2, SubSeqProperties
    <3>2. \A i \in 1..n : i \in 1..(n - 1 + 1) /\ 1 + i - 1 = i
      BY <2>2
    <3> QED BY <2>1, <2>2, <3>1, <3>2, SubSeqProperties
  <2>5. n \in Nat /\ n <= Len(recorded) /\ \A i \in 1..n : chain[i] = recorded[i]
    BY <1>2, <1>6, <1>7
  <2> HIDE DEF n
  <2> DEFINE a == SubSeq(chain, 1, n)
             b == SubSeq(recorded, 1, n)
  <2>6. Len(a) = n /\ Len(b) = n /\ \A i \in 1..n : a[i] = b[i]
    BY <2>3, <2>4, <2>5
  <2>7. a \in Seq(Links(Digests)) /\ b \in Seq(Links(Digests))
    BY <2>3, <2>4
  <2> HIDE DEF a, b
  <2>8. a = b
    BY <2>6, <2>7, SeqEqual
  <2> QED BY <2>5, <2>8 DEF IsPrefix, a, b, n
<1>8. ASSUME ~case.rehashed, Len(chain) = Len(recorded) PROVE chain = recorded
  BY <1>2, <1>3, <1>6, <1>8, SeqEqual
<1> QED BY <1>5, <1>7, <1>8 DEF chain, recorded, events

\* Whatever is done to the links of a chain, it is one of links of the same hashes.
LEMMA EditedLinks ==
  ASSUME NEW hashes, NEW chain \in Seq(Links(hashes)), NEW i \in DOMAIN chain, NEW j \in DOMAIN chain, NEW e \in Events
  PROVE  /\ [chain EXCEPT ![i].event = e] \in Seq(Links(hashes))
         /\ [chain EXCEPT ![i].hash = chain[j].hash] \in Seq(Links(hashes))
         /\ [chain EXCEPT ![i] = chain[j], ![j] = chain[i]] \in Seq(Links(hashes))
         /\ RemoveAt(chain, i) \in Seq(Links(hashes))
         /\ InsertAt(chain, j, chain[i]) \in Seq(Links(hashes))
<1>1. /\ i \in 1..Len(chain) /\ j \in 1..Len(chain) /\ Len(chain) \in Nat
      /\ chain[i] \in Links(hashes) /\ chain[j] \in Links(hashes)
  OBVIOUS
<1>2. [chain[i] EXCEPT !.event = e] \in Links(hashes) /\ [chain[i] EXCEPT !.hash = chain[j].hash] \in Links(hashes)
  BY <1>1 DEF Links
<1>3. \A link \in Links(hashes) : \A s \in Seq(Links(hashes)) : \A k \in DOMAIN s : [s EXCEPT ![k] = link] \in Seq(Links(hashes))
  BY ExceptSeq
<1>4. [chain EXCEPT ![i].event = e] \in Seq(Links(hashes))
  BY <1>2, <1>3
<1>5. [chain EXCEPT ![i].hash = chain[j].hash] \in Seq(Links(hashes))
  BY <1>2, <1>3
<1>6. [chain EXCEPT ![i] = chain[j], ![j] = chain[i]] \in Seq(Links(hashes))
  <2> DEFINE once == [chain EXCEPT ![i] = chain[j]]
  <2>1. once \in Seq(Links(hashes)) /\ j \in DOMAIN once
    BY <1>1, <1>3
  <2>2. [once EXCEPT ![j] = chain[i]] \in Seq(Links(hashes))
    BY <1>1, <1>3, <2>1
  <2> QED BY <2>2
<1>7. \A m, n \in Int : 1 <= m /\ n <= Len(chain) => SubSeq(chain, m, n) \in Seq(Links(hashes))
  <2> SUFFICES ASSUME NEW m \in Int, NEW n \in Int, 1 <= m, n <= Len(chain)
               PROVE  SubSeq(chain, m, n) \in Seq(Links(hashes))
    OBVIOUS
  <2>1. \A k \in m..n : chain[k] \in Links(hashes)
    <3> SUFFICES ASSUME NEW k \in m..n PROVE chain[k] \in Links(hashes)
      OBVIOUS
    <3>1. k \in 1..Len(chain)
      BY <1>1
    <3> QED BY <3>1
  <2> QED BY <2>1, SubSeqProperties
<1>8. RemoveAt(chain, i) \in Seq(Links(hashes))
  <2> DEFINE before == SubSeq(chain, 1, i - 1)
             after == SubSeq(chain, i + 1, Len(chain))
  <2>1. before \in Seq(Links(hashes)) /\ after \in Seq(Links(hashes))
    BY <1>1, <1>7
  <2> HIDE DEF before, after
  <2>2. before \o after \in Seq(Links(hashes))
    BY <2>1, ConcatProperties
  <2> QED BY <2>2 DEF RemoveAt, before, after
<1>9. InsertAt(chain, j, chain[i]) \in Seq(Links(hashes))
  <2> DEFINE before == SubSeq(chain, 1, j - 1)
             after == SubSeq(chain, j, Len(chain))
             one == <<chain[i]>>
  <2>1. before \in Seq(Links(hashes)) /\ after \in Seq(Links(hashes)) /\ one \in Seq(Links(hashes))
    BY <1>1, <1>7
  <2> HIDE DEF before, after, one
  <2>2. before \o one \in Seq(Links(hashes))
    BY <2>1, ConcatProperties
  <2>3. (before \o one) \o after \in Seq(Links(hashes))
    BY <2>1, <2>2, ConcatProperties
  <2> QED BY <2>3 DEF InsertAt, before, after, one
<1> QED BY <1>4, <1>5, <1>6, <1>8, <1>9

\* A bundle with another chain.
WithChain(case, chain) == [case EXCEPT !.bundle.audit_chain = chain, !.edits = @ + 1]

Rehashed(case) ==
  [case EXCEPT !.bundle.audit_chain = build_chain(EventsOf(@)), !.edits = @ + 1, !.rehashed = TRUE]

Forged(case) == [case EXCEPT !.bundle = with_field(@, "checks", "passed"), !.edits = @ + 1]

LEMMA HashesAreDigests ==
  ASSUME NEW case, case.recorded \in Seq(Events)
  PROVE  HashesOf(case) \subseteq Digests /\ Seq(Links(HashesOf(case))) \subseteq Seq(Links(Digests))
<1>1. HashesOf(case) \subseteq Digests
  BY DigestIsDigest DEF HashesOf
<1>2. Links(HashesOf(case)) \subseteq Links(Digests)
  BY <1>1 DEF Links
<1> QED BY <1>1, <1>2, SeqMonotonic

\* What an edit leaves of a case, whatever its fields range over.
LEMMA EditedCase ==
  ASSUME NEW R, NEW F, NEW B, NEW case \in [recorded : R, rehashed : F, edits : Nat, bundle : B], NEW b, NEW n, NEW f
  PROVE  /\ [case EXCEPT !.bundle = b, !.edits = n]
               = [recorded |-> case.recorded, rehashed |-> case.rehashed, edits |-> n, bundle |-> b]
         /\ [case EXCEPT !.bundle = b, !.edits = n, !.rehashed = f]
               = [recorded |-> case.recorded, rehashed |-> f, edits |-> n, bundle |-> b]
<1> DEFINE once  == [case EXCEPT !.bundle = b]
           twice == [recorded |-> case.recorded, rehashed |-> case.rehashed, edits |-> n, bundle |-> b]
<1>1. once = [recorded |-> case.recorded, rehashed |-> case.rehashed, edits |-> case.edits, bundle |-> b]
  OBVIOUS
<1>2. [once EXCEPT !.edits = n] = twice
  <2> HIDE DEF once
  <2> QED BY <1>1
<1>3. [case EXCEPT !.bundle = b, !.edits = n] = [once EXCEPT !.edits = n]
  OBVIOUS
<1>4. [case EXCEPT !.bundle = b, !.edits = n, !.rehashed = f] = [[once EXCEPT !.edits = n] EXCEPT !.rehashed = f]
  OBVIOUS
<1>5. [twice EXCEPT !.rehashed = f] = [recorded |-> case.recorded, rehashed |-> f, edits |-> n, bundle |-> b]
  OBVIOUS
<1> HIDE DEF once, twice
<1>6. [case EXCEPT !.bundle = b, !.edits = n] = twice
  BY <1>2, <1>3, Zenon
<1>7. [[once EXCEPT !.edits = n] EXCEPT !.rehashed = f] = [twice EXCEPT !.rehashed = f]
  BY <1>2, Zenon
<1> QED BY <1>4, <1>5, <1>6, <1>7, Zenon DEF twice

LEMMA EditedBundle ==
  ASSUME NEW bundle \in ProofBundles, NEW chain \in Seq(Links(Digests))
  PROVE  [bundle EXCEPT !.audit_chain = chain] \in ProofBundles /\ [bundle EXCEPT !.audit_chain = chain].audit_chain = chain
BY DEF ProofBundles

LEMMA CaseWritten ==
  ASSUME NEW case, NEW recorded \in Seq(Events), NEW rehashed \in BOOLEAN, NEW edits \in Nat, NEW bundle \in ProofBundles,
         case = [recorded |-> recorded, rehashed |-> rehashed, edits |-> edits, bundle |-> bundle],
         bundle.audit_chain \in Seq(Links(IF rehashed THEN Digests ELSE DigestsOf(recorded)))
  PROVE  IsBundleCase(case)
<1>1. case \in [recorded : Seq(Events), rehashed : BOOLEAN, edits : Nat, bundle : ProofBundles]
  OBVIOUS
<1>2. case.recorded = recorded /\ case.rehashed = rehashed /\ case.bundle = bundle
  OBVIOUS
<1> QED BY <1>1, <1>2 DEF IsBundleCase, HashesOf

LEMMA WithChainIsCase ==
  ASSUME NEW case, IsBundleCase(case), NEW chain \in Seq(Links(HashesOf(case)))
  PROVE  IsBundleCase(WithChain(case, chain))
<1> DEFINE bundle == [case.bundle EXCEPT !.audit_chain = chain]
           n == case.edits + 1
<1>1. /\ case \in [recorded : Seq(Events), rehashed : BOOLEAN, edits : Nat, bundle : ProofBundles]
      /\ case.recorded \in Seq(Events) /\ case.rehashed \in BOOLEAN /\ case.bundle \in ProofBundles /\ n \in Nat
      /\ chain \in Seq(Links(Digests))
  BY HashesAreDigests DEF IsBundleCase
<1>2. bundle \in ProofBundles /\ bundle.audit_chain = chain
  BY <1>1, EditedBundle
<1>3. WithChain(case, chain) = [case EXCEPT !.bundle = bundle, !.edits = n]
  BY DEF WithChain
<1> HIDE DEF bundle, n
<1>4. WithChain(case, chain) = [recorded |-> case.recorded, rehashed |-> case.rehashed, edits |-> n, bundle |-> bundle]
  BY <1>1, <1>3, EditedCase
<1>5. bundle.audit_chain \in Seq(Links(IF case.rehashed THEN Digests ELSE DigestsOf(case.recorded)))
  BY <1>2 DEF HashesOf
<1> QED BY <1>1, <1>2, <1>4, <1>5, CaseWritten

LEMMA RehashedIsCase ==
  ASSUME NEW case, IsBundleCase(case)
  PROVE  IsBundleCase(Rehashed(case))
<1> DEFINE chain == build_chain(EventsOf(case.bundle.audit_chain))
           bundle == [case.bundle EXCEPT !.audit_chain = chain]
           n == case.edits + 1
<1>1. /\ case \in [recorded : Seq(Events), rehashed : BOOLEAN, edits : Nat, bundle : ProofBundles]
      /\ case.recorded \in Seq(Events) /\ case.bundle \in ProofBundles /\ n \in Nat
  BY DEF IsBundleCase
<1>2. chain \in Seq(Links(Digests))
  <2>1. case.bundle.audit_chain \in Seq(Links(HashesOf(case)))
    BY DEF IsBundleCase
  <2> QED BY <2>1, EventsOfChain, BuiltChain
<1>3. Rehashed(case) = [case EXCEPT !.bundle = bundle, !.edits = n, !.rehashed = TRUE]
  BY DEF Rehashed
<1> HIDE DEF chain
<1>4. bundle \in ProofBundles /\ bundle.audit_chain = chain
  BY <1>1, <1>2, EditedBundle
<1> HIDE DEF bundle, n
<1>5. Rehashed(case) = [recorded |-> case.recorded, rehashed |-> TRUE, edits |-> n, bundle |-> bundle]
  BY <1>1, <1>3, EditedCase
<1>6. bundle.audit_chain \in Seq(Links(IF TRUE THEN Digests ELSE DigestsOf(case.recorded)))
  BY <1>2, <1>4
<1> QED BY <1>1, <1>4, <1>5, <1>6, CaseWritten

LEMMA ForgedIsCase ==
  ASSUME NEW case, IsBundleCase(case)
  PROVE  IsBundleCase(Forged(case))
<1> DEFINE bundle == with_field(case.bundle, "checks", "passed")
           n == case.edits + 1
<1>1. /\ case \in [recorded : Seq(Events), rehashed : BOOLEAN, edits : Nat, bundle : ProofBundles]
      /\ case.recorded \in Seq(Events) /\ case.rehashed \in BOOLEAN /\ case.bundle \in ProofBundles /\ n \in Nat
  BY DEF IsBundleCase
<1>2. bundle \in ProofBundles /\ bundle.audit_chain = case.bundle.audit_chain
  BY <1>1 DEF with_field, ProofBundles
<1>3. Forged(case) = [case EXCEPT !.bundle = bundle, !.edits = n]
  BY DEF Forged
<1> HIDE DEF bundle, n
<1>4. Forged(case) = [recorded |-> case.recorded, rehashed |-> case.rehashed, edits |-> n, bundle |-> bundle]
  BY <1>1, <1>3, EditedCase
<1>5. bundle.audit_chain \in Seq(Links(IF case.rehashed THEN Digests ELSE DigestsOf(case.recorded)))
  BY <1>2 DEF IsBundleCase, HashesOf
<1> QED BY <1>1, <1>2, <1>4, <1>5, CaseWritten

BundleOf(i, chain, count, fields) ==
  [identity |-> i, audit_chain |-> chain, expected_event_count |-> count, fields |-> fields]

LEMMA FilledBundle ==
  ASSUME NEW i, NEW a, NEW e, NEW f, NEW events, NEW count
  PROVE  /\ with_audit_events(BundleOf(i, a, e, f), events) = BundleOf(i, build_chain(events), e, f)
         /\ with_expected_event_count(BundleOf(i, a, e, f), count) = BundleOf(i, a, count, f)
<1> DEFINE chain == build_chain(events)
           r == BundleOf(i, a, e, f)
<1>1. r = [identity |-> i, audit_chain |-> a, expected_event_count |-> e, fields |-> f]
  BY DEF BundleOf
<1> HIDE DEF chain, r
<1>2. [r EXCEPT !.audit_chain = chain] = [identity |-> i, audit_chain |-> chain, expected_event_count |-> e, fields |-> f]
  BY <1>1
<1>3. [r EXCEPT !.expected_event_count = count]
        = [identity |-> i, audit_chain |-> a, expected_event_count |-> count, fields |-> f]
  BY <1>1
<1> QED BY <1>2, <1>3, Zenon DEF chain, r, with_audit_events, with_expected_event_count, BundleOf

LEMMA RecordedIsCase ==
  ASSUME NEW events \in Seq(Events), NEW count \in SUBSET Nat
  PROVE  IsBundleCase(Recorded(events, count))
<1> DEFINE chain == build_chain(events)
           fields == [f \in PlainFields \cup Checks |-> IF f \in Checks THEN "not run" ELSE "empty"]
           bundle == [identity |-> "task", audit_chain |-> chain, expected_event_count |-> count, fields |-> fields]
<1>1. chain \in Seq(Links(DigestsOf(events))) /\ chain \in Seq(Links(Digests))
  BY BuiltChain
<1>2. with_expected_event_count(with_audit_events(NewBundle("task"), events), count) = bundle
  <2>1. NewBundle("task") = BundleOf("task", <<>>, {}, fields)
    BY DEF NewBundle, BundleOf
  <2> HIDE DEF chain, fields
  <2>2. with_audit_events(NewBundle("task"), events) = BundleOf("task", chain, {}, fields)
    BY <2>1, FilledBundle DEF chain
  <2>3. with_expected_event_count(with_audit_events(NewBundle("task"), events), count) = BundleOf("task", chain, count, fields)
    BY <2>2, FilledBundle
  <2> QED BY <2>3, Zenon DEF BundleOf
<1>3. fields \in [PlainFields \cup Checks -> {"not run", "empty", "passed"}]
  OBVIOUS
<1> HIDE DEF chain, fields
<1>4. bundle \in ProofBundles /\ bundle.audit_chain = chain
  BY <1>1, <1>3 DEF ProofBundles
<1> HIDE DEF bundle
<1>5. Recorded(events, count) = [recorded |-> events, rehashed |-> FALSE, edits |-> 0, bundle |-> bundle]
  BY <1>2 DEF Recorded
<1>6. bundle.audit_chain \in Seq(Links(IF FALSE THEN Digests ELSE DigestsOf(events)))
  BY <1>1, <1>4
<1> QED BY <1>4, <1>5, <1>6, CaseWritten

-----------------------------------------------------------------------------
(* The shape of what a behaviour edits. *)

Shaped ==
  /\ about = "permissions" => config \in PermissionConfigs
  /\ about = "routing"     => config \in RoutingConfigs
  /\ about = "preflight"   => IsContractFile(config)
  /\ about = "proof"       => IsBundleCase(config)
  /\ about = "startup"     => config = [file |-> config.file, env |-> config.env] /\ config.file.is \in FileKinds

LEMMA ShapedFirst == DecisionsInit => Shaped
<1> SUFFICES ASSUME DecisionsInit PROVE Shaped
  OBVIOUS
<1>1. ASSUME about = "permissions" PROVE config \in PermissionConfigs
  BY <1>1 DEF DecisionsInit
<1>2. ASSUME about = "routing" PROVE config \in RoutingConfigs
  BY <1>2 DEF DecisionsInit
<1>3. ASSUME about = "preflight" PROVE IsContractFile(config)
  BY <1>3, ContractAssumption DEF DecisionsInit
<1>4. ASSUME about = "proof" PROVE IsBundleCase(config)
  <2>1. PICK events \in Recordings, count \in {{}} \cup {{n} : n \in 0..MaxEvents} : config = Recorded(events, count)
    BY <1>4 DEF DecisionsInit, Bundles
  <2>2. events \in Seq(Events) /\ count \in SUBSET Nat
    BY <2>1, BundleAssumption DEF Recordings
  <2> QED BY <2>1, <2>2, RecordedIsCase
<1>5. ASSUME about = "startup" PROVE config = [file |-> config.file, env |-> config.env] /\ config.file.is \in FileKinds
  BY <1>5, FileAssumption DEF DecisionsInit, StartupCases
<1> QED BY <1>1, <1>2, <1>3, <1>4, <1>5 DEF Shaped

LEMMA ShapedContract ==
  ASSUME NEW raw, IsContractFile(raw), NEW field
  PROVE  IsContractFile(Without(raw, field))
<1> DEFINE off == Without(raw, field)
           names == DOMAIN Defaults \cup Required
<1>1. raw = [name \in names |-> raw[name]]
  BY DEF IsContractFile
<1>2. off = [name \in names |-> IF name = field THEN {} ELSE raw[name]]
  BY <1>1 DEF Without
<1>3. names = DOMAIN raw /\ {"network_policy", "provider_policy"} \subseteq names
  BY <1>1, ContractFields
<1> HIDE DEF off, names
<1>4. /\ DOMAIN off = names /\ off = [name \in names |-> off[name]]
      /\ \A name \in names : off[name] \subseteq raw[name]
  BY <1>2
<1> QED BY <1>3, <1>4 DEF IsContractFile, names, off

\* Every edit of a bundle leaves one whose links have hashes that were recorded or
\* computed.
LEMMA ShapedBundle ==
  ASSUME Shaped, EditProof
  PROVE  Shaped'
<1>1. about = "proof" /\ IsBundleCase(config)
  BY DEF EditProof, Shaped
<1>2. Chain \in Seq(Links(HashesOf(config)))
  BY <1>1 DEF IsBundleCase, Chain
<1>3. SUFFICES about' = about /\ IsBundleCase(config')
  BY <1>1 DEF Shaped
<1>4. ASSUME NEW chain \in Seq(Links(HashesOf(config))), EditChain(chain)
      PROVE  about' = about /\ IsBundleCase(config')
  <2>1. about' = about /\ config' = WithChain(config, chain)
    BY <1>4 DEF EditChain, Edit, WithChain
  <2> QED BY <1>1, <2>1, WithChainIsCase
<1>5. ASSUME NEW i \in DOMAIN Chain, NEW e \in Events, AlterEvent(i, e)
      PROVE  about' = about /\ IsBundleCase(config')
  BY <1>2, <1>4, <1>5, EditedLinks DEF AlterEvent
<1>6. ASSUME NEW i \in DOMAIN Chain, NEW j \in DOMAIN Chain, AlterHash(i, j) \/ CopyLink(i, j) \/ SwapLinks(i, j)
      PROVE  about' = about /\ IsBundleCase(config')
  <2>1. Chain[i].event \in Events
    <3>1. \A s \in Seq(Links(HashesOf(config))) : \A k \in DOMAIN s : s[k] \in Links(HashesOf(config))
      OBVIOUS
    <3>2. Chain[i] \in Links(HashesOf(config))
      BY <1>2, <3>1
    <3> QED BY <3>2 DEF Links
  <2>2. /\ [Chain EXCEPT ![i].hash = Chain[j].hash] \in Seq(Links(HashesOf(config)))
        /\ [Chain EXCEPT ![i] = Chain[j], ![j] = Chain[i]] \in Seq(Links(HashesOf(config)))
        /\ InsertAt(Chain, j, Chain[i]) \in Seq(Links(HashesOf(config)))
    BY <1>2, <2>1, EditedLinks
  <2> QED BY <1>4, <1>6, <2>2 DEF AlterHash, CopyLink, SwapLinks
<1>7. ASSUME NEW i \in DOMAIN Chain, RemoveLink(i)
      PROVE  about' = about /\ IsBundleCase(config')
  <2>1. Chain[i].event \in Events
    <3>1. \A s \in Seq(Links(HashesOf(config))) : \A k \in DOMAIN s : s[k] \in Links(HashesOf(config))
      OBVIOUS
    <3>2. Chain[i] \in Links(HashesOf(config))
      BY <1>2, <3>1
    <3> QED BY <3>2 DEF Links
  <2>2. RemoveAt(Chain, i) \in Seq(Links(HashesOf(config)))
    BY <1>2, <2>1, EditedLinks
  <2> QED BY <1>4, <1>7, <2>2 DEF RemoveLink
<1>8. ASSUME Rehash PROVE about' = about /\ IsBundleCase(config')
  <2>1. about' = about /\ config' = Rehashed(config)
    BY <1>8 DEF Rehash, Edit, Rehashed
  <2> QED BY <1>1, <2>1, RehashedIsCase
<1>9. ASSUME ForgeField PROVE about' = about /\ IsBundleCase(config')
  <2>1. about' = about /\ config' = Forged(config)
    BY <1>9 DEF ForgeField, Edit, Forged
  <2> QED BY <1>1, <2>1, ForgedIsCase
<1> QED BY <1>5, <1>6, <1>7, <1>8, <1>9 DEF EditProof

LEMMA ShapedStep == Shaped /\ [DecisionsNext]_case_vars => Shaped'
<1> SUFFICES ASSUME Shaped, [DecisionsNext]_case_vars PROVE Shaped'
  OBVIOUS
<1>1. CASE EditPermissions
  <2>1. about = "permissions" /\ about' = about /\ config \in PermissionConfigs
    BY <1>1 DEF EditPermissions, AddDenyPattern, AddAllowPattern, Edit, Shaped
  <2>2. PICK key \in DOMAIN config.tools, p \in GlobPatterns :
          config' = WithDenyPattern(config, key, p) \/ config' = WithAllowPattern(config, key, p)
    BY <1>1 DEF EditPermissions, AddDenyPattern, AddAllowPattern, Edit, WithDenyPattern, WithAllowPattern
  <2>3. config' \in PermissionConfigs
    BY <2>1, <2>2, DenyPatternAdded, AllowPatternAdded
  <2> QED BY <2>1, <2>3 DEF Shaped
<1>2. CASE EditRouting
  <2>1. about = "routing" /\ about' = about /\ config \in RoutingConfigs
    BY <1>2 DEF EditRouting, Disable, Edit, Shaped
  <2>2. PICK key \in config.enabled : config' = [config EXCEPT !.enabled = @ \ {key}]
    BY <1>2 DEF EditRouting, Disable, Edit
  <2>3. config' \in RoutingConfigs
    BY <2>1, <2>2 DEF RoutingConfigs
  <2> QED BY <2>1, <2>3 DEF Shaped
<1>3. CASE EditContract
  <2>1. about = "preflight" /\ about' = about /\ IsContractFile(config)
    BY <1>3 DEF EditContract, Omit, Edit, Shaped
  <2>2. PICK field \in DOMAIN config : config' = Without(config, field)
    BY <1>3 DEF EditContract, Omit, Edit, Without
  <2>3. IsContractFile(config')
    BY <2>1, <2>2, ShapedContract
  <2> QED BY <2>1, <2>3 DEF Shaped
<1>4. CASE EditProof
  BY <1>4, ShapedBundle
<1>5. CASE EditStartup
  <2>1. about = "startup" /\ about' = about /\ config = [file |-> config.file, env |-> config.env]
    BY <1>5 DEF EditStartup, InitConfig, KeepShown, Edit, Shaped
  <2>2. PICK sections : config' = [config EXCEPT !.file = Toml(sections)]
    BY <1>5 DEF EditStartup, InitConfig, KeepShown, Edit, create_default, config_show
  <2>3. config' = [file |-> Toml(sections), env |-> config.env] /\ Toml(sections).is = "toml"
    BY <2>1, <2>2 DEF Toml
  <2>4. config' = [file |-> config'.file, env |-> config'.env] /\ config'.file.is \in FileKinds
    BY <2>3 DEF FileKinds
  <2> QED BY <2>1, <2>4 DEF Shaped
<1>6. CASE UNCHANGED case_vars
  BY <1>6 DEF case_vars, Shaped
<1> QED BY <1>1, <1>2, <1>3, <1>4, <1>5, <1>6 DEF DecisionsNext

\* The shape holds in every state of the behaviours.
THEOREM ShapeInvariance == DecisionsSpec => []Shaped
BY ShapedFirst, ShapedStep, PTL DEF DecisionsSpec

-----------------------------------------------------------------------------
(* What the decisions promise. *)

\* PatternEditsAreMonotone: deny always wins over allow, for every configuration,
\* call and order in which patterns are added.
THEOREM PatternEdits == DecisionsSpec => PatternEditsAreMonotone
<1> DEFINE Monotone ==
      about = "permissions" =>
        \A key \in DOMAIN config.tools, p \in GlobPatterns, c \in Calls :
          /\ AddDenyPattern(key, p) => Strict(config', c) >= Strict(config, c)
          /\ AddAllowPattern(key, p) =>
               IF config.tools[key].allow_patterns = {}
               THEN Strict(config', c) >= Strict(config, c)
               ELSE Strict(config', c) <= Strict(config, c)
<1>1. Shaped => Monotone
  <2> SUFFICES ASSUME Shaped, about = "permissions", NEW key \in DOMAIN config.tools, NEW p \in GlobPatterns, NEW c \in Calls
               PROVE  /\ AddDenyPattern(key, p) => Strict(config', c) >= Strict(config, c)
                      /\ AddAllowPattern(key, p) =>
                           IF config.tools[key].allow_patterns = {}
                           THEN Strict(config', c) >= Strict(config, c)
                           ELSE Strict(config', c) <= Strict(config, c)
    OBVIOUS
  <2>1. config \in PermissionConfigs
    BY DEF Shaped
  <2>2. AddDenyPattern(key, p) => config' = WithDenyPattern(config, key, p)
    BY DEF AddDenyPattern, Edit, WithDenyPattern
  <2>3. AddAllowPattern(key, p) => config' = WithAllowPattern(config, key, p)
    BY DEF AddAllowPattern, Edit, WithAllowPattern
  <2> QED BY <2>1, <2>2, <2>3, PatternAddedTo
<1>2. Shaped /\ [DecisionsNext]_case_vars => [Monotone]_case_vars
  BY <1>1
<1>3. DecisionsSpec => [][Monotone]_case_vars
  BY <1>2, ShapeInvariance, PTL DEF DecisionsSpec
<1> QED BY <1>3 DEF PatternEditsAreMonotone

\* RoutesToUsable: a session routes to providers that are registered and enabled,
\* and to a cloud one only where a rule or the fallback says so.
THEOREM RoutedProviders == DecisionsSpec => []RoutesToUsable
<1>1. Shaped => RoutesToUsable
  <2> SUFFICES ASSUME Shaped, about = "routing", NEW task \in Tasks, NEW route, route = SessionRoute(config, task)
               PROVE  IF route.ok
                      THEN /\ route.provider \in Registered
                           /\ provider_enabled(config, route.provider)
                           /\ \/ route.provider \in {"ollama", config.fallback.provider}
                              \/ \E i \in DOMAIN config.rules : /\ rule_matches(config.rules[i], task)
                                                                /\ config.rules[i].provider = route.provider
                      ELSE \/ route.reason = "InvalidModelSlug"
                           \/ route.reason = "NoRouteAvailable" /\ "ollama" \notin Usable(config)
    BY DEF RoutesToUsable
  <2>1. config \in RoutingConfigs
    BY DEF Shaped
  <2>2. \A provider \in Usable(config) : provider \in Registered /\ provider_enabled(config, provider)
    BY DEF Usable, Registered
  <2> QED BY <2>1, <2>2, RoutedToUsable
<1> QED BY <1>1, ShapeInvariance, PTL

\* UnusedProviderIrrelevant: a provider that is turned off moves the tasks that
\* went to it only.
THEOREM RoutesStay == DecisionsSpec => UnusedProviderIrrelevant
<1> DEFINE Stays ==
      about = "routing" =>
        \A key \in config.enabled, task \in Tasks :
          LET route == SessionRoute(config, task)
          IN  Disable(key) /\ route.ok /\ route.provider # key
              => SessionRoute(config', task) = route
<1>1. Shaped => Stays
  <2> SUFFICES ASSUME Shaped, about = "routing", NEW key \in config.enabled, NEW task \in Tasks, Disable(key),
                      SessionRoute(config, task).ok, SessionRoute(config, task).provider # key
               PROVE  SessionRoute(config', task) = SessionRoute(config, task)
    OBVIOUS
  <2>1. config \in RoutingConfigs
    BY DEF Shaped
  <2>2. config' = [config EXCEPT !.enabled = @ \ {key}]
    BY DEF Disable, Edit
  <2> QED BY <2>1, <2>2, RouteKept
<1>2. Shaped /\ [DecisionsNext]_case_vars => [Stays]_case_vars
  BY <1>1
<1>3. DecisionsSpec => [][Stays]_case_vars
  BY <1>2, ShapeInvariance, PTL DEF DecisionsSpec
<1> QED BY <1>3 DEF UnusedProviderIrrelevant

\* BoundaryKeepsDataLocal: nothing next to the data boundary local_only, written or
\* implied, lets a plan out that uses a provider or a host elsewhere.
THEOREM DataBoundary == DecisionsSpec => []BoundaryKeepsDataLocal
<1>1. BoundaryKeepsDataLocal
  BY LocalOnlyKeepsLocal DEF BoundaryKeepsDataLocal
<1> QED BY <1>1, PTL

\* DefaultDenialsReach: the paths that a silent contract denies are denied at any
\* depth, for plans of any length.
THEOREM DefaultDenials == DecisionsSpec => []DefaultDenialsReach
<1>1. DefaultDenialsReach
  BY DefaultsGuard DEF DefaultDenialsReach
<1> QED BY <1>1, PTL

\* OmissionFailsClosed: of every contract file, what is left out closes.
THEOREM Omissions == DecisionsSpec => OmissionFailsClosed
<1> DEFINE Closes ==
      about = "preflight" =>
        /\ \A field \in Required : Omit(field) => parse(config') = {}
        /\ \A field \in FailClosed : Omit(field) => (parse(config') = {} <=> parse(config) = {})
        /\ \A field \in FailClosed : Omit(field) => \A plan \in Passing(config') :
             /\ \/ plan \in Passing(config)
                \/ /\ field = "provider_policy" /\ plan.provider \in LOCAL_PROVIDER_NAMES
                   /\ \E contract \in parse(config) : check_provider(plan, contract) # {}
             /\ \/ "all_actions" \in Approvals(config', plan)
                \/ Approvals(config, plan) \subseteq Approvals(config', plan)
<1>1. Shaped => Closes
  <2> SUFFICES ASSUME Shaped, about = "preflight" PROVE Closes
    OBVIOUS
  <2>1. IsContractFile(config)
    BY DEF Shaped
  <2>2. \A field : Omit(field) => config' = Without(config, field)
    BY DEF Omit, Edit, Without
  <2> QED BY <2>1, <2>2, OmissionCloses
<1>2. Shaped /\ [DecisionsNext]_case_vars => [Closes]_case_vars
  BY <1>1
<1>3. DecisionsSpec => [][Closes]_case_vars
  BY <1>2, ShapeInvariance, PTL DEF DecisionsSpec
<1> QED BY <1>3 DEF OmissionFailsClosed

\* TamperingShows: for recordings of any length and edits in any number, what a
\* verified bundle with the recorded head or count holds is what was recorded.
THEOREM Tampering == DecisionsSpec => []TamperingShows
<1>1. Shaped => TamperingShows
  <2> SUFFICES ASSUME Shaped, about = "proof", verify(config.bundle)
               PROVE  LET recorded == build_chain(config.recorded) IN
                        /\ chain_head(Chain) = chain_head(recorded) => Chain = recorded
                        /\ ~config.rehashed => IsPrefix(Chain, recorded)
                        /\ /\ Accepted(config.bundle) /\ ~config.rehashed
                           /\ config.bundle.expected_event_count = {Len(recorded)}
                           => Chain = recorded
    BY DEF TamperingShows
  <2>1. IsBundleCase(config)
    BY DEF Shaped
  <2>2. ASSUME Accepted(config.bundle), config.bundle.expected_event_count = {Len(build_chain(config.recorded))}
        PROVE  Len(Chain) = Len(build_chain(config.recorded))
    BY <2>2 DEF Accepted, check_event_count, Chain
  <2> QED BY <2>1, <2>2, VerifiedIsRecorded DEF Chain
<1> QED BY <1>1, ShapeInvariance, PTL

-----------------------------------------------------------------------------
(* Startup: a session never leaves the machine unasked. *)

\* A check that lets a provider through has found it, enabled.
LEMMA CheckedIsUsable ==
  ASSUME NEW session, DOMAIN session.providers \subseteq Nat, NEW provider, NEW model, NEW reason, NEW route,
         route = Checked(available_providers(session), AllowCloud(available_providers(session)), provider, model, reason),
         route.ok
  PROVE  route.provider \in Usable(session)
<1> DEFINE providers == available_providers(session)
           found == find_provider(providers, provider)
           valid == validate_provider(providers[First(found)], AllowCloud(providers))
<1>1. \A error : ~RouteError(error).ok
  BY DEF RouteError
<1>2. \/ \E error : route = RouteError(error)
      \/ found # {} /\ valid = "Valid" /\ route = Route(provider, model, reason)
  BY DEF Checked
<1>3. found # {} /\ valid = "Valid" /\ route = Route(provider, model, reason)
  BY <1>1, <1>2, Zenon
<1>4. route.provider = provider
  BY <1>3 DEF Route
<1>5. \A i \in DOMAIN session.providers :
        /\ providers[i].provider = session.providers[i]
        /\ providers[i].enabled <=> provider_enabled(session, session.providers[i])
  BY DEF available_providers, AvailableProvider
<1>6. DOMAIN providers = DOMAIN session.providers
  BY DEF available_providers
<1> HIDE DEF providers
<1>7. found \in SUBSET Nat
  BY <1>6 DEF find_provider
<1>8. First(found) \in found
  BY <1>3, <1>7, FirstIsLeast
<1>9. First(found) \in DOMAIN session.providers /\ providers[First(found)].provider = provider
  BY <1>6, <1>8 DEF find_provider
<1>10. providers[First(found)].enabled
  BY <1>3 DEF validate_provider
<1> QED BY <1>4, <1>5, <1>9, <1>10 DEF Usable

LEMMA OkRouteIsUsable ==
  ASSUME NEW session, DOMAIN session.providers \subseteq Nat, NEW task, NEW route, route = SessionRoute(session, task), route.ok
  PROVE  route.provider \in Usable(session)
<1> DEFINE providers == available_providers(session)
           kept == Retain(session)
           request == RouteRequest("", "", task)
           matching == {i \in DOMAIN kept.rules : rule_matches(kept.rules[i], request.task)}
           rule == kept.rules[First(matching)]
<1>1. request.requested_provider = "" /\ request.requested_model = "" /\ request.task = task
  BY DEF RouteRequest
<1> HIDE DEF kept, request
<1>2. \/ route = Checked(providers, AllowCloud(providers), rule.provider, rule.model, "RuleMatch")
      \/ route = Checked(providers, AllowCloud(providers), kept.fallback.provider, kept.fallback.model, "Fallback")
      \/ route = RouteError("NoRouteAvailable")
      \/ Locals(providers) # {} /\ route = Route(providers[First(Locals(providers))].provider, "", "LocalFirst")
  BY <1>1 DEF SessionRoute, resolve_route, kept, request, reject_default_model
<1>3. route # RouteError("NoRouteAvailable")
  <2>1. ~RouteError("NoRouteAvailable").ok
    BY DEF RouteError
  <2> QED BY <2>1, Zenon
<1>4. ASSUME NEW provider, NEW model, NEW reason,
             route = Checked(providers, AllowCloud(providers), provider, model, reason)
      PROVE  route.provider \in Usable(session)
  BY <1>4, CheckedIsUsable
<1>5. ASSUME Locals(providers) # {}, route = Route(providers[First(Locals(providers))].provider, "", "LocalFirst")
      PROVE  route.provider \in Usable(session)
  <2> DEFINE local == providers[First(Locals(providers))].provider
  <2>1. route.provider = local
    <3>1. \A p : Route(p, "", "LocalFirst").provider = p
      BY DEF Route
    <3>2. route = Route(local, "", "LocalFirst")
      BY <1>5
    <3> HIDE DEF local
    <3> QED BY <3>1, <3>2
  <2>2. \A i \in DOMAIN session.providers :
          /\ providers[i].provider = session.providers[i]
          /\ providers[i].enabled <=> provider_enabled(session, session.providers[i])
    BY DEF available_providers, AvailableProvider
  <2>3. DOMAIN providers = DOMAIN session.providers
    BY DEF available_providers
  <2> HIDE DEF providers
  <2>4. Locals(providers) \in SUBSET Nat
    BY <2>3 DEF Locals
  <2>5. First(Locals(providers)) \in Locals(providers)
    BY <1>5, <2>4, FirstIsLeast
  <2>6. First(Locals(providers)) \in DOMAIN session.providers /\ providers[First(Locals(providers))].enabled
    BY <2>3, <2>5 DEF Locals
  <2> QED BY <2>2, <2>6, <2>1 DEF Usable
<1> QED BY <1>2, <1>3, <1>4, <1>5

\* What a session registers is built: enabled, and never with a key for a host that
\* would get it in the clear.
LEMMA RegisteredIsBuilt ==
  ASSUME NEW loaded, NEW env
  PROVE  /\ DOMAIN RegisteredKeys(loaded, env) \subseteq Nat
         /\ \A i \in DOMAIN RegisteredKeys(loaded, env) :
              LET p == RegisteredKeys(loaded, env)[i]
              IN  p \in DOMAIN loaded.providers /\ Built(loaded, env, p)
<1> DEFINE built == {p \in DOMAIN loaded.providers : Built(loaded, env, p)}
           register(p) == IF p \in built THEN <<p>> ELSE <<>>
           keys == RegisteredKeys(loaded, env)
<1>1. \A p \in built : p \in DOMAIN loaded.providers /\ Built(loaded, env, p)
  OBVIOUS
<1>2. keys = (register("openrouter") \o register("nvidia")) \o register("ollama")
  BY DEF RegisteredKeys
<1> HIDE DEF built, keys
<1>3. \A p : register(p) \in Seq(built)
  OBVIOUS
<1> HIDE DEF register
<1>4. register("openrouter") \o register("nvidia") \in Seq(built)
  BY <1>3, ConcatProperties
<1>5. keys \in Seq(built)
  BY <1>2, <1>3, <1>4, ConcatProperties
<1>6. DOMAIN keys \subseteq Nat /\ \A i \in DOMAIN keys : keys[i] \in built
  BY <1>5
<1> QED BY <1>1, <1>6 DEF keys

\* A configuration by its sections.
ConfigOf(g, w, pm, pr, r, a) ==
  [general |-> g, workspace |-> w, permissions |-> pm, providers |-> pr, routing |-> r, audit |-> a]

\* The two sections that the environment changes.
Overridden(g, env) == [g EXCEPT !.log_level = Override(env.log_level, @), !.data_dir = Override(env.data_dir, @)]
Keyed(pr, env)     == [pr EXCEPT !.openrouter.api_key = env.keys["openrouter"], !.nvidia.api_key = env.keys["nvidia"]]

LEMMA ConfigParts ==
  ASSUME NEW g, NEW w, NEW pm, NEW pr, NEW r, NEW a, NEW loaded, loaded = ConfigOf(g, w, pm, pr, r, a)
  PROVE  /\ loaded.general = g /\ loaded.workspace = w /\ loaded.permissions = pm
         /\ loaded.providers = pr /\ loaded.routing = r /\ loaded.audit = a
         /\ \A x : [loaded EXCEPT !.general = x] = ConfigOf(x, w, pm, pr, r, a)
         /\ \A x : [loaded EXCEPT !.providers = x] = ConfigOf(g, w, pm, x, r, a)
BY DEF ConfigOf

LEMMA EnvironmentApplied ==
  ASSUME NEW g, NEW w, NEW pm, NEW pr, NEW r, NEW a, NEW read, read = ConfigOf(g, w, pm, pr, r, a), NEW env
  PROVE  apply_env_overrides(read, env) = ConfigOf(Overridden(g, env), w, pm, Keyed(pr, env), r, a)
<1> DEFINE v == Override(env.log_level, g.log_level)
           d == Override(env.data_dir, g.data_dir)
           o == env.keys["openrouter"]
           n == env.keys["nvidia"]
           g1 == [g EXCEPT !.log_level = v]
           g2 == [g1 EXCEPT !.data_dir = d]
           p1 == [pr EXCEPT !.openrouter.api_key = o]
           p2 == [p1 EXCEPT !.nvidia.api_key = n]
           c1 == [read EXCEPT !.general.log_level = v]
           c2 == [c1 EXCEPT !.general.data_dir = d]
           c3 == [c2 EXCEPT !.providers.openrouter.api_key = o]
           c4 == [c3 EXCEPT !.providers.nvidia.api_key = n]
<1>1. read.general = g /\ read.providers = pr
  BY ConfigParts
<1>2. apply_env_overrides(read, env) =
        [read EXCEPT !.general.log_level = v, !.general.data_dir = d,
                     !.providers.openrouter.api_key = o, !.providers.nvidia.api_key = n]
  BY <1>1 DEF apply_env_overrides
<1>3. Overridden(g, env) = g2 /\ Keyed(pr, env) = p2
  <2>1. Overridden(g, env) = g2
    BY DEF Overridden
  <2>2. Keyed(pr, env) = p2
    BY DEF Keyed
  <2> QED BY <2>1, <2>2
<1> HIDE DEF v, d, o, n
<1>4. apply_env_overrides(read, env) = c4
  BY <1>2
<1>5. c1 = ConfigOf(g1, w, pm, pr, r, a)
  <2>1. c1 = [read EXCEPT !.general = g1]
    BY <1>1
  <2> HIDE DEF c1, g1
  <2> QED BY <2>1, ConfigParts
<1> HIDE DEF c1
<1>6. c2 = ConfigOf(g2, w, pm, pr, r, a)
  <2>1. c2 = [c1 EXCEPT !.general = g2]
    <3> HIDE DEF g1
    <3>1. c1.general = g1
      BY <1>5, ConfigParts
    <3> QED BY <3>1
  <2> HIDE DEF c2, g1, g2
  <2> QED BY <1>5, <2>1, ConfigParts
<1> HIDE DEF c2, g1, g2
<1>7. c3 = ConfigOf(g2, w, pm, p1, r, a)
  <2>1. c3 = [c2 EXCEPT !.providers = p1]
    <3>1. c2.providers = pr
      BY <1>6, ConfigParts
    <3> QED BY <3>1
  <2> HIDE DEF c3, p1
  <2> QED BY <1>6, <2>1, ConfigParts
<1> HIDE DEF c3
<1>8. c4 = ConfigOf(g2, w, pm, p2, r, a)
  <2>1. c4 = [c3 EXCEPT !.providers = p2]
    <3> HIDE DEF p1
    <3>1. c3.providers = p1
      BY <1>7, ConfigParts
    <3> QED BY <3>1
  <2> HIDE DEF c4, p1, p2
  <2> QED BY <1>7, <2>1, ConfigParts
<1> HIDE DEF c4, p1, p2
<1> QED BY <1>3, <1>4, <1>8

WithKey(section, key) == [section EXCEPT !.api_key = key]

\* The environment gives the two cloud providers their keys and changes nothing else.
IsMap(f) == f = [x \in DOMAIN f |-> f[x]]

LEMMA KeysGiven ==
  ASSUME NEW pr, IsMap(pr), "openrouter" \in DOMAIN pr, "nvidia" \in DOMAIN pr, NEW env
  PROVE  /\ IsMap(Keyed(pr, env)) /\ DOMAIN Keyed(pr, env) = DOMAIN pr
         /\ \A p \in DOMAIN pr : Keyed(pr, env)[p] = IF p \in {"openrouter", "nvidia"} THEN WithKey(pr[p], env.keys[p]) ELSE pr[p]
<1> DEFINE o == env.keys["openrouter"]
           n == env.keys["nvidia"]
           once == [pr EXCEPT !.openrouter.api_key = o]
<1>1. Keyed(pr, env) = [once EXCEPT !.nvidia.api_key = n]
  BY DEF Keyed
<1>2. once = [p \in DOMAIN pr |-> IF p = "openrouter" THEN [pr[p] EXCEPT !.api_key = o] ELSE pr[p]]
  <2> HIDE DEF o
  <2> QED BY DEF IsMap
<1> HIDE DEF once, o, n
<1>3. [once EXCEPT !.nvidia.api_key = n] =
        [p \in DOMAIN pr |-> IF p = "nvidia" THEN [pr[p] EXCEPT !.api_key = n]
                             ELSE IF p = "openrouter" THEN [pr[p] EXCEPT !.api_key = o] ELSE pr[p]]
  BY <1>2
<1> QED BY <1>1, <1>3 DEF WithKey, IsMap, o, n

\* The sections that a file is read as.
ProvidersOf(sections) ==
  [p \in DOMAIN ProvidersConfig |-> Overlay(ProvidersConfig[p], Given(Given(sections, "providers"), p))]

LEMMA FileRead ==
  ASSUME NEW sections
  PROVE  from_toml(sections) =
           ConfigOf(Overlay(GeneralConfig, Given(sections, "general")), Overlay(WorkspaceConfig, Given(sections, "workspace")),
                    read_permissions(Given(sections, "permissions")), ProvidersOf(sections),
                    Overlay(RoutingConfig, Given(sections, "routing")), Overlay(AuditConfig, Given(sections, "audit")))
BY DEF from_toml, ConfigOf, ProvidersOf

LEMMA ProvidersRead ==
  ASSUME NEW sections
  PROVE  /\ DOMAIN ProvidersOf(sections) = {"openrouter", "nvidia", "ollama"}
         /\ IsMap(ProvidersOf(sections))
         /\ \A p \in {"openrouter", "nvidia", "ollama"} :
              ProvidersOf(sections)[p] = Overlay(ProvidersConfig[p], Given(Given(sections, "providers"), p))
BY DEF ProvidersOf, ProvidersConfig, IsMap

\* A cloud provider of a loaded configuration is enabled only by a file that says so.
LEMMA EnabledByFile ==
  ASSUME NEW sections, NEW env, NEW loaded, loaded = apply_env_overrides(from_toml(sections), env)
  PROVE  /\ DOMAIN loaded.providers = {"openrouter", "nvidia", "ollama"}
         /\ \A p \in {"openrouter", "nvidia"} :
              loaded.providers[p].enabled =>
                LET section == Given(Given(sections, "providers"), p)
                IN  "enabled" \in DOMAIN section /\ section.enabled
<1> DEFINE pr == ProvidersOf(sections)
<1>1. loaded.providers = Keyed(pr, env)
  <2>1. PICK g, w, pm, r, a : loaded = ConfigOf(g, w, pm, Keyed(pr, env), r, a)
    <3> HIDE DEF pr
    <3>1. PICK g, w, pm, r, a : from_toml(sections) = ConfigOf(g, w, pm, pr, r, a)
      BY FileRead DEF pr
    <3> QED BY <3>1, EnvironmentApplied
  <2> HIDE DEF pr
  <2> QED BY <2>1, ConfigParts
<1>2. /\ DOMAIN pr = {"openrouter", "nvidia", "ollama"} /\ IsMap(pr)
      /\ \A p \in {"openrouter", "nvidia", "ollama"} : pr[p] = Overlay(ProvidersConfig[p], Given(Given(sections, "providers"), p))
  BY ProvidersRead
<1> HIDE DEF pr
<1>3. /\ DOMAIN loaded.providers = {"openrouter", "nvidia", "ollama"}
      /\ \A p \in {"openrouter", "nvidia"} : loaded.providers[p] = WithKey(pr[p], env.keys[p])
  <2>1. "openrouter" \in DOMAIN pr /\ "nvidia" \in DOMAIN pr
    BY <1>2
  <2>2. DOMAIN Keyed(pr, env) = DOMAIN pr
    BY <1>2, <2>1, KeysGiven
  <2>3. \A p \in DOMAIN pr : p \in {"openrouter", "nvidia"} => Keyed(pr, env)[p] = WithKey(pr[p], env.keys[p])
    BY <1>2, <2>1, KeysGiven
  <2> QED BY <1>1, <1>2, <2>2, <2>3
<1>4. \A p \in {"openrouter", "nvidia"} : loaded.providers[p].enabled = pr[p].enabled
  <2> SUFFICES ASSUME NEW p \in {"openrouter", "nvidia"} PROVE loaded.providers[p].enabled = pr[p].enabled
    OBVIOUS
  <2>1. "enabled" \in DOMAIN ProvidersConfig[p]
    BY DEF ProvidersConfig, OpenRouterConfig, NvidiaConfig
  <2>2. "enabled" \in DOMAIN pr[p]
    BY <1>2, <2>1 DEF Overlay
  <2> QED BY <1>3, <2>2 DEF WithKey
<1>5. ASSUME NEW p \in {"openrouter", "nvidia"}, loaded.providers[p].enabled
      PROVE  LET section == Given(Given(sections, "providers"), p)
             IN  "enabled" \in DOMAIN section /\ section.enabled
  <2> DEFINE section == Given(Given(sections, "providers"), p)
  <2>1. DOMAIN ProvidersConfig[p] = {"enabled", "api_key", "base_url", "default_model"} /\ ProvidersConfig[p].enabled = FALSE
    BY DEF ProvidersConfig, OpenRouterConfig, NvidiaConfig
  <2>2. pr[p] = Overlay(ProvidersConfig[p], section)
    BY <1>2
  <2> HIDE DEF section
  <2>3. Overlay(ProvidersConfig[p], section).enabled = IF "enabled" \in DOMAIN section THEN section.enabled ELSE FALSE
    BY <2>1 DEF Overlay
  <2>4. loaded.providers[p].enabled = IF "enabled" \in DOMAIN section THEN section.enabled ELSE FALSE
    BY <1>4, <2>2, <2>3
  <2>5. CASE "enabled" \in DOMAIN section
    <3>1. loaded.providers[p].enabled = section.enabled
      BY <2>4, <2>5
    <3>2. section.enabled
      BY <1>5, <3>1, Zenon
    <3> QED BY <2>5, <3>2 DEF section
  <2>6. CASE "enabled" \notin DOMAIN section
    <3>1. loaded.providers[p].enabled = FALSE
      BY <2>4, <2>6
    <3> QED BY <1>5, <3>1, Zenon
  <2> QED BY <2>5, <2>6
<1> QED BY <1>3, <1>5

\* What is loaded is the file with the environment on top.
LEMMA LoadedIs ==
  ASSUME NEW case, case.file.is \in FileKinds, NEW loaded \in Loaded(case).config
  PROVE  /\ case.file.is = "toml" /\ validate(loaded)
         /\ loaded = apply_env_overrides(from_toml(case.file.sections), case.env)
         /\ Loaded(case).config = {loaded}
BY DEF Loaded, load_from, FileKinds

\* What a key is attached to in the clear is this machine, or misread.
LEMMA LocalOrMisread ==
  ASSUME NEW base_url, is_local_host(extract_host(base_url))
  PROVE  IsLoopback(base_url.host) \/ Misread(base_url)
<1> DEFINE host == base_url.host
<1>1. SUFFICES ASSUME ~Misread(base_url) PROVE IsLoopback(host)
  OBVIOUS
<1>2. extract_host(base_url) = host
  BY <1>1 DEF Misread, extract_host
<1>3. host \in {<<"localhost">>, <<"127", "0", "0", "1">>, <<"::1">>} \/ host[1] = "127"
  BY <1>2 DEF is_local_host
<1> HIDE DEF host
<1>4. host = <<"127", "0", "0", "1">> => host[1] = "127"
  OBVIOUS
<1>5. host[1] = "127" => IsAddress(host)
  BY <1>1 DEF Misread, host
<1> QED BY <1>3, <1>4, <1>5 DEF IsLoopback

\* LocalUnlessEnabled: whatever a file, its rules and the environment say, no task
\* leaves the machine for a provider that the file does not enable, nor with a key in
\* the clear but for a base URL that is misread.
THEOREM StaysLocal == DecisionsSpec => []LocalUnlessEnabled
<1>1. Shaped => LocalUnlessEnabled
  <2> SUFFICES ASSUME Shaped, about = "startup", NEW loaded \in Loaded(config).config, NEW task \in Tasks,
                      NEW route, route = SessionRoute(SessionOf(loaded, config.env), task), route.ok, route.provider # "ollama"
               PROVE  LET section  == Given(Given(config.file.sections, "providers"), route.provider)
                          base_url == loaded.providers[route.provider].base_url
                      IN  /\ "enabled" \in DOMAIN section /\ section.enabled
                          /\ \/ config.env.keys[route.provider] \subseteq {""} \/ base_url.scheme = "https"
                             \/ IsLoopback(base_url.host) \/ Misread(base_url)
    BY DEF LocalUnlessEnabled
  <2> DEFINE session == SessionOf(loaded, config.env)
             keys == RegisteredKeys(loaded, config.env)
  <2>1. loaded = apply_env_overrides(from_toml(config.file.sections), config.env)
    BY LoadedIs DEF Shaped
  <2>2. session.providers = keys
    BY DEF SessionOf
  <2> HIDE DEF session
  <2>3. DOMAIN session.providers \subseteq Nat
    BY <2>2, RegisteredIsBuilt
  <2>4. route.provider \in Usable(session)
    BY <2>3, OkRouteIsUsable DEF session
  <2>5. PICK i \in DOMAIN keys : keys[i] = route.provider
    BY <2>2, <2>4 DEF Usable
  <2>6. route.provider \in DOMAIN loaded.providers /\ Built(loaded, config.env, route.provider)
    BY <2>5, RegisteredIsBuilt
  <2>7. route.provider \in {"openrouter", "nvidia"}
    BY <2>1, <2>6, EnabledByFile
  <2>8. loaded.providers[route.provider].enabled /\ ClientBuilt(loaded.providers[route.provider], config.env.keys[route.provider])
    BY <2>6 DEF Built
  <2>9. LET section == Given(Given(config.file.sections, "providers"), route.provider)
        IN  "enabled" \in DOMAIN section /\ section.enabled
    BY <2>1, <2>7, <2>8, EnabledByFile
  <2>10. LET base_url == loaded.providers[route.provider].base_url
         IN  \/ config.env.keys[route.provider] \subseteq {""} \/ base_url.scheme = "https"
             \/ is_local_host(extract_host(base_url))
    BY <2>8 DEF ClientBuilt, is_https_or_local_http
  <2> QED BY <2>9, <2>10, LocalOrMisread
<1> QED BY <1>1, ShapeInvariance, PTL

-----------------------------------------------------------------------------
(* Startup: what is shown of a configuration is loaded as it was. *)

\* A section that has the fields of its default.
Complete(section, default) == IsMap(section) /\ DOMAIN section = DOMAIN default

LEMMA OverlayIs ==
  ASSUME NEW default, NEW given
  PROVE  /\ Complete(Overlay(default, given), default)
         /\ Complete(given, default) /\ "api_key" \notin DOMAIN default => Overlay(default, given) = given
BY DEF Overlay, Complete, IsMap

\* The sections without api_key, and those of the cloud providers, which have one.
LEMMA SectionFields ==
  /\ "api_key" \notin DOMAIN GeneralConfig /\ "api_key" \notin DOMAIN WorkspaceConfig
  /\ "api_key" \notin DOMAIN RoutingConfig /\ "api_key" \notin DOMAIN AuditConfig
  /\ "api_key" \notin DOMAIN ToolPermission /\ "api_key" \notin DOMAIN ProvidersConfig["ollama"]
  /\ "api_key" \notin DOMAIN PermissionsConfig /\ DOMAIN PermissionsConfig = {"default_policy", "tools"}
  /\ \A p \in {"openrouter", "nvidia"} : "api_key" \in DOMAIN ProvidersConfig[p] /\ ProvidersConfig[p].api_key = {}
BY DEF GeneralConfig, WorkspaceConfig, RoutingConfig, AuditConfig, ToolPermission, ProvidersConfig, OllamaConfig,
       PermissionsConfig, OpenRouterConfig, NvidiaConfig

\* The environment overrides a section the second time as the first.
LEMMA OverriddenOnce ==
  ASSUME NEW section, Complete(section, GeneralConfig), NEW env
  PROVE  /\ Complete(Overridden(section, env), GeneralConfig)
         /\ Overridden(Overridden(section, env), env) = Overridden(section, env)
<1> DEFINE v(x) == Override(env.log_level, x)
           d(x) == Override(env.data_dir, x)
           G == DOMAIN GeneralConfig
<1>1. \A x : v(v(x)) = v(x) /\ d(d(x)) = d(x)
  BY DEF Override
<1>2. \A s : Complete(s, GeneralConfig) =>
        Overridden(s, env) = [field \in G |-> IF field = "log_level" THEN v(s[field])
                                              ELSE IF field = "data_dir" THEN d(s[field]) ELSE s[field]]
  <2> SUFFICES ASSUME NEW s, Complete(s, GeneralConfig)
               PROVE  Overridden(s, env) = [field \in G |-> IF field = "log_level" THEN v(s[field])
                                                            ELSE IF field = "data_dir" THEN d(s[field]) ELSE s[field]]
    OBVIOUS
  <2> DEFINE a == v(s["log_level"])
             b == d(s["data_dir"])
             once == [s EXCEPT !.log_level = a]
  <2>1. Overridden(s, env) = [once EXCEPT !.data_dir = b]
    BY DEF Overridden
  <2>2. s = [field \in G |-> s[field]]
    BY DEF Complete, IsMap
  <2>3. once = [field \in G |-> IF field = "log_level" THEN a ELSE s[field]]
    <3> HIDE DEF a, G
    <3> QED BY <2>2
  <2> HIDE DEF once, a, b, G
  <2>4. [once EXCEPT !.data_dir = b] =
          [field \in G |-> IF field = "data_dir" THEN b ELSE IF field = "log_level" THEN a ELSE s[field]]
    BY <2>3
  <2> QED BY <2>1, <2>4 DEF a, b
<1> HIDE DEF v, d
<1>3. Complete(Overridden(section, env), GeneralConfig)
  BY <1>2 DEF Complete, IsMap
<1>4. Overridden(Overridden(section, env), env)
        = [field \in G |-> LET s == Overridden(section, env) IN
                           IF field = "log_level" THEN v(s[field]) ELSE IF field = "data_dir" THEN d(s[field]) ELSE s[field]]
  BY <1>2, <1>3
<1> QED BY <1>1, <1>2, <1>3, <1>4

\* The table of tools, each with the fields of an entry.
IsPermissions(pm) ==
  /\ Complete(pm, PermissionsConfig) /\ IsMap(pm.tools)
  /\ \A tool \in DOMAIN pm.tools : Complete(pm.tools[tool], ToolPermission)

WithTools(pm, tools) == [pm EXCEPT !.tools = tools]

LEMMA ToolsReplaced ==
  ASSUME NEW pm, Complete(pm, PermissionsConfig), NEW tools
  PROVE  /\ Complete(WithTools(pm, tools), PermissionsConfig) /\ WithTools(pm, tools).tools = tools
         /\ WithTools(pm, tools).default_policy = pm.default_policy
         /\ tools = pm.tools => WithTools(pm, tools) = pm
BY SectionFields DEF Complete, IsMap, WithTools

LEMMA DefaultTools ==
  /\ IsMap(PermissionsConfig.tools) /\ DOMAIN PermissionsConfig.tools = {"shell", "file", "web"}
  /\ \A tool \in DOMAIN PermissionsConfig.tools :
       /\ Complete(PermissionsConfig.tools[tool], ToolPermission)
       /\ " " \notin PermissionsConfig.tools[tool].allow_patterns \cup PermissionsConfig.tools[tool].deny_patterns
<1> DEFINE tools == PermissionsConfig.tools
           entry(a, d) == [policy |-> "ask", allow_patterns |-> a, deny_patterns |-> d]
           s == entry({"cargo ", "git "}, {"rm -rf", "| sh"})
           f == entry({"*.md", "*.rs"}, {"*.key", "*.pem"})
           w == entry({}, {"localhost", "127.0.0.1"})
<1>1. tools = [shell |-> s, file |-> f, web |-> w]
  BY DEF PermissionsConfig
<1>2. \A a, d : Complete(entry(a, d), ToolPermission)
  BY DEF Complete, IsMap, ToolPermission
<1>3. /\ s.allow_patterns = {"cargo ", "git "} /\ s.deny_patterns = {"rm -rf", "| sh"}
      /\ f.allow_patterns = {"*.md", "*.rs"} /\ f.deny_patterns = {"*.key", "*.pem"}
      /\ w.allow_patterns = {} /\ w.deny_patterns = {"localhost", "127.0.0.1"}
  OBVIOUS
<1> HIDE DEF entry, tools
<1>4. \A x \in {s, f, w} : Complete(x, ToolPermission) /\ " " \notin x.allow_patterns \cup x.deny_patterns
  <2>1. Complete(s, ToolPermission) /\ Complete(f, ToolPermission) /\ Complete(w, ToolPermission)
    BY <1>2
  <2> HIDE DEF s, f, w
  <2>2. " " \notin s.allow_patterns \cup s.deny_patterns
    BY <1>3
  <2>3. " " \notin f.allow_patterns \cup f.deny_patterns
    BY <1>3
  <2>4. " " \notin w.allow_patterns \cup w.deny_patterns
    BY <1>3
  <2> QED BY <2>1, <2>2, <2>3, <2>4
<1> HIDE DEF s, f, w
<1>5. IsMap(tools) /\ DOMAIN tools = {"shell", "file", "web"} /\ \A tool \in DOMAIN tools : tools[tool] \in {s, f, w}
  BY <1>1 DEF IsMap
<1> QED BY <1>4, <1>5 DEF tools

\* The entries of a table are read field by field.
ReadTools(tools) == [tool \in DOMAIN tools |-> Overlay(ToolPermission, tools[tool])]

LEMMA ToolsRead ==
  ASSUME NEW tools
  PROVE  /\ IsMap(ReadTools(tools)) /\ \A tool \in DOMAIN ReadTools(tools) : Complete(ReadTools(tools)[tool], ToolPermission)
         /\ IsMap(tools) /\ (\A tool \in DOMAIN tools : Complete(tools[tool], ToolPermission)) => ReadTools(tools) = tools
<1>1. IsMap(ReadTools(tools)) /\ \A tool \in DOMAIN ReadTools(tools) : Complete(ReadTools(tools)[tool], ToolPermission)
  BY OverlayIs DEF ReadTools, IsMap
<1>2. ASSUME IsMap(tools), \A tool \in DOMAIN tools : Complete(tools[tool], ToolPermission) PROVE ReadTools(tools) = tools
  <2>1. \A tool \in DOMAIN tools : Overlay(ToolPermission, tools[tool]) = tools[tool]
    BY <1>2, OverlayIs, SectionFields
  <2> QED BY <1>2, <2>1 DEF ReadTools, IsMap
<1> QED BY <1>1, <1>2

LEMMA PermissionsRead ==
  ASSUME NEW given
  PROVE  /\ read_permissions(given) = WithTools(Overlay(PermissionsConfig, given), ReadTools(Overlay(PermissionsConfig, given).tools))
         /\ IsPermissions(read_permissions(given))
<1> DEFINE read == Overlay(PermissionsConfig, given)
           tools == ReadTools(read.tools)
<1>1. read_permissions(given) = WithTools(read, tools)
  BY DEF read_permissions, WithTools, ReadTools
<1>2. Complete(read, PermissionsConfig)
  BY OverlayIs
<1> HIDE DEF read
<1>3. IsPermissions(WithTools(read, tools))
  BY <1>2, ToolsRead, ToolsReplaced DEF IsPermissions
<1> QED BY <1>1, <1>3 DEF read

\* A table without entries is not written, and read as the default one.
ReadBack(pm) == IF DOMAIN pm.tools = {} THEN WithTools(pm, PermissionsConfig.tools) ELSE pm

LEMMA PermissionsReread ==
  ASSUME NEW pm, IsPermissions(pm)
  PROVE  read_permissions(Keep(IF DOMAIN pm.tools = {} THEN {"default_policy"} ELSE DOMAIN pm, pm)) = ReadBack(pm)
<1>1. CASE DOMAIN pm.tools = {}
  <2> DEFINE kept == Keep({"default_policy"}, pm)
             read == Overlay(PermissionsConfig, kept)
             tools == PermissionsConfig.tools
  <2>1. DOMAIN kept = {"default_policy"} /\ kept["default_policy"] = pm.default_policy
    BY DEF Keep
  <2> HIDE DEF kept
  <2>2. read.tools = tools /\ read.default_policy = pm.default_policy
    BY <2>1, SectionFields DEF Overlay
  <2>3. Complete(read, PermissionsConfig) /\ Complete(pm, PermissionsConfig)
    BY OverlayIs DEF IsPermissions
  <2> HIDE DEF read, tools
  <2>4. ReadTools(read.tools) = tools
    BY <2>2, ToolsRead, DefaultTools DEF tools
  <2>5. WithTools(read, tools) = WithTools(pm, tools)
    <3>1. \A x, y : (/\ Complete(x, PermissionsConfig) /\ Complete(y, PermissionsConfig)
                     /\ x.tools = y.tools /\ x.default_policy = y.default_policy) => x = y
      BY SectionFields DEF Complete, IsMap
    <3> QED BY <2>2, <2>3, <3>1, ToolsReplaced
  <2>6. read_permissions(kept) = WithTools(read, ReadTools(read.tools))
    BY PermissionsRead DEF read
  <2> QED BY <1>1, <2>4, <2>5, <2>6 DEF ReadBack, kept, tools
<1>2. CASE DOMAIN pm.tools # {}
  <2>1. Keep(DOMAIN pm, pm) = pm
    BY DEF Keep, IsPermissions, Complete, IsMap
  <2>2. Overlay(PermissionsConfig, pm) = pm
    BY OverlayIs, SectionFields DEF IsPermissions
  <2>3. ReadTools(pm.tools) = pm.tools
    BY ToolsRead DEF IsPermissions
  <2>4. read_permissions(pm) = WithTools(pm, pm.tools)
    BY <2>2, <2>3, PermissionsRead
  <2>5. WithTools(pm, pm.tools) = pm
    BY ToolsReplaced DEF IsPermissions
  <2> QED BY <1>2, <2>1, <2>4, <2>5 DEF ReadBack
<1> QED BY <1>1, <1>2

\* The sections of the providers, each with the fields of its default.
IsProviders(pr) ==
  /\ IsMap(pr) /\ DOMAIN pr = {"openrouter", "nvidia", "ollama"}
  /\ \A p \in DOMAIN pr : Complete(pr[p], ProvidersConfig[p])

\* Keys are neither written nor read.
WrittenOf(pr) == [p \in DOMAIN pr |-> Keep(DOMAIN pr[p] \ {"api_key"}, pr[p])]
Keyless(pr)  == [p \in DOMAIN pr |-> IF p \in {"openrouter", "nvidia"} THEN WithKey(pr[p], {}) ELSE pr[p]]

LEMMA KeySet ==
  ASSUME NEW section, NEW default, Complete(section, default), NEW key, NEW other
  PROVE  /\ Complete(WithKey(section, key), default)
         /\ WithKey(WithKey(section, key), other) = WithKey(section, other)
         /\ "api_key" \in DOMAIN default => WithKey(section, key).api_key = key
         /\ section.api_key = key => WithKey(section, key) = section
         /\ \A field \in DOMAIN default : field # "api_key" => WithKey(section, key)[field] = section[field]
BY DEF Complete, IsMap, WithKey

LEMMA SectionReread ==
  ASSUME NEW section, NEW default, Complete(section, default), "api_key" \in DOMAIN default
  PROVE  Overlay(default, Keep(DOMAIN section \ {"api_key"}, section)) = WithKey(section, default.api_key)
<1> DEFINE kept == Keep(DOMAIN section \ {"api_key"}, section)
           read == Overlay(default, kept)
           set  == WithKey(section, default.api_key)
<1>1. DOMAIN kept = DOMAIN default \ {"api_key"} /\ \A field \in DOMAIN kept : kept[field] = section[field]
  BY DEF Keep, Complete
<1> HIDE DEF kept
<1>2. Complete(read, default) /\ Complete(set, default)
  BY OverlayIs, KeySet
<1>3. read.api_key = default.api_key /\ set.api_key = default.api_key
  BY KeySet DEF Overlay
<1>4. \A field \in DOMAIN default : field # "api_key" => read[field] = section[field] /\ set[field] = section[field]
  BY <1>1, KeySet DEF Overlay
<1> HIDE DEF read, set
<1>5. read = set
  BY <1>2, <1>3, <1>4 DEF Complete, IsMap
<1> QED BY <1>5 DEF read, set, kept

LEMMA ProvidersReread ==
  ASSUME NEW pr, IsProviders(pr), NEW sections, Given(sections, "providers") = WrittenOf(pr)
  PROVE  ProvidersOf(sections) = Keyless(pr)
<1> DEFINE written == WrittenOf(pr)
<1>1. DOMAIN written = DOMAIN pr /\ \A p \in DOMAIN pr : Given(written, p) = Keep(DOMAIN pr[p] \ {"api_key"}, pr[p])
  BY DEF WrittenOf, Given
<1> HIDE DEF written
<1>2. /\ DOMAIN pr = {"openrouter", "nvidia", "ollama"} /\ DOMAIN ProvidersConfig = DOMAIN pr
      /\ \A p \in DOMAIN pr : Complete(pr[p], ProvidersConfig[p])
  BY DEF IsProviders, ProvidersConfig
<1>3. ASSUME NEW p \in DOMAIN pr
      PROVE  Overlay(ProvidersConfig[p], Given(written, p)) = Keyless(pr)[p]
  <2>1. CASE p \in {"openrouter", "nvidia"}
    <3>1. "api_key" \in DOMAIN ProvidersConfig[p] /\ ProvidersConfig[p].api_key = {}
      BY <2>1, SectionFields
    <3>2. Overlay(ProvidersConfig[p], Given(written, p)) = WithKey(pr[p], {})
      BY <1>1, <1>2, <3>1, SectionReread
    <3> QED BY <2>1, <3>2 DEF Keyless
  <2>2. CASE p = "ollama"
    <3>1. "api_key" \notin DOMAIN ProvidersConfig[p] /\ Complete(pr[p], ProvidersConfig[p])
      BY <1>2, <2>2, SectionFields
    <3>2. Given(written, p) = pr[p]
      <4>1. DOMAIN pr[p] \ {"api_key"} = DOMAIN pr[p] /\ IsMap(pr[p])
        BY <3>1 DEF Complete
      <4>2. Given(written, p) = Keep(DOMAIN pr[p], pr[p])
        BY <1>1, <4>1
      <4> QED BY <4>1, <4>2, Zenon DEF IsMap, Keep
    <3>3. Overlay(ProvidersConfig[p], pr[p]) = pr[p]
      BY <3>1, OverlayIs
    <3> QED BY <2>2, <3>2, <3>3 DEF Keyless
  <2> QED BY <1>2, <2>1, <2>2
<1>4. ProvidersOf(sections) = [p \in DOMAIN pr |-> Overlay(ProvidersConfig[p], Given(written, p))]
  BY <1>2 DEF ProvidersOf, written
<1>5. Keyless(pr) = [p \in DOMAIN pr |-> Keyless(pr)[p]]
  BY DEF Keyless
<1> QED BY <1>3, <1>4, <1>5

\* What is shown of a configuration with complete sections is read as it was, but
\* for the keys and an empty table of tools.
IsComplete(g, w, pm, pr, r, a) ==
  /\ Complete(g, GeneralConfig) /\ Complete(w, WorkspaceConfig) /\ IsPermissions(pm) /\ IsProviders(pr)
  /\ Complete(r, RoutingConfig) /\ Complete(a, AuditConfig)

LEMMA ShownAs ==
  ASSUME NEW g, NEW w, NEW pm, NEW pr, NEW r, NEW a
  PROVE  to_toml(ConfigOf(g, w, pm, pr, r, a)) =
           ConfigOf(g, w, Keep(IF DOMAIN pm.tools = {} THEN {"default_policy"} ELSE DOMAIN pm, pm), WrittenOf(pr), r, a)
<1> DEFINE c  == ConfigOf(g, w, pm, pr, r, a)
           k  == Keep(IF DOMAIN pm.tools = {} THEN {"default_policy"} ELSE DOMAIN pm, pm)
           v  == WrittenOf(pr)
           c1 == [c EXCEPT !.permissions = k]
<1>1. c.permissions = pm /\ c.providers = pr
  BY ConfigParts
<1>2. to_toml(c) = [c EXCEPT !.permissions = k, !.providers = v]
  BY <1>1 DEF to_toml, WrittenOf
<1> HIDE DEF k, v
<1>3. [c EXCEPT !.permissions = k, !.providers = v] = [c1 EXCEPT !.providers = v]
  OBVIOUS
<1>4. c1 = ConfigOf(g, w, k, pr, r, a)
  BY DEF ConfigOf
<1> HIDE DEF c1
<1>5. [c1 EXCEPT !.providers = v] = ConfigOf(g, w, k, v, r, a)
  BY <1>4, ConfigParts
<1> QED BY <1>2, <1>3, <1>5 DEF k, v, c

LEMMA Reread ==
  ASSUME NEW g, NEW w, NEW pm, NEW pr, NEW r, NEW a, IsComplete(g, w, pm, pr, r, a)
  PROVE  from_toml(to_toml(ConfigOf(g, w, pm, pr, r, a))) = ConfigOf(g, w, ReadBack(pm), Keyless(pr), r, a)
<1> DEFINE k == Keep(IF DOMAIN pm.tools = {} THEN {"default_policy"} ELSE DOMAIN pm, pm)
           v == WrittenOf(pr)
           shown == ConfigOf(g, w, k, v, r, a)
<1>1. to_toml(ConfigOf(g, w, pm, pr, r, a)) = shown
  BY ShownAs
<1>2. read_permissions(k) = ReadBack(pm)
  BY PermissionsReread DEF IsComplete
<1> HIDE DEF k, v
<1>3. /\ Given(shown, "general") = g /\ Given(shown, "workspace") = w /\ Given(shown, "permissions") = k
      /\ Given(shown, "providers") = v /\ Given(shown, "routing") = r /\ Given(shown, "audit") = a
  BY DEF Given, ConfigOf
<1> HIDE DEF shown
<1>4. ProvidersOf(shown) = Keyless(pr)
  BY <1>3, ProvidersReread DEF v, IsComplete
<1>5. /\ Overlay(GeneralConfig, g) = g /\ Overlay(WorkspaceConfig, w) = w
      /\ Overlay(RoutingConfig, r) = r /\ Overlay(AuditConfig, a) = a
  BY OverlayIs, SectionFields DEF IsComplete
<1>6. from_toml(shown) = ConfigOf(g, w, ReadBack(pm), Keyless(pr), r, a)
  BY <1>2, <1>3, <1>4, <1>5, FileRead
<1> QED BY <1>1, <1>6

LEMMA ProvidersKeyed ==
  ASSUME NEW pr, IsProviders(pr), NEW env
  PROVE  /\ IsProviders(Keyless(pr)) /\ IsProviders(Keyed(pr, env))
         /\ Keyed(Keyless(Keyed(pr, env)), env) = Keyed(pr, env)
<1> DEFINE cloud == {"openrouter", "nvidia"}
<1>1. ASSUME NEW q, IsProviders(q)
      PROVE  /\ IsProviders(Keyed(q, env))
             /\ \A p \in DOMAIN q : Keyed(q, env)[p] = IF p \in cloud THEN WithKey(q[p], env.keys[p]) ELSE q[p]
  <2>1. IsMap(q) /\ DOMAIN q = {"openrouter", "nvidia", "ollama"} /\ \A p \in DOMAIN q : Complete(q[p], ProvidersConfig[p])
    BY <1>1 DEF IsProviders
  <2>2. "openrouter" \in DOMAIN q /\ "nvidia" \in DOMAIN q
    BY <2>1
  <2>3. /\ IsMap(Keyed(q, env)) /\ DOMAIN Keyed(q, env) = DOMAIN q
        /\ \A p \in DOMAIN q : Keyed(q, env)[p] = IF p \in cloud THEN WithKey(q[p], env.keys[p]) ELSE q[p]
    BY <2>1, <2>2, KeysGiven
  <2>4. ASSUME NEW p \in DOMAIN q PROVE Complete(Keyed(q, env)[p], ProvidersConfig[p])
    <3>1. Keyed(q, env)[p] \in {WithKey(q[p], env.keys[p]), q[p]}
      BY <2>3
    <3>2. Complete(WithKey(q[p], env.keys[p]), ProvidersConfig[p])
      BY <2>1, KeySet
    <3> QED BY <2>1, <3>1, <3>2
  <2> QED BY <2>1, <2>3, <2>4 DEF IsProviders
<1>2. ASSUME NEW q, IsProviders(q)
      PROVE  /\ IsProviders(Keyless(q))
             /\ \A p \in DOMAIN q : Keyless(q)[p] = IF p \in cloud THEN WithKey(q[p], {}) ELSE q[p]
  <2>1. DOMAIN q = {"openrouter", "nvidia", "ollama"} /\ \A p \in DOMAIN q : Complete(q[p], ProvidersConfig[p])
    BY <1>2 DEF IsProviders
  <2>2. /\ IsMap(Keyless(q)) /\ DOMAIN Keyless(q) = DOMAIN q
        /\ \A p \in DOMAIN q : Keyless(q)[p] = IF p \in cloud THEN WithKey(q[p], {}) ELSE q[p]
    BY DEF Keyless, IsMap
  <2>3. ASSUME NEW p \in DOMAIN q PROVE Complete(Keyless(q)[p], ProvidersConfig[p])
    <3>1. Keyless(q)[p] \in {WithKey(q[p], {}), q[p]}
      BY <2>2
    <3>2. Complete(WithKey(q[p], {}), ProvidersConfig[p])
      BY <2>1, KeySet
    <3> QED BY <2>1, <3>1, <3>2
  <2> QED BY <2>1, <2>2, <2>3 DEF IsProviders
<1> DEFINE keyed == Keyed(pr, env)
           bare  == Keyless(keyed)
           again == Keyed(bare, env)
<1>3. IsProviders(keyed) /\ IsProviders(bare) /\ IsProviders(again)
  BY <1>1, <1>2
<1>4. DOMAIN pr = {"openrouter", "nvidia", "ollama"} /\ DOMAIN keyed = DOMAIN pr /\ DOMAIN bare = DOMAIN pr /\ DOMAIN again = DOMAIN pr
      /\ IsMap(keyed) /\ IsMap(again) /\ \A p \in DOMAIN pr : Complete(pr[p], ProvidersConfig[p])
  BY <1>3 DEF IsProviders
<1>5. \A p \in DOMAIN pr :
        /\ keyed[p] = IF p \in cloud THEN WithKey(pr[p], env.keys[p]) ELSE pr[p]
        /\ bare[p] = IF p \in cloud THEN WithKey(keyed[p], {}) ELSE keyed[p]
        /\ again[p] = IF p \in cloud THEN WithKey(bare[p], env.keys[p]) ELSE bare[p]
  BY <1>1, <1>2, <1>3, <1>4
<1> HIDE DEF keyed, bare, again
<1>6. \A p \in DOMAIN pr : again[p] = keyed[p]
  <2> SUFFICES ASSUME NEW p \in DOMAIN pr PROVE again[p] = keyed[p]
    OBVIOUS
  <2>1. CASE p \in cloud
    <3>1. \A k, l : WithKey(WithKey(pr[p], k), l) = WithKey(pr[p], l)
      BY <1>4, KeySet
    <3> QED BY <1>5, <2>1, <3>1
  <2>2. CASE p \notin cloud
    BY <1>5, <2>2
  <2> QED BY <2>1, <2>2
<1>7. again = keyed
  BY <1>4, <1>6 DEF IsMap
<1> QED BY <1>2, <1>3, <1>7 DEF keyed, bare, again

\* What a file is read as, and what is loaded from it.
LEMMA ReadComplete ==
  ASSUME NEW sections
  PROVE  \E g, w, pm, pr, r, a :
           /\ from_toml(sections) = ConfigOf(g, w, pm, pr, r, a) /\ IsComplete(g, w, pm, pr, r, a)
           /\ pr = ProvidersOf(sections) /\ pm = read_permissions(Given(sections, "permissions")) /\ Keyless(pr) = pr
<1> DEFINE g  == Overlay(GeneralConfig, Given(sections, "general"))
           w  == Overlay(WorkspaceConfig, Given(sections, "workspace"))
           pm == read_permissions(Given(sections, "permissions"))
           pr == ProvidersOf(sections)
           r  == Overlay(RoutingConfig, Given(sections, "routing"))
           a  == Overlay(AuditConfig, Given(sections, "audit"))
<1>1. from_toml(sections) = ConfigOf(g, w, pm, pr, r, a)
  BY FileRead
<1>2. IsProviders(pr)
  BY ProvidersRead, OverlayIs DEF IsProviders
<1>3. IsComplete(g, w, pm, pr, r, a)
  BY <1>2, OverlayIs, PermissionsRead DEF IsComplete
<1>4. ASSUME NEW p \in {"openrouter", "nvidia"} PROVE WithKey(pr[p], {}) = pr[p]
  <2>1. pr[p] = Overlay(ProvidersConfig[p], Given(Given(sections, "providers"), p))
    BY ProvidersRead
  <2>2. "api_key" \in DOMAIN ProvidersConfig[p] /\ ProvidersConfig[p].api_key = {}
    BY SectionFields
  <2>3. pr[p].api_key = {}
    BY <2>1, <2>2 DEF Overlay
  <2>4. Complete(pr[p], ProvidersConfig[p])
    BY <2>1, OverlayIs
  <2> QED BY <2>3, <2>4, KeySet
<1>5. Keyless(pr) = pr
  <2> HIDE DEF pr
  <2> QED BY <1>2, <1>4 DEF Keyless, IsProviders, IsMap
<1> HIDE DEF g, w, pm, pr, r, a
<1>6. pr = ProvidersOf(sections) /\ pm = read_permissions(Given(sections, "permissions"))
  BY DEF pr, pm
<1> QED BY <1>1, <1>3, <1>5, <1>6

LEMMA LoadedComplete ==
  ASSUME NEW sections, NEW env, NEW loaded, loaded = apply_env_overrides(from_toml(sections), env)
  PROVE  \E g, w, pm, pr, r, a :
           /\ loaded = ConfigOf(g, w, pm, pr, r, a) /\ IsComplete(g, w, pm, pr, r, a)
           /\ Overridden(g, env) = g /\ Keyed(Keyless(pr), env) = pr
<1>1. PICK g, w, pm, pr, r, a : from_toml(sections) = ConfigOf(g, w, pm, pr, r, a) /\ IsComplete(g, w, pm, pr, r, a)
  BY ReadComplete
<1>2. loaded = ConfigOf(Overridden(g, env), w, pm, Keyed(pr, env), r, a)
  BY <1>1, EnvironmentApplied
<1>3. /\ Complete(Overridden(g, env), GeneralConfig)
      /\ Overridden(Overridden(g, env), env) = Overridden(g, env)
  BY <1>1, OverriddenOnce DEF IsComplete
<1>4. IsProviders(Keyed(pr, env)) /\ Keyed(Keyless(Keyed(pr, env)), env) = Keyed(pr, env)
  BY <1>1, ProvidersKeyed DEF IsComplete
<1>5. IsComplete(Overridden(g, env), w, pm, Keyed(pr, env), r, a)
  BY <1>1, <1>3, <1>4 DEF IsComplete
<1> QED BY <1>2, <1>3, <1>4, <1>5

LEMMA ValidReadBack ==
  ASSUME NEW g, NEW w, NEW pm, NEW pr, NEW r, NEW a, IsComplete(g, w, pm, pr, r, a), validate(ConfigOf(g, w, pm, pr, r, a))
  PROVE  validate(ConfigOf(g, w, ReadBack(pm), pr, r, a))
<1> DEFINE old == ConfigOf(g, w, pm, pr, r, a)
           new == ConfigOf(g, w, ReadBack(pm), pr, r, a)
<1>1. /\ old.general = g /\ old.audit = a /\ old.permissions = pm
      /\ new.general = g /\ new.audit = a /\ new.permissions = ReadBack(pm)
  BY ConfigParts
<1> HIDE DEF old, new
<1>2. CASE DOMAIN pm.tools = {}
  <2>1. ReadBack(pm).tools = PermissionsConfig.tools
    BY <1>2, ToolsReplaced DEF ReadBack, IsComplete, IsPermissions
  <2>2. validate(new)
    BY <1>1, <2>1, DefaultTools DEF validate, old
  <2> QED BY <2>2 DEF new
<1>3. CASE DOMAIN pm.tools # {}
  <2>1. ReadBack(pm) = pm
    BY <1>3 DEF ReadBack
  <2> QED BY <2>1
<1> QED BY <1>2, <1>3

\* With the default table of tools where there is none.
WithDefaultTools(loaded) ==
  IF DOMAIN loaded.permissions.tools = {} THEN [loaded EXCEPT !.permissions.tools = PermissionsConfig.tools] ELSE loaded

LEMMA DefaultToolsGiven ==
  ASSUME NEW g, NEW w, NEW pm, NEW pr, NEW r, NEW a
  PROVE  WithDefaultTools(ConfigOf(g, w, pm, pr, r, a)) = ConfigOf(g, w, ReadBack(pm), pr, r, a)
<1> DEFINE c == ConfigOf(g, w, pm, pr, r, a)
           tools == PermissionsConfig.tools
           back == WithTools(pm, tools)
<1>1. c.permissions = pm
  BY ConfigParts
<1>2. [c EXCEPT !.permissions.tools = tools] = [c EXCEPT !.permissions = back]
  <2> HIDE DEF c, tools
  <2> QED BY <1>1 DEF WithTools
<1>3. [c EXCEPT !.permissions = back] = ConfigOf(g, w, back, pr, r, a)
  <2> HIDE DEF back
  <2> QED BY DEF ConfigOf
<1> HIDE DEF c
<1>4. CASE DOMAIN pm.tools = {}
  <2>1. WithDefaultTools(c) = [c EXCEPT !.permissions.tools = tools]
    BY <1>1, <1>4 DEF WithDefaultTools
  <2>2. ReadBack(pm) = back
    BY <1>4 DEF ReadBack
  <2> HIDE DEF tools, back
  <2>3. WithDefaultTools(c) = ConfigOf(g, w, ReadBack(pm), pr, r, a)
    BY <1>2, <1>3, <2>1, <2>2, Zenon
  <2> QED BY <2>3 DEF c
<1>5. CASE DOMAIN pm.tools # {}
  BY <1>1, <1>5 DEF WithDefaultTools, ReadBack, c
<1> QED BY <1>4, <1>5

LEMMA ShownLoads ==
  ASSUME NEW sections, NEW env, NEW loaded, loaded = apply_env_overrides(from_toml(sections), env), validate(loaded)
  PROVE  load_from(config_show(loaded), env).config = {WithDefaultTools(loaded)}
<1>1. PICK g, w, pm, pr, r, a :
        /\ loaded = ConfigOf(g, w, pm, pr, r, a) /\ IsComplete(g, w, pm, pr, r, a)
        /\ Overridden(g, env) = g /\ Keyed(Keyless(pr), env) = pr
  BY LoadedComplete
<1>2. from_toml(to_toml(loaded)) = ConfigOf(g, w, ReadBack(pm), Keyless(pr), r, a)
  BY <1>1, Reread
<1>3. apply_env_overrides(from_toml(to_toml(loaded)), env) = ConfigOf(g, w, ReadBack(pm), pr, r, a)
  BY <1>1, <1>2, EnvironmentApplied
<1>4. WithDefaultTools(loaded) = ConfigOf(g, w, ReadBack(pm), pr, r, a)
  BY <1>1, DefaultToolsGiven
<1>5. validate(WithDefaultTools(loaded))
  BY <1>1, <1>4, ValidReadBack
<1>6. apply_env_overrides(from_toml(to_toml(loaded)), env) = WithDefaultTools(loaded)
  BY <1>3, <1>4
<1>7. config_show(loaded).is = "toml" /\ config_show(loaded).sections = to_toml(loaded)
  BY DEF config_show, Toml
<1> QED BY <1>5, <1>6, <1>7 DEF load_from

\* The file that init makes says what an empty one means.
LEMMA DefaultFile ==
  ASSUME NEW env
  PROVE  load_from(create_default, env) = load_from(Toml(<<>>), env)
<1> DEFINE none == <<>>
<1>1. create_default = Toml(to_toml(from_toml(none)))
  BY DEF create_default
<1>2. Given(none, "permissions") = none
  BY DEF Given
<1> HIDE DEF none
<1>3. PICK g, w, pm, pr, r, a :
        /\ from_toml(none) = ConfigOf(g, w, pm, pr, r, a) /\ IsComplete(g, w, pm, pr, r, a)
        /\ pm = read_permissions(Given(none, "permissions")) /\ Keyless(pr) = pr
  BY ReadComplete
<1>4. ReadBack(pm) = pm
  <2>1. Overlay(PermissionsConfig, none).tools = PermissionsConfig.tools
    BY SectionFields DEF Overlay, none
  <2>2. Complete(Overlay(PermissionsConfig, none), PermissionsConfig)
    BY OverlayIs
  <2>3. pm.tools = ReadTools(PermissionsConfig.tools)
    BY <1>2, <1>3, <2>1, <2>2, PermissionsRead, ToolsReplaced
  <2>4. DOMAIN pm.tools # {}
    BY <2>3, ToolsRead, DefaultTools
  <2> QED BY <2>4 DEF ReadBack
<1>5. from_toml(to_toml(from_toml(none))) = from_toml(none)
  BY <1>3, <1>4, Reread
<1>6. \A x, y : from_toml(x) = from_toml(y) => load_from(Toml(x), env) = load_from(Toml(y), env)
  <2>1. \A x : Toml(x).is = "toml" /\ Toml(x).sections = x
    BY DEF Toml
  <2> QED BY <2>1 DEF load_from
<1>7. load_from(create_default, env) = load_from(Toml(none), env)
  BY <1>1, <1>5, <1>6
<1> QED BY <1>7 DEF none

\* ShownReloads: for every file and environment, what is shown of a configuration is
\* a file that is loaded as the same one, and the file of init says what none would.
THEOREM ShownRoundTrip == DecisionsSpec => ShownReloads
<1> DEFINE Reloads ==
      about = "startup" =>
        /\ KeepShown =>
             \A shown \in Loaded(config).config :
               Loaded(config').config =
                 {IF DOMAIN shown.permissions.tools = {}
                  THEN [shown EXCEPT !.permissions.tools = PermissionsConfig.tools] ELSE shown}
        /\ InitConfig => Loaded(config') = load_from(Toml(<<>>), config.env)
<1>1. ASSUME Shaped, about = "startup", KeepShown, NEW shown \in Loaded(config).config
      PROVE  Loaded(config').config = {WithDefaultTools(shown)}
  <2>1. /\ config = [file |-> config.file, env |-> config.env]
        /\ shown = apply_env_overrides(from_toml(config.file.sections), config.env) /\ validate(shown)
        /\ Loaded(config).config = {shown}
    BY <1>1, LoadedIs DEF Shaped
  <2>2. config' = [config EXCEPT !.file = config_show(shown)]
    BY <1>1, <2>1 DEF KeepShown, Edit
  <2>3. config'.file = config_show(shown) /\ config'.env = config.env
    BY <2>1, <2>2
  <2>4. load_from(config_show(shown), config.env).config = {WithDefaultTools(shown)}
    BY <2>1, ShownLoads
  <2> QED BY <2>3, <2>4 DEF Loaded
<1>2. ASSUME Shaped, about = "startup", InitConfig
      PROVE  Loaded(config') = load_from(Toml(<<>>), config.env)
  <2>1. config'.file = create_default /\ config'.env = config.env
    <3>1. config = [file |-> config.file, env |-> config.env] /\ config' = [config EXCEPT !.file = create_default]
      BY <1>2 DEF Shaped, InitConfig, Edit
    <3> QED BY <3>1
  <2> QED BY <2>1, DefaultFile DEF Loaded
<1>3. Shaped => Reloads
  BY <1>1, <1>2 DEF WithDefaultTools
<1>4. Shaped /\ [DecisionsNext]_case_vars => [Reloads]_case_vars
  BY <1>3
<1>5. DecisionsSpec => [][Reloads]_case_vars
  BY <1>4, ShapeInvariance, PTL DEF DecisionsSpec
<1> QED BY <1>5 DEF ShownReloads

-----------------------------------------------------------------------------
(* The matcher, by itself. *)

\* Character i of the pattern may take the text from position j to position k.
Link(pattern, text, i, j, k) ==
  IF pattern[i] = "*" THEN j <= k ELSE k = j + 1 /\ text[k] = pattern[i]

\* f cuts the text from f[i] on into what the characters after i of the pattern match.
Cuts(f, pattern, text, i) ==
  /\ f \in [i..Len(pattern) -> 0..Len(text)] /\ f[Len(pattern)] = Len(text)
  /\ \A k \in (i + 1)..Len(pattern) : Link(pattern, text, k, f[k - 1], f[k])

\* What follows i in the pattern matches what follows j in the text.
Fits(pattern, text, i, j) ==
  \E f : Cuts(f, pattern, text, i) /\ f[i] = j

LEMMA FitsAtEnd ==
  ASSUME NEW pattern, NEW text, Len(pattern) \in Nat, Len(text) \in Nat, NEW j
  PROVE  Fits(pattern, text, Len(pattern), j) <=> j = Len(text)
<1> DEFINE m == Len(pattern)
<1>1. ASSUME Fits(pattern, text, m, j) PROVE j = Len(text)
  BY <1>1 DEF Fits, Cuts
<1>2. ASSUME j = Len(text) PROVE Fits(pattern, text, m, j)
  <2> DEFINE f == [k \in m..m |-> j]
  <2>1. f \in [m..m -> 0..Len(text)] /\ f[m] = Len(text) /\ (m + 1)..m = {}
    BY <1>2
  <2>2. Cuts(f, pattern, text, m) /\ f[m] = j
    BY <2>1, <1>2 DEF Cuts
  <2> HIDE DEF f
  <2> QED BY <2>2 DEF Fits
<1> QED BY <1>1, <1>2

LEMMA FitsRange ==
  ASSUME NEW pattern, NEW text, Len(pattern) \in Nat, NEW i \in 0..Len(pattern), NEW j,
         Fits(pattern, text, i, j)
  PROVE  j \in 0..Len(text)
<1>1. i \in i..Len(pattern)
  OBVIOUS
<1> QED BY <1>1 DEF Fits, Cuts

LEMMA FitsStep ==
  ASSUME NEW pattern, NEW text, Len(pattern) \in Nat, Len(text) \in Nat,
         NEW i \in 1..Len(pattern), NEW j
  PROVE  Fits(pattern, text, i - 1, j) <=>
           /\ j \in 0..Len(text)
           /\ \E k \in 0..Len(text) : Link(pattern, text, i, j, k) /\ Fits(pattern, text, i, k)
<1> DEFINE m == Len(pattern)
           n == Len(text)
<1>1. ASSUME Fits(pattern, text, i - 1, j)
      PROVE  j \in 0..n /\ \E k \in 0..n : Link(pattern, text, i, j, k) /\ Fits(pattern, text, i, k)
  <2>1. PICK f : Cuts(f, pattern, text, i - 1) /\ f[i - 1] = j
    BY <1>1 DEF Fits
  <2> DEFINE g == [k \in i..m |-> f[k]]
  <2>2. f \in [(i - 1)..m -> 0..n] /\ f[m] = n
    BY <2>1 DEF Cuts
  <2>3. \A k \in i..m : Link(pattern, text, k, f[k - 1], f[k])
    BY <2>1 DEF Cuts
  <2>4. i - 1 \in (i - 1)..m /\ i \in i..m /\ i \in (i - 1)..m /\ m \in i..m /\ i..m \subseteq (i - 1)..m
    OBVIOUS
  <2>5. g \in [i..m -> 0..n] /\ g[m] = n /\ (\A k \in i..m : g[k] = f[k])
    BY <2>2, <2>4
  <2>6. ASSUME NEW k \in (i + 1)..m PROVE Link(pattern, text, k, g[k - 1], g[k])
    <3>1. k \in i..m /\ k - 1 \in i..m
      OBVIOUS
    <3> QED BY <3>1, <2>3, <2>5
  <2> HIDE DEF g
  <2>7. Cuts(g, pattern, text, i)
    BY <2>5, <2>6 DEF Cuts
  <2>8. Fits(pattern, text, i, f[i])
    BY <2>7, <2>5, <2>4 DEF Fits
  <2>9. Link(pattern, text, i, j, f[i])
    BY <2>1, <2>3, <2>4
  <2> QED BY <2>1, <2>2, <2>4, <2>8, <2>9
<1>2. ASSUME j \in 0..n, NEW k \in 0..n, Link(pattern, text, i, j, k), Fits(pattern, text, i, k)
      PROVE  Fits(pattern, text, i - 1, j)
  <2>1. PICK f : Cuts(f, pattern, text, i) /\ f[i] = k
    BY <1>2 DEF Fits
  <2> DEFINE g == [l \in (i - 1)..m |-> IF l = i - 1 THEN j ELSE f[l]]
  <2>2. f \in [i..m -> 0..n] /\ f[m] = n
    BY <2>1 DEF Cuts
  <2>3. \A l \in (i + 1)..m : Link(pattern, text, l, f[l - 1], f[l])
    BY <2>1 DEF Cuts
  <2>4. i - 1 \in (i - 1)..m /\ i \in i..m /\ m \in i..m /\ i..m \subseteq (i - 1)..m /\ ~(i - 1 \in i..m)
        /\ \A l \in (i - 1)..m : l = i - 1 \/ l \in i..m
    OBVIOUS
  <2>5. g[i - 1] = j /\ \A l \in i..m : g[l] = f[l]
    BY <2>4
  <2>6. g \in [(i - 1)..m -> 0..n]
    BY <1>2, <2>2, <2>4
  <2> HIDE DEF g
  <2>7. ASSUME NEW l \in i..m PROVE Link(pattern, text, l, g[l - 1], g[l])
    <3>1. CASE l = i
      BY <3>1, <1>2, <2>1, <2>4, <2>5
    <3>2. CASE l \in (i + 1)..m
      <4>1. l - 1 \in i..m
        BY <3>2
      <4> QED BY <4>1, <3>2, <2>3, <2>5
    <3> QED BY <3>1, <3>2
  <2>8. (i - 1) + 1 = i
    OBVIOUS
  <2>9. g[m] = n
    BY <2>2, <2>4, <2>5
  <2>10. Cuts(g, pattern, text, i - 1)
    BY <2>6, <2>7, <2>8, <2>9 DEF Cuts
  <2> QED BY <2>10, <2>5 DEF Fits
<1> QED BY <1>1, <1>2

\* Matches follows the cuts from the start of the pattern.
LEMMA MatchesCuts ==
  ASSUME NEW pattern, NEW text, Len(pattern) \in Nat, Len(text) \in Nat, DOMAIN text = 1..Len(text)
  PROVE  Matches(pattern, text) <=> Fits(pattern, text, 0, 0)
<1> DEFINE m == Len(pattern)
           n == Len(text)
           V == SUBSET (0..n)
           step == [i \in 1..m |-> [e \in V |-> Advance(text, e, pattern[i])]]
           Def(f) == [i \in 0..m |-> IF i = 0 THEN {0} ELSE Advance(text, f[i - 1], pattern[i])]
           ends == CHOOSE f : f = Def(f)
<1>1. ASSUME NEW e \in V, NEW c PROVE Advance(text, e, c) \in V
  BY DEF Advance
<1>2. step \in [1..m -> [V -> V]] /\ {0} \in V
  <2>1. {0} \in V
    OBVIOUS
  <2> HIDE DEF V
  <2>2. \A i \in 1..m : [e \in V |-> Advance(text, e, pattern[i])] \in [V -> V]
    BY <1>1
  <2> QED BY <2>1, <2>2
<1>3. PICK f : IsRun(f, V, {0}, step, m)
  <2> HIDE DEF step, V
  <2> QED BY <1>2, RunExists
<1>4. f = Def(f)
  <2>1. f \in [0..m -> V] /\ \A i \in 0..m : f[i] = IF i = 0 THEN {0} ELSE step[i][f[i - 1]]
    BY <1>3 DEF IsRun
  <2>2. ASSUME NEW i \in 0..m PROVE f[i] = IF i = 0 THEN {0} ELSE Advance(text, f[i - 1], pattern[i])
    <3>1. CASE i = 0
      BY <3>1, <2>1
    <3>2. CASE i \in 1..m
      <4>1. i - 1 \in 0..m /\ i # 0
        BY <3>2
      <4>2. f[i - 1] \in V
        BY <4>1, <2>1
      <4>3. step[i][f[i - 1]] = Advance(text, f[i - 1], pattern[i])
        BY <4>2, <3>2
      <4> QED BY <4>1, <4>3, <2>1
    <3> QED BY <3>1, <3>2
  <2> QED BY <2>1, <2>2
<1>5. ends = Def(ends)
  BY <1>4
<1>6. Matches(pattern, text) <=> n \in ends[m]
  BY DEF Matches
<1> HIDE DEF ends, V
<1>7. /\ ends[0] = {0}
      /\ \A i \in 1..m : ends[i] = Advance(text, ends[i - 1], pattern[i])
  <2>1. \A i \in 0..m : ends[i] = IF i = 0 THEN {0} ELSE Advance(text, ends[i - 1], pattern[i])
    BY <1>5
  <2> QED BY <2>1
<1> DEFINE Split(i) == ends[i] \subseteq 0..n
                       /\ (Fits(pattern, text, 0, 0) <=> \E j \in ends[i] : Fits(pattern, text, i, j))
           T == {i \in 0..m : Split(i)}
<1>8. 0 \in T
  BY <1>7
<1>9. ASSUME NEW i \in 0..(m - 1), i \in T PROVE i + 1 \in T
  <2>1. Split(i) /\ i + 1 \in 1..m /\ (i + 1) - 1 = i
    BY <1>9
  <2>2. ends[i + 1] = Advance(text, ends[i], pattern[i + 1])
    BY <1>7, <2>1
  <2>3. \A k : k \in ends[i + 1] <=> k \in 0..n /\ \E j \in ends[i] : Link(pattern, text, i + 1, j, k)
    <3>1. CASE pattern[i + 1] = "*"
      BY <3>1, <2>2 DEF Advance, Link
    <3>2. CASE pattern[i + 1] # "*"
      <4>1. \A k : k \in ends[i + 1] <=> k \in 1..n /\ k - 1 \in ends[i] /\ text[k] = pattern[i + 1]
        BY <3>2, <2>2 DEF Advance
      <4>2. \A k, j : Link(pattern, text, i + 1, j, k) <=> k = j + 1 /\ text[k] = pattern[i + 1]
        BY <3>2 DEF Link
      <4>3. ASSUME NEW k \in 1..n, k - 1 \in ends[i], text[k] = pattern[i + 1]
            PROVE  \E j \in ends[i] : k = j + 1 /\ text[k] = pattern[i + 1]
        <5>1. k = (k - 1) + 1
          OBVIOUS
        <5> QED BY <5>1, <4>3
      <4>4. ASSUME NEW k, NEW j \in ends[i], k \in 0..n, k = j + 1
            PROVE  k \in 1..n /\ k - 1 \in ends[i]
        <5>1. j \in 0..n
          BY <2>1
        <5>2. k \in 1..n /\ k - 1 = j
          BY <5>1, <4>4
        <5> QED BY <5>2
      <4> QED BY <4>1, <4>2, <4>3, <4>4
    <3> QED BY <3>1, <3>2
  <2>4. \A j : Fits(pattern, text, i, j) <=>
                 /\ j \in 0..n
                 /\ \E k \in 0..n : Link(pattern, text, i + 1, j, k) /\ Fits(pattern, text, i + 1, k)
    BY <2>1, FitsStep
  <2>5. (\E j \in ends[i] : Fits(pattern, text, i, j)) <=> \E k \in ends[i + 1] : Fits(pattern, text, i + 1, k)
    BY <2>1, <2>3, <2>4
  <2>6. Split(i + 1)
    BY <2>1, <2>3, <2>5
  <2> QED BY <2>1, <2>6
<1>10. m \in T
  <2> HIDE DEF T
  <2>1. 0..m \subseteq T
    BY <1>8, <1>9, IntervalFromZero
  <2> QED BY <2>1
<1>11. \A j : Fits(pattern, text, m, j) <=> j = n
  BY FitsAtEnd
<1> QED BY <1>6, <1>10, <1>11

-----------------------------------------------------------------------------
\* What the loop is given: a text without stars.
Matchable(pattern, text) ==
  /\ Len(pattern) \in Nat /\ DOMAIN pattern = 1..Len(pattern)
  /\ Len(text) \in Nat /\ DOMAIN text = 1..Len(text)
  /\ \A i \in DOMAIN text : text[i] \notin {"*", "end"}

Over(text, s) == s.stuck \/ s.t = Len(text)

\* Characters that are no stars take as many characters of the text.
LEMMA Shifted ==
  ASSUME NEW pattern, NEW text, Matchable(pattern, text), NEW a \in 0..Len(pattern), NEW b \in a..Len(pattern),
         \A i \in (a + 1)..b : pattern[i] # "*", NEW k, Fits(pattern, text, a, k)
  PROVE  Fits(pattern, text, b, k + (b - a))
<1> DEFINE T == {d \in 0..(b - a) : Fits(pattern, text, a + d, k + d)}
<1>0. Len(pattern) \in Nat /\ Len(text) \in Nat /\ k \in 0..Len(text)
  BY FitsRange DEF Matchable
<1>1. 0 \in T
  <2>1. a + 0 = a /\ k + 0 = k /\ 0 \in 0..(b - a)
    BY <1>0
  <2> QED BY <2>1
<1>2. ASSUME NEW d \in 0..((b - a) - 1), d \in T PROVE d + 1 \in T
  <2>1. a + d + 1 \in 1..Len(pattern) /\ a + d + 1 \in (a + 1)..b /\ (a + d + 1) - 1 = a + d /\ a + (d + 1) = a + d + 1
        /\ d + 1 \in 0..(b - a)
    BY <1>0
  <2>2. Fits(pattern, text, a + d, k + d)
    BY <1>2
  <2>3. \E l \in 0..Len(text) : Link(pattern, text, a + d + 1, k + d, l) /\ Fits(pattern, text, a + d + 1, l)
    BY <1>0, <2>1, <2>2, FitsStep
  <2>4. PICK l \in 0..Len(text) : Link(pattern, text, a + d + 1, k + d, l) /\ Fits(pattern, text, a + d + 1, l)
    BY <2>3
  <2>5. l = k + d + 1 /\ k + (d + 1) = k + d + 1
    BY <1>0, <2>1, <2>4 DEF Link
  <2> QED BY <2>1, <2>4, <2>5
<1>3. b - a \in T
  <2> HIDE DEF T
  <2>1. b - a \in Nat
    BY <1>0
  <2>2. 0..(b - a) \subseteq T
    BY <1>1, <1>2, <2>1, IntervalFromZero
  <2> QED BY <2>1, <2>2
<1>4. a + (b - a) = b
  BY <1>0
<1> QED BY <1>3, <1>4

\* At the end of the text only stars may follow.
LEMMA StarsFit ==
  ASSUME NEW pattern, NEW text, Matchable(pattern, text), NEW p \in 0..Len(pattern)
  PROVE  Fits(pattern, text, p, Len(text)) <=> \A i \in (p + 1)..Len(pattern) : pattern[i] = "*"
<1> DEFINE m == Len(pattern)
           n == Len(text)
           Rest(q) == Fits(pattern, text, q, n) <=> \A i \in (q + 1)..m : pattern[i] = "*"
           T == {d \in 0..(m - p) : Rest(m - d)}
<1>0. m \in Nat /\ n \in Nat
  BY DEF Matchable
<1>1. 0 \in T
  <2>1. m - 0 = m /\ (m + 1)..m = {} /\ 0 \in 0..(m - p)
    BY <1>0
  <2>2. Fits(pattern, text, m, n)
    BY <1>0, FitsAtEnd
  <2> QED BY <2>1, <2>2
<1>2. ASSUME NEW d \in 0..((m - p) - 1), d \in T PROVE d + 1 \in T
  <2> DEFINE q == m - d
  <2>1. q \in 1..m /\ m - (d + 1) = q - 1 /\ d + 1 \in 0..(m - p) /\ (q - 1) + 1 = q
    BY <1>0
  <2>2. Rest(q)
    BY <1>2
  <2> HIDE DEF q
  <2>3. Fits(pattern, text, q - 1, n) <=> \E k \in 0..n : Link(pattern, text, q, n, k) /\ Fits(pattern, text, q, k)
    <3>1. n \in 0..n
      BY <1>0
    <3> QED BY <1>0, <2>1, <3>1, FitsStep
  <2>4. \A k \in 0..n : Link(pattern, text, q, n, k) <=> pattern[q] = "*" /\ k = n
    BY <1>0 DEF Link
  <2>5. Fits(pattern, text, q - 1, n) <=> pattern[q] = "*" /\ Fits(pattern, text, q, n)
    <3>1. n \in 0..n
      BY <1>0
    <3> QED BY <2>3, <2>4, <3>1
  <2>6. \A i : i \in q..m <=> i = q \/ i \in (q + 1)..m
    BY <1>0, <2>1
  <2>7. Rest(q - 1)
    BY <2>1, <2>2, <2>5, <2>6
  <2> QED BY <2>1, <2>7
<1>3. m - p \in T
  <2> HIDE DEF T
  <2>1. m - p \in Nat
    BY <1>0
  <2>2. 0..(m - p) \subseteq T
    BY <1>1, <1>2, <2>1, IntervalFromZero
  <2> QED BY <2>1, <2>2
<1>4. m - (m - p) = p
  BY <1>0
<1> QED BY <1>3, <1>4

\* The next character of the pattern.
LEMMA NextChar ==
  ASSUME NEW pattern, NEW text, Matchable(pattern, text), NEW s \in States(pattern, text), ~Over(text, s)
  PROVE  /\ s.p \in 0..Len(pattern) /\ s.t \in 0..(Len(text) - 1)
         /\ s.star_p \in 0..Len(pattern) /\ s.star_t \in 0..s.t
         /\ s.t + 1 \in 1..Len(text) /\ text[s.t + 1] # "*"
         /\ IF s.p < Len(pattern) THEN s.p + 1 \in 1..Len(pattern) /\ At(pattern, s.p + 1) = pattern[s.p + 1]
            ELSE s.p = Len(pattern) /\ At(pattern, s.p + 1) \notin {"*", text[s.t + 1]}
<1>1. /\ s.p \in 0..Len(pattern) /\ s.t \in 0..Len(text) /\ s.t # Len(text)
      /\ s.star_p \in 0..Len(pattern) /\ s.star_t \in 0..Len(text) /\ s.star_t <= s.t
  BY DEF States, Over
<1>2. Len(pattern) \in Nat /\ Len(text) \in Nat
  BY DEF Matchable
<1>3. s.t \in 0..(Len(text) - 1) /\ s.t + 1 \in 1..Len(text) /\ s.star_t \in 0..s.t
  BY <1>1, <1>2
<1>4. text[s.t + 1] # "*" /\ text[s.t + 1] # "end"
  BY <1>3 DEF Matchable
<1>5. CASE s.p < Len(pattern)
  <2>1. s.p + 1 \in 1..Len(pattern)
    BY <1>1, <1>2, <1>5
  <2>2. At(pattern, s.p + 1) = pattern[s.p + 1]
    BY <2>1 DEF At, Matchable
  <2> QED BY <1>1, <1>3, <1>4, <1>5, <2>1, <2>2
<1>6. CASE ~(s.p < Len(pattern))
  <2>1. s.p = Len(pattern) /\ s.p + 1 \notin 1..Len(pattern)
    BY <1>1, <1>2, <1>6
  <2>2. At(pattern, s.p + 1) = "end"
    BY <2>1 DEF At, Matchable
  <2> QED BY <1>1, <1>3, <1>4, <1>6, <2>1, <2>2
<1> QED BY <1>5, <1>6

\* What an iteration does: take a character, begin a star, go back to the last one
\* or find that there is none.
Moves(pattern, text, s, new) ==
  \/ /\ s.p < Len(pattern) /\ pattern[s.p + 1] = text[s.t + 1]
     /\ new \in States(pattern, text) /\ new.stuck = FALSE /\ new.p = s.p + 1 /\ new.t = s.t + 1
     /\ new.star_p = s.star_p /\ new.star_t = s.star_t
  \/ /\ s.p < Len(pattern) /\ pattern[s.p + 1] = "*"
     /\ new \in States(pattern, text) /\ new.stuck = FALSE /\ new.p = s.p + 1 /\ new.t = s.t
     /\ new.star_p = s.p + 1 /\ new.star_t = s.t
  \/ /\ s.p < Len(pattern) => pattern[s.p + 1] \notin {"*", text[s.t + 1]}
     /\ s.star_p > 0
     /\ new \in States(pattern, text) /\ new.stuck = FALSE /\ new.p = s.star_p /\ new.t = s.star_t + 1
     /\ new.star_p = s.star_p /\ new.star_t = s.star_t + 1
  \/ /\ s.p < Len(pattern) => pattern[s.p + 1] \notin {"*", text[s.t + 1]}
     /\ s.star_p = 0 /\ new = Stuck

LEMMA IterationMoves ==
  ASSUME NEW pattern, NEW text, Matchable(pattern, text), NEW s \in States(pattern, text), ~Over(text, s)
  PROVE  Moves(pattern, text, s, Iterate(pattern, text, s))
<1> DEFINE new == Iterate(pattern, text, s)
<1>1. new = Iterate(pattern, text, s)
  OBVIOUS
<1> HIDE DEF new
<1> SUFFICES Moves(pattern, text, s, new)
  BY <1>1
<1> DEFINE here == At(pattern, s.p + 1)
           char == text[s.t + 1]
<1>2. char # "*"
  BY NextChar
<1>3. here = char => new = [s EXCEPT !.p = @ + 1, !.t = @ + 1]
  BY <1>1 DEF Iterate
<1>4. here = "*" => new = [s EXCEPT !.p = @ + 1, !.star_p = s.p + 1, !.star_t = s.t]
  BY <1>1, <1>2 DEF Iterate
<1>5. here \notin {"*", char} /\ s.star_p > 0 => new = [s EXCEPT !.p = s.star_p, !.t = s.star_t + 1, !.star_t = @ + 1]
  BY <1>1 DEF Iterate
<1>6. here \notin {"*", char} /\ ~(s.star_p > 0) => new = Stuck
  BY <1>1 DEF Iterate
<1> DEFINE m == Len(pattern)
           n == Len(text)
           Ps == 0..m
           Ts == 0..n
           All == [p : Ps, t : Ts, star_p : Ps, star_t : Ts, stuck : BOOLEAN]
<1>7. s \in All /\ s.stuck = FALSE
  BY DEF States, Over
<1>8. m \in Nat /\ n \in Nat
  BY DEF Matchable
<1>9. /\ s.p \in 0..m /\ s.t \in 0..(n - 1) /\ s.star_p \in 0..m /\ s.star_t \in 0..s.t
      /\ text[s.t + 1] # "*"
      /\ s.p < m => At(pattern, s.p + 1) = pattern[s.p + 1]
      /\ ~(s.p < m) => At(pattern, s.p + 1) \notin {"*", text[s.t + 1]}
  BY NextChar
<1>10. CASE At(pattern, s.p + 1) = text[s.t + 1]
  <2>1. new = [s EXCEPT !.p = @ + 1, !.t = @ + 1]
    BY <1>10, <1>3
  <2>2. s.p < m /\ pattern[s.p + 1] = text[s.t + 1] /\ s.p + 1 \in 0..m /\ s.t + 1 \in 0..n /\ s.star_t <= s.t + 1
    <3>1. s.p < m /\ pattern[s.p + 1] = text[s.t + 1]
      <4> HIDE DEF m, n
      <4> QED BY <1>9, <1>10
    <3>2. s.p + 1 \in 0..m /\ s.t + 1 \in 0..n /\ s.star_t <= s.t + 1
      BY ONLY <1>8, <1>9, <3>1
    <3> QED BY <3>1, <3>2
  <2>3. /\ new \in All /\ new.stuck = FALSE /\ new.p = s.p + 1 /\ new.t = s.t + 1
        /\ new.star_p = s.star_p /\ new.star_t = s.star_t
    <3>1. s.p + 1 \in Ps /\ s.t + 1 \in Ts
      BY <2>2
    <3> HIDE DEF Ps, Ts
    <3> QED BY <1>7, <2>1, <3>1
  <2> QED BY <2>2, <2>3 DEF States, Moves
<1>11. CASE At(pattern, s.p + 1) = "*"
  <2>1. new = [s EXCEPT !.p = @ + 1, !.star_p = s.p + 1, !.star_t = s.t]
    BY <1>11, <1>4
  <2>2. s.p < m /\ pattern[s.p + 1] = "*" /\ s.p + 1 \in 0..m /\ s.t \in 0..n /\ s.t <= s.t
    <3>1. s.p < m /\ pattern[s.p + 1] = "*"
      <4> HIDE DEF m, n
      <4> QED BY <1>9, <1>11
    <3>2. s.p + 1 \in 0..m /\ s.t \in 0..n /\ s.t <= s.t
      BY ONLY <1>8, <1>9, <3>1
    <3> QED BY <3>1, <3>2
  <2>3. /\ new \in All /\ new.stuck = FALSE /\ new.p = s.p + 1 /\ new.t = s.t
        /\ new.star_p = s.p + 1 /\ new.star_t = s.t
    <3>1. s.p + 1 \in Ps /\ s.t \in Ts
      BY <2>2
    <3> HIDE DEF Ps, Ts
    <3> QED BY <1>7, <2>1, <3>1
  <2> QED BY <2>2, <2>3 DEF States, Moves
<1>12. CASE At(pattern, s.p + 1) \notin {"*", text[s.t + 1]} /\ s.star_p > 0
  <2>1. new = [s EXCEPT !.p = s.star_p, !.t = s.star_t + 1, !.star_t = @ + 1]
    BY <1>12, <1>5
  <2>2. s.star_t + 1 \in 0..n /\ s.star_t + 1 <= s.star_t + 1
    <3>1. s.star_t \in Nat /\ s.t \in Nat /\ s.star_t <= s.t /\ s.t < n
      BY <1>8, <1>9
    <3> QED BY <1>8, <3>1
  <2>3. /\ new \in All /\ new.stuck = FALSE /\ new.p = s.star_p /\ new.t = s.star_t + 1
        /\ new.star_p = s.star_p /\ new.star_t = s.star_t + 1
    <3>1. s.star_p \in Ps /\ s.star_t + 1 \in Ts
      BY <1>9, <2>2
    <3> HIDE DEF Ps, Ts
    <3> QED BY <1>7, <2>1, <3>1
  <2> QED BY <1>9, <1>12, <2>2, <2>3 DEF States, Moves
<1>13. CASE At(pattern, s.p + 1) \notin {"*", text[s.t + 1]} /\ ~(s.star_p > 0)
  <2>1. new = Stuck /\ s.star_p = 0
    BY <1>9, <1>13, <1>6
  <2> QED BY <1>9, <1>13, <2>1 DEF Moves
<1> QED BY <1>10, <1>11, <1>12, <1>13

LEMMA IterationStays ==
  ASSUME NEW pattern, NEW text, Matchable(pattern, text), NEW s \in States(pattern, text), ~Over(text, s)
  PROVE  Iterate(pattern, text, s) \in States(pattern, text)
<1>1. Stuck \in States(pattern, text)
  BY DEF Stuck, States, Matchable
<1>2. Moves(pattern, text, s, Iterate(pattern, text, s))
  BY IterationMoves
<1> QED BY <1>1, <1>2 DEF Moves

\* The loop as a function: from a state to where it is over.
Loop(pattern, text, f) ==
  [s \in States(pattern, text) |-> IF s.stuck \/ s.t = Len(text) THEN s ELSE f[Iterate(pattern, text, s)]]

\* e is over and in every set that the loop, begun in s, does not leave.
Reaches(pattern, text, s, e) ==
  /\ e \in States(pattern, text) /\ Over(text, e)
  /\ \A X \in SUBSET States(pattern, text) :
       s \in X /\ (\A x \in X : ~Over(text, x) => Iterate(pattern, text, x) \in X) => e \in X

LEMMA LoopExists ==
  ASSUME NEW pattern, NEW text, Matchable(pattern, text)
  PROVE  \E f : f = Loop(pattern, text, f)
<1> DEFINE S == States(pattern, text)
           E(s) == {e \in S : Reaches(pattern, text, s, e)}
           f == [s \in S |-> CHOOSE e : e \in E(s)]
<1>1. ASSUME NEW s \in S, Over(text, s) PROVE E(s) = {s}
  <2>1. ASSUME NEW e \in E(s) PROVE e = s
    <3>1. {s} \in SUBSET S /\ s \in {s} /\ \A x \in {s} : ~Over(text, x) => Iterate(pattern, text, x) \in {s}
      BY <1>1
    <3>2. Reaches(pattern, text, s, e)
      OBVIOUS
    <3>3. e \in {s}
      BY <3>1, <3>2 DEF Reaches
    <3> QED BY <3>3
  <2>2. Reaches(pattern, text, s, s)
    BY <1>1 DEF Reaches
  <2> QED BY <2>1, <2>2
<1>2. ASSUME NEW s \in S, ~Over(text, s) PROVE E(s) = E(Iterate(pattern, text, s)) /\ Iterate(pattern, text, s) \in S
  <2> DEFINE next == Iterate(pattern, text, s)
  <2>1. next \in S
    BY <1>2, IterationStays
  <2>2. ASSUME NEW e, Reaches(pattern, text, next, e) PROVE Reaches(pattern, text, s, e)
    <3> SUFFICES ASSUME NEW X \in SUBSET S, s \in X,
                        \A x \in X : ~Over(text, x) => Iterate(pattern, text, x) \in X
                 PROVE  e \in X
      BY <2>2 DEF Reaches
    <3>1. next \in X
      BY <1>2
    <3> HIDE DEF next, S
    <3> QED BY <3>1, <2>2 DEF Reaches, S
  <2>3. ASSUME NEW e, Reaches(pattern, text, s, e) PROVE Reaches(pattern, text, next, e)
    <3> SUFFICES ASSUME NEW X \in SUBSET S, next \in X,
                        \A x \in X : ~Over(text, x) => Iterate(pattern, text, x) \in X
                 PROVE  e \in X
      BY <2>3 DEF Reaches
    <3> DEFINE Y == X \cup {s}
    <3>1. Y \in SUBSET S /\ s \in Y /\ \A y \in Y : ~Over(text, y) => Iterate(pattern, text, y) \in Y
      OBVIOUS
    <3> HIDE DEF Y, next
    <3>2. e \in Y /\ Over(text, e)
      BY <3>1, <2>3 DEF Reaches
    <3> QED BY <3>2, <1>2 DEF Y
  <2> HIDE DEF next
  <2>4. E(s) = E(next)
    BY <2>2, <2>3
  <2> QED BY <2>1, <2>4 DEF next
<1> HIDE DEF E
<1>3. ASSUME NEW s \in S PROVE f[s] = IF s.stuck \/ s.t = Len(text) THEN s ELSE f[Iterate(pattern, text, s)]
  <2>1. CASE Over(text, s)
    <3>1. E(s) = {s}
      BY <1>1, <2>1
    <3>2. f[s] = CHOOSE e : e \in {s}
      BY <3>1
    <3>3. f[s] = s
      BY <3>2
    <3> QED BY <3>3, <2>1 DEF Over
  <2>2. CASE ~Over(text, s)
    <3>1. E(s) = E(Iterate(pattern, text, s)) /\ Iterate(pattern, text, s) \in S
      BY <1>2, <2>2
    <3>2. f[s] = f[Iterate(pattern, text, s)]
      BY <3>1
    <3> QED BY <3>2, <2>2 DEF Over
  <2> QED BY <2>1, <2>2
<1>4. f = [s \in S |-> f[s]]
  OBVIOUS
<1> HIDE DEF f
<1>5. f = Loop(pattern, text, f)
  BY <1>3, <1>4 DEF Loop
<1> QED BY <1>5

-----------------------------------------------------------------------------
\* The text is matched as it was from the start: from here on, or after the last star
\* takes more of it; and what follows that star took as many characters as it has.
Promising(pattern, text, s) ==
  /\ s \in States(pattern, text) /\ s.stuck = FALSE
  /\ s.star_p > 0 =>
       /\ s.star_p <= s.p /\ s.p - s.star_p = s.t - s.star_t
       /\ \A i \in (s.star_p + 1)..s.p : pattern[i] # "*"
  /\ Fits(pattern, text, 0, 0) <=>
       \/ Fits(pattern, text, s.p, s.t)
       \/ s.star_p > 0 /\ \E k \in (s.star_t + 1)..Len(text) : Fits(pattern, text, s.star_p, k)

\* What a longer run for the last star leads to goes through here.
LEMMA LongerRun ==
  ASSUME NEW pattern, NEW text, Matchable(pattern, text), NEW s, Promising(pattern, text, s),
         s.star_p > 0, NEW k \in (s.star_t + 1)..Len(text), Fits(pattern, text, s.star_p, k)
  PROVE  \E l \in (s.t + 1)..Len(text) : Fits(pattern, text, s.p, l)
<1>1. Len(pattern) \in Nat /\ Len(text) \in Nat
  BY DEF Matchable
<1>2. /\ s.p \in 0..Len(pattern) /\ s.t \in 0..Len(text) /\ s.star_p \in 0..Len(pattern) /\ s.star_t \in 0..Len(text)
      /\ s.star_p <= s.p /\ s.p - s.star_p = s.t - s.star_t
      /\ \A i \in (s.star_p + 1)..s.p : pattern[i] # "*"
  BY DEF Promising, States
<1>3. s.p \in s.star_p..Len(pattern)
  BY <1>1, <1>2
<1> DEFINE l == k + (s.p - s.star_p)
<1>4. Fits(pattern, text, s.p, l)
  BY <1>2, <1>3, Shifted
<1>5. l \in 0..Len(text)
  BY <1>1, <1>2, <1>4, FitsRange
<1>6. l \in (s.t + 1)..Len(text)
  BY <1>1, <1>2, <1>5
<1> HIDE DEF l
<1> QED BY <1>4, <1>6

\* Where a literal does not match nothing fits.
LEMMA NothingFits ==
  ASSUME NEW pattern, NEW text, Matchable(pattern, text), NEW s \in States(pattern, text), ~Over(text, s),
         s.p < Len(pattern) => pattern[s.p + 1] \notin {"*", text[s.t + 1]}
  PROVE  ~Fits(pattern, text, s.p, s.t)
<1>1. Len(pattern) \in Nat /\ Len(text) \in Nat
  BY DEF Matchable
<1>2. s.p \in 0..Len(pattern) /\ s.t \in 0..(Len(text) - 1)
  BY NextChar
<1>3. CASE s.p < Len(pattern)
  <2>1. s.p + 1 \in 1..Len(pattern) /\ (s.p + 1) - 1 = s.p
    BY <1>1, <1>2, <1>3
  <2>2. ASSUME NEW k \in 0..Len(text) PROVE ~Link(pattern, text, s.p + 1, s.t, k)
    BY <1>3 DEF Link
  <2>3. Fits(pattern, text, (s.p + 1) - 1, s.t) => \E k \in 0..Len(text) : Link(pattern, text, s.p + 1, s.t, k)
    BY <1>1, <2>1, FitsStep
  <2> QED BY <2>1, <2>2, <2>3
<1>4. CASE ~(s.p < Len(pattern))
  <2>1. s.p = Len(pattern) /\ s.t # Len(text)
    BY <1>1, <1>2, <1>4
  <2> QED BY <1>1, <2>1, FitsAtEnd
<1> QED BY <1>3, <1>4

LEMMA PromiseKept ==
  ASSUME NEW pattern, NEW text, Matchable(pattern, text), NEW s, Promising(pattern, text, s), ~Over(text, s),
         NEW new, new = Iterate(pattern, text, s)
  PROVE  \/ new = Stuck /\ ~Fits(pattern, text, 0, 0)
         \/ /\ Promising(pattern, text, new)
            /\ s.star_t <= new.star_t
            /\ s.star_t = new.star_t => s.p < new.p /\ s.t <= new.t
<1> DEFINE F(i, j) == Fits(pattern, text, i, j)
           m == Len(pattern)
           n == Len(text)
           Whole == F(0, 0)
           Longer(x) == x.star_p > 0 /\ \E k \in (x.star_t + 1)..n : F(x.star_p, k)
<1>1. m \in Nat /\ n \in Nat /\ s \in States(pattern, text)
  BY DEF Matchable, Promising
<1>2. /\ s.p \in 0..m /\ s.t \in 0..(n - 1) /\ s.star_p \in 0..m /\ s.star_t \in 0..s.t
      /\ text[s.t + 1] # "*"
  BY <1>1, NextChar
<1>3. /\ s.star_p > 0 =>
           /\ s.star_p <= s.p /\ s.p - s.star_p = s.t - s.star_t
           /\ \A i \in (s.star_p + 1)..s.p : pattern[i] # "*"
      /\ Whole <=> F(s.p, s.t) \/ Longer(s)
  BY DEF Promising
<1>4. ASSUME s.p < m
      PROVE  /\ s.p + 1 \in 1..m /\ (s.p + 1) - 1 = s.p
             /\ \A j : F(s.p, j) <=> j \in 0..n /\ \E k \in 0..n : Link(pattern, text, s.p + 1, j, k) /\ F(s.p + 1, k)
  <2>1. s.p + 1 \in 1..m /\ (s.p + 1) - 1 = s.p
    BY <1>1, <1>2, <1>4
  <2>2. \A j : F((s.p + 1) - 1, j) <=> j \in 0..n /\ \E k \in 0..n : Link(pattern, text, s.p + 1, j, k) /\ F(s.p + 1, k)
    BY <1>1, <2>1, FitsStep
  <2> QED BY <2>1, <2>2
<1>5. CASE /\ s.p < m /\ pattern[s.p + 1] = text[s.t + 1]
           /\ new \in States(pattern, text) /\ new.stuck = FALSE /\ new.p = s.p + 1 /\ new.t = s.t + 1
           /\ new.star_p = s.star_p /\ new.star_t = s.star_t
  <2>1. F(s.p, s.t) <=> F(new.p, new.t)
    <3>1. \A k \in 0..n : Link(pattern, text, s.p + 1, s.t, k) <=> k = s.t + 1
      BY <1>2, <1>5 DEF Link
    <3>2. s.t + 1 \in 0..n /\ s.t \in 0..n
      BY <1>1, <1>2
    <3>3. F(s.p, s.t) <=> s.t \in 0..n /\ \E k \in 0..n : Link(pattern, text, s.p + 1, s.t, k) /\ F(s.p + 1, k)
      BY <1>4, <1>5
    <3>4. F(s.p, s.t) <=> F(s.p + 1, s.t + 1)
      BY <3>1, <3>2, <3>3
    <3> QED BY <3>4, <1>5
  <2>2. Longer(s) <=> Longer(new)
    BY <1>5
  <2>3. new.star_p > 0 =>
          /\ new.star_p <= new.p /\ new.p - new.star_p = new.t - new.star_t
          /\ \A i \in (new.star_p + 1)..new.p : pattern[i] # "*"
    <3> SUFFICES ASSUME s.star_p > 0
                 PROVE  /\ s.star_p <= s.p + 1 /\ (s.p + 1) - s.star_p = (s.t + 1) - s.star_t
                        /\ \A i \in (s.star_p + 1)..(s.p + 1) : pattern[i] # "*"
      BY <1>5
    <3>1. s.star_p <= s.p + 1 /\ (s.p + 1) - s.star_p = (s.t + 1) - s.star_t
      <4>1. s.star_p <= s.p /\ s.p - s.star_p = s.t - s.star_t
        BY <1>3
      <4>2. s.p \in Int /\ s.t \in Int /\ s.star_p \in Int /\ s.star_t \in Int
        BY <1>1, <1>2
      <4> HIDE DEF F, m, n
      <4> QED BY ONLY <4>1, <4>2
    <3>2. \A i \in (s.star_p + 1)..(s.p + 1) : i = s.p + 1 \/ i \in (s.star_p + 1)..s.p
      BY <1>2
    <3>3. pattern[s.p + 1] # "*"
      BY <1>2, <1>5
    <3> QED BY <1>3, <3>1, <3>2, <3>3
  <2>4. Promising(pattern, text, new)
    BY <1>3, <1>5, <2>1, <2>2, <2>3 DEF Promising
  <2>5. s.star_t <= new.star_t /\ s.p < new.p /\ s.t <= new.t
    BY <1>2, <1>5
  <2> QED BY <2>4, <2>5
<1>6. CASE /\ s.p < m /\ pattern[s.p + 1] = "*"
           /\ new \in States(pattern, text) /\ new.stuck = FALSE /\ new.p = s.p + 1 /\ new.t = s.t
           /\ new.star_p = s.p + 1 /\ new.star_t = s.t
  <2>1. \A j : F(s.p, j) <=> j \in 0..n /\ \E k \in 0..n : j <= k /\ F(s.p + 1, k)
    BY <1>4, <1>6 DEF Link
  <2>2. F(s.p, s.t) <=> F(new.p, new.t) \/ Longer(new)
    <3>1. s.t \in 0..n /\ \A k : k \in 0..n /\ s.t <= k <=> k = s.t \/ k \in (s.t + 1)..n
      BY <1>1, <1>2
    <3>2. F(s.p, s.t) <=> F(s.p + 1, s.t) \/ \E k \in (s.t + 1)..n : F(s.p + 1, k)
      BY <2>1, <3>1
    <3>3. new.star_p > 0
      BY <1>2, <1>6
    <3> QED BY <3>2, <3>3, <1>6
  <2>3. Longer(s) => F(s.p, s.t)
    <3> SUFFICES ASSUME s.star_p > 0, NEW k \in (s.star_t + 1)..n, F(s.star_p, k) PROVE F(s.p, s.t)
      OBVIOUS
    <3>1. PICK l \in (s.t + 1)..n : F(s.p, l)
      BY LongerRun
    <3>2. PICK h \in 0..n : l <= h /\ F(s.p + 1, h)
      BY <2>1, <3>1
    <3>3. s.t \in 0..n /\ s.t <= h
      BY <1>1, <1>2, <3>1, <3>2
    <3> QED BY <2>1, <3>2, <3>3
  <2>4. /\ new.star_p <= new.p /\ new.p - new.star_p = new.t - new.star_t
        /\ \A i \in (new.star_p + 1)..new.p : pattern[i] # "*"
    BY <1>2, <1>6
  <2>5. Promising(pattern, text, new)
    BY <1>3, <1>6, <2>2, <2>3, <2>4 DEF Promising
  <2>6. s.star_t <= new.star_t /\ s.p < new.p /\ s.t <= new.t
    BY <1>2, <1>6
  <2> QED BY <2>5, <2>6
<1>7. CASE /\ s.p < m => pattern[s.p + 1] \notin {"*", text[s.t + 1]}
           /\ s.star_p > 0
           /\ new \in States(pattern, text) /\ new.stuck = FALSE /\ new.p = s.star_p /\ new.t = s.star_t + 1
           /\ new.star_p = s.star_p /\ new.star_t = s.star_t + 1
  <2>1. ~F(s.p, s.t)
    BY <1>1, <1>7, NothingFits
  <2>2. Longer(s) <=> F(new.p, new.t) \/ Longer(new)
    <3>1. \A k : k \in (s.star_t + 1)..n <=> k = s.star_t + 1 \/ k \in (s.star_t + 1 + 1)..n
      BY <1>1, <1>2
    <3> QED BY <1>7, <3>1
  <2>3. /\ new.star_p <= new.p /\ new.p - new.star_p = new.t - new.star_t
        /\ \A i \in (new.star_p + 1)..new.p : pattern[i] # "*"
    BY <1>2, <1>7
  <2>4. Promising(pattern, text, new)
    BY <1>3, <1>7, <2>1, <2>2, <2>3 DEF Promising
  <2>5. s.star_t <= new.star_t /\ s.star_t # new.star_t
    BY <1>2, <1>7
  <2> QED BY <2>4, <2>5
<1>8. CASE /\ s.p < m => pattern[s.p + 1] \notin {"*", text[s.t + 1]}
           /\ s.star_p = 0 /\ new = Stuck
  <2>1. ~F(s.p, s.t)
    BY <1>1, <1>8, NothingFits
  <2> QED BY <1>3, <1>8, <2>1
<1>9. Moves(pattern, text, s, new)
  BY <1>1, IterationMoves
<1> QED BY <1>5, <1>6, <1>7, <1>8, <1>9 DEF Moves

\* Where the loop ends it says whether the text is matched.
Accepts(pattern, last) == ~last.stuck /\ \A i \in (last.p + 1)..Len(pattern) : pattern[i] = "*"

LEMMA PromiseFulfilled ==
  ASSUME NEW pattern, NEW text, Matchable(pattern, text), NEW s, Promising(pattern, text, s), Over(text, s)
  PROVE  Accepts(pattern, s) <=> Fits(pattern, text, 0, 0)
<1>1. /\ s.stuck = FALSE /\ s.t = Len(text) /\ s.p \in 0..Len(pattern) /\ Len(text) \in Nat
  BY DEF Promising, Over, States, Matchable
<1>2. Fits(pattern, text, s.p, s.t) <=> \A i \in (s.p + 1)..Len(pattern) : pattern[i] = "*"
  BY <1>1, StarsFit
<1>3. ~(s.star_p > 0 /\ \E k \in (s.star_t + 1)..Len(text) : Fits(pattern, text, s.star_p, k))
  <2> SUFFICES ASSUME s.star_p > 0, NEW k \in (s.star_t + 1)..Len(text), Fits(pattern, text, s.star_p, k)
               PROVE  FALSE
    OBVIOUS
  <2>1. \E l \in (s.t + 1)..Len(text) : Fits(pattern, text, s.p, l)
    BY LongerRun
  <2>2. (s.t + 1)..Len(text) = {}
    BY <1>1
  <2> QED BY <2>1, <2>2
<1> QED BY <1>1, <1>2, <1>3 DEF Promising, Accepts

LEMMA LessIsLeft ==
  ASSUME NEW m \in Int, NEW n \in Int, NEW b \in Int, NEW p \in Int, NEW t \in Int, NEW q \in Int, NEW u \in Int,
         (m - p) + (n - t) <= b + 1, p < q, t <= u
  PROVE  (m - q) + (n - u) <= b
  OBVIOUS

\* So it does from every promising state: each iteration moves the start of the
\* last star's run, or else goes on in the pattern.
LEMMA LoopDecides ==
  ASSUME NEW pattern, NEW text, Matchable(pattern, text), NEW f, f = Loop(pattern, text, f),
         NEW start, Promising(pattern, text, start)
  PROVE  Accepts(pattern, f[start]) <=> Fits(pattern, text, 0, 0)
<1> DEFINE m == Len(pattern)
           n == Len(text)
           Good(s) == Promising(pattern, text, s)
           Right(s) == Accepts(pattern, f[s]) <=> Fits(pattern, text, 0, 0)
           Runs == {a \in Nat : \A s : Good(s) /\ n - s.star_t <= a => Right(s)}
<1>1. m \in Nat /\ n \in Nat
  BY DEF Matchable
<1>2. ASSUME NEW s, Good(s)
      PROVE  /\ s \in States(pattern, text) /\ s.p \in 0..m /\ s.t \in 0..n /\ s.star_t \in 0..n
             /\ f[s] = IF s.stuck \/ s.t = n THEN s ELSE f[Iterate(pattern, text, s)]
  <2>1. s \in States(pattern, text)
    BY <1>2 DEF Promising
  <2>2. f[s] = Loop(pattern, text, f)[s]
    OBVIOUS
  <2>3. f[s] = IF s.stuck \/ s.t = n THEN s ELSE f[Iterate(pattern, text, s)]
    BY <2>1, <2>2 DEF Loop
  <2> QED BY <2>1, <2>3 DEF States
<1>3. ASSUME NEW s, Good(s), Over(text, s) PROVE Right(s)
  <2>1. f[s] = s
    BY <1>2, <1>3 DEF Over
  <2> QED BY <1>3, <2>1, PromiseFulfilled
<1>4. ASSUME NEW s, Good(s), ~Over(text, s),
             \A new : /\ Good(new) /\ s.star_t <= new.star_t
                      /\ s.star_t = new.star_t => s.p < new.p /\ s.t <= new.t
                      => Right(new)
      PROVE  Right(s)
  <2> DEFINE new == Iterate(pattern, text, s)
  <2>1. f[s] = f[new]
    BY <1>2, <1>4 DEF Over
  <2>2. new = Iterate(pattern, text, s)
    OBVIOUS
  <2> HIDE DEF new
  <2>3. \/ new = Stuck /\ ~Fits(pattern, text, 0, 0)
        \/ /\ Good(new) /\ s.star_t <= new.star_t
           /\ s.star_t = new.star_t => s.p < new.p /\ s.t <= new.t
    BY <1>4, <2>2, PromiseKept
  <2>4. CASE new = Stuck /\ ~Fits(pattern, text, 0, 0)
    <3>1. Stuck \in States(pattern, text) /\ Stuck.stuck = TRUE
      BY DEF Stuck, States, Matchable
    <3>2. Loop(pattern, text, f)[Stuck] = Stuck
      BY <3>1 DEF Loop
    <3>3. f[new] = Stuck
      BY <2>4, <3>2
    <3>4. ~Accepts(pattern, Stuck)
      BY <3>1 DEF Accepts
    <3> QED BY <2>1, <2>4, <3>3, <3>4
  <2>5. CASE ~(new = Stuck /\ ~Fits(pattern, text, 0, 0))
    BY <1>4, <2>1, <2>3, <2>5
  <2> QED BY <2>4, <2>5
<1> HIDE DEF Good, Right
<1>5. ASSUME NEW a \in Nat, \A s : Good(s) /\ n - s.star_t < a => Right(s)
      PROVE  \A s : Good(s) /\ n - s.star_t <= a => Right(s)
  <2> DEFINE Rest(s) == (m - s.p) + (n - s.t)
             Ways == {b \in Nat : \A s : Good(s) /\ n - s.star_t <= a /\ Rest(s) <= b => Right(s)}
  <2>1. 0 \in Ways
    <3> SUFFICES ASSUME NEW s, Good(s), Rest(s) <= 0 PROVE Right(s)
      OBVIOUS
    <3>1. s.t = n
      BY <1>1, <1>2
    <3> QED BY <3>1, <1>3 DEF Over
  <2>2. ASSUME NEW b \in Nat, b \in Ways PROVE b + 1 \in Ways
    <3> SUFFICES ASSUME NEW s, Good(s), n - s.star_t <= a, Rest(s) <= b + 1, ~Over(text, s) PROVE Right(s)
      BY <1>3
    <3>1. ASSUME NEW new, Good(new), s.star_t <= new.star_t,
                 s.star_t = new.star_t => s.p < new.p /\ s.t <= new.t
          PROVE  Right(new)
      <4>1. /\ s.p \in 0..m /\ s.t \in 0..n /\ s.star_t \in 0..n
            /\ new.p \in 0..m /\ new.t \in 0..n /\ new.star_t \in 0..n
        BY <1>2, <3>1
      <4>2. CASE s.star_t = new.star_t
        <5>1. s.p < new.p /\ s.t <= new.t
          BY <3>1, <4>2
        <5>2. (m - new.p) + (n - new.t) <= b
          <6>1. (m - s.p) + (n - s.t) <= b + 1
            OBVIOUS
          <6>2. /\ s.p \in Int /\ s.t \in Int /\ new.p \in Int /\ new.t \in Int /\ m \in Int /\ n \in Int
                /\ b \in Int
            <7>1. \A i : i \in 0..m \/ i \in 0..n => i \in Int
              BY <1>1
            <7> HIDE DEF m, n
            <7> QED BY <1>1, <4>1, <7>1
          <6> HIDE DEF m, n
          <6> QED BY ONLY <5>1, <6>1, <6>2, LessIsLeft
        <5>3. n - new.star_t <= a
          BY <4>2
        <5> QED BY <2>2, <3>1, <5>2, <5>3
      <4>3. CASE s.star_t # new.star_t
        <5>1. n - new.star_t < a
          <6>1. n - s.star_t <= a
            OBVIOUS
          <6>2. n \in Nat /\ a \in Nat
            BY <1>1, <1>5
          <6> HIDE DEF m, n
          <6> QED BY ONLY <3>1, <4>1, <4>3, <6>1, <6>2
        <5> QED BY <1>5, <3>1, <5>1
      <4> QED BY <4>2, <4>3
    <3> QED BY <1>4, <3>1
  <2> HIDE DEF Ways
  <2>3. Nat \subseteq Ways
    BY <2>1, <2>2, NaturalsFromZero
  <2>4. ASSUME NEW s, Good(s), n - s.star_t <= a PROVE Right(s)
    <3>1. Rest(s) \in Nat
      BY <1>1, <1>2, <2>4
    <3>2. Rest(s) \in Ways /\ Rest(s) <= Rest(s)
      BY <2>3, <3>1
    <3> HIDE DEF Rest
    <3> QED BY <2>4, <3>2 DEF Ways
  <2> QED BY <2>4
<1>6. 0 \in Runs
  <2>1. \A s : Good(s) => ~(n - s.star_t < 0)
    BY <1>1, <1>2
  <2> QED BY <1>5, <2>1
<1>7. ASSUME NEW a \in Nat, a \in Runs PROVE a + 1 \in Runs
  <2>1. \A s : Good(s) /\ n - s.star_t < a + 1 => Right(s)
    <3> SUFFICES ASSUME NEW s, Good(s), n - s.star_t < a + 1 PROVE Right(s)
      OBVIOUS
    <3>1. n - s.star_t <= a
      BY <1>1, <1>2
    <3> QED BY <1>7, <3>1
  <2> QED BY <1>5, <2>1
<1> HIDE DEF Runs
<1>8. Nat \subseteq Runs
  BY <1>6, <1>7, NaturalsFromZero
<1>9. Good(start) /\ n - start.star_t \in Nat /\ n - start.star_t <= n - start.star_t
  <2>1. Good(start)
    BY DEF Good
  <2> QED BY <1>1, <1>2, <2>1
<1>10. Right(start)
  BY <1>8, <1>9 DEF Runs
<1> QED BY <1>10 DEF Right

\* The matcher decides what a pattern means, for every pattern and every text without
\* a star: going back to the last star only loses no match (PatternsMean on the
\* small inputs of a run).
THEOREM MatcherCorrect ==
  ASSUME NEW Chars, NEW pattern \in Seq(Chars), NEW text \in Seq(Chars \ {"*", "end"})
  PROVE  glob_match(pattern, text) <=> Matches(pattern, text)
<1> DEFINE start == [p |-> 0, t |-> 0, star_p |-> 0, star_t |-> 0, stuck |-> FALSE]
           run == CHOOSE f : f = Loop(pattern, text, f)
<1>1. Matchable(pattern, text)
  BY DEF Matchable
<1>2. run = Loop(pattern, text, run)
  BY <1>1, LoopExists
<1>3. glob_match(pattern, text) <=> Accepts(pattern, run[start])
  BY DEF glob_match, Accepts, Loop
<1>4. Promising(pattern, text, start)
  <2>1. start \in States(pattern, text)
    BY <1>1 DEF States, Matchable
  <2> QED BY <2>1 DEF Promising
<1> HIDE DEF start, run
<1>5. Accepts(pattern, run[start]) <=> Fits(pattern, text, 0, 0)
  BY <1>1, <1>2, <1>4, LoopDecides
<1>6. Matches(pattern, text) <=> Fits(pattern, text, 0, 0)
  BY <1>1, MatchesCuts DEF Matchable
<1> QED BY <1>3, <1>5, <1>6

\* A star more at the start of a pattern loses nothing.
LEMMA StarFirst ==
  ASSUME NEW pattern, NEW starred, NEW text, Matchable(pattern, text), Matchable(starred, text),
         Len(starred) = Len(pattern) + 1, starred[1] = "*",
         \A i \in 1..Len(pattern) : starred[i + 1] = pattern[i],
         Fits(pattern, text, 0, 0)
  PROVE  Fits(starred, text, 0, 0)
<1> DEFINE m == Len(pattern)
           n == Len(text)
<1>1. PICK f : Cuts(f, pattern, text, 0) /\ f[0] = 0
  BY DEF Fits
<1>2. m \in Nat /\ n \in Nat
  BY DEF Matchable
<1>3. /\ f \in [0..m -> 0..n] /\ f[m] = n
      /\ \A k \in 1..m : Link(pattern, text, k, f[k - 1], f[k])
  BY <1>1 DEF Cuts
<1> DEFINE g == [i \in 0..(m + 1) |-> IF i = 0 THEN 0 ELSE f[i - 1]]
<1>4. \A i \in 1..(m + 1) : i - 1 \in 0..m
  BY <1>2
<1>5. g \in [0..(m + 1) -> 0..n]
  BY <1>2, <1>3, <1>4
<1>6. g[0] = 0 /\ (\A i \in 1..(m + 1) : g[i] = f[i - 1])
  BY <1>2
<1> HIDE DEF g
<1>7. g[m + 1] = n
  BY <1>2, <1>3, <1>6
<1>8. ASSUME NEW k \in 1..(m + 1) PROVE Link(starred, text, k, g[k - 1], g[k])
  <2>1. CASE k = 1
    <3>1. g[k - 1] = 0 /\ g[k] = 0
      BY <1>1, <1>2, <1>6, <2>1
    <3> QED BY <2>1, <3>1 DEF Link
  <2>2. CASE k \in 2..(m + 1)
    <3> DEFINE i == k - 1
    <3>1. i \in 1..m /\ k = i + 1 /\ i \in 1..(m + 1)
      BY <1>2, <2>2
    <3> HIDE DEF i
    <3>2. g[k - 1] = f[i - 1] /\ g[k] = f[i]
      <4>1. k - 1 = i
        BY <3>1
      <4> QED BY <1>6, <3>1, <4>1
    <3>3. starred[k] = pattern[i]
      BY <3>1
    <3>4. f[i] \in 0..n
      <4>1. i \in 0..m
        BY <3>1
      <4> QED BY <1>3, <4>1
    <3> QED BY <1>3, <3>1, <3>2, <3>3, <3>4 DEF Link
  <2> QED BY <1>2, <2>1, <2>2
<1>9. Cuts(g, starred, text, 0)
  BY <1>2, <1>5, <1>7, <1>8 DEF Cuts
<1> QED BY <1>6, <1>9 DEF Fits

\* What a pattern allows it denies: MatchAssumption holds of the matcher, for commands
\* without a star.
THEOREM AllowedIsDenied ==
  ASSUME NEW Chars, NEW pattern \in Seq(Chars), NEW target,
         target.is = "Shell" => target.command \in Seq(Chars \ {"*", "end"}),
         matches(target, pattern, FALSE)
  PROVE  matches(target, pattern, TRUE)
<1>1. CASE target.is # "Shell"
  BY <1>1 DEF matches
<1>2. CASE target.is = "Shell"
  <2> DEFINE All == Chars \cup {"a", "*"}
             said == lower(pattern)
             allowed == said \o <<"*">>
             denied == <<"*">> \o said \o <<"*">>
             text == target.command
  <2>1. said \in Seq(All)
    <3>1. DOMAIN pattern = 1..Len(pattern) /\ Len(pattern) \in Nat /\ \A i \in DOMAIN pattern : pattern[i] \in Chars
      OBVIOUS
    <3>2. said \in [1..Len(pattern) -> All]
      BY <3>1 DEF lower
    <3> QED BY <3>1, <3>2
  <2> HIDE DEF said
  <2>2. allowed \in Seq(All) /\ denied \in Seq(All) /\ text \in Seq(All \ {"*", "end"})
    <3>1. <<"*">> \in Seq(All)
      OBVIOUS
    <3>2. text \in Seq(All \ {"*", "end"})
      BY <1>2
    <3> QED BY <2>1, <3>1, <3>2
  <2>3. /\ Len(denied) = Len(allowed) + 1 /\ denied[1] = "*"
        /\ \A i \in 1..Len(allowed) : denied[i + 1] = allowed[i]
    <3>1. Len(said) \in Nat /\ <<"*">> \in Seq(All) /\ <<"*">>[1] = "*" /\ Len(<<"*">>) = 1
      BY <2>1
    <3>2. denied = <<"*">> \o allowed
      BY <2>1, <3>1
    <3> HIDE DEF allowed, denied
    <3> QED BY <2>2, <3>1, <3>2
  <2>4. Matchable(allowed, text) /\ Matchable(denied, text)
    <3> HIDE DEF allowed, denied
    <3> QED BY <2>2 DEF Matchable
  <2>5. glob_match(allowed, text)
    <3>1. <<>> \o said \o <<"*">> = allowed
      BY <2>1
    <3> QED BY <1>2, <3>1 DEF matches, said
  <2>6. ASSUME NEW q \in {allowed, denied} PROVE glob_match(q, text) <=> Fits(q, text, 0, 0)
    <3> HIDE DEF allowed, denied
    <3>1. q \in Seq(All) /\ Matchable(q, text)
      BY <2>2, <2>4
    <3>2. glob_match(q, text) <=> Matches(q, text)
      BY <2>2, <3>1, MatcherCorrect
    <3> QED BY <3>1, <3>2, MatchesCuts DEF Matchable
  <2>7. glob_match(denied, text)
    <3> HIDE DEF allowed, denied
    <3> QED BY <2>3, <2>4, <2>5, <2>6, StarFirst
  <2> QED BY <1>2, <2>7 DEF matches, said
<1> QED BY <1>1, <1>2

-----------------------------------------------------------------------------
(* The chunks of a text, by themselves. *)

\* Sequences put end to end, when the ends are known.
Joins(f, seqs, S) ==
  /\ Len(seqs) \in Nat \ {0} /\ f \in [1..Len(seqs) -> Seq(S)] /\ f[1] = seqs[1]
  /\ \A i \in 2..Len(seqs) : f[i] = f[i - 1] \o seqs[i]

LEMMA FlattenIs ==
  ASSUME NEW S, NEW seqs, NEW f, Joins(f, seqs, S)
  PROVE  FlattenSeq(seqs) = f[Len(seqs)]
<1> DEFINE k == Len(seqs)
<1>0. /\ k \in Nat \ {0} /\ f \in [1..k -> Seq(S)] /\ f[1] = seqs[1]
      /\ \A i \in 2..k : f[i] = f[i - 1] \o seqs[i]
  BY DEF Joins
<1> HIDE DEF k
<1> DEFINE Flatten(g) == [i \in 1..k |-> IF i = 1 THEN seqs[i] ELSE g[i - 1] \o seqs[i]]
           flatten == CHOOSE g : g = Flatten(g)
<1>1. \A i \in 1..k : i # 1 => i \in 2..k
  BY <1>0
<1>2. f = Flatten(f)
  <2>1. \A i \in 1..k : f[i] = IF i = 1 THEN seqs[i] ELSE f[i - 1] \o seqs[i]
    BY <1>0, <1>1
  <2>2. f = [i \in 1..k |-> f[i]]
    BY <1>0
  <2> QED BY <1>0, <2>1, <2>2
<1>3. flatten = Flatten(flatten)
  BY <1>0, <1>2
<1>4. FlattenSeq(seqs) = flatten[k]
  <2>1. Len(seqs) # 0
    BY <1>0 DEF k
  <2> QED BY <1>0, <1>3, <2>1 DEF FlattenSeq, k
<1> HIDE DEF flatten
<1> DEFINE last == k - 1
           T == {i \in 0..last : flatten[i + 1] = f[i + 1]}
<1>5. 0 \in T
  <2>1. 1 \in 1..k /\ 0 + 1 = 1 /\ 0 \in 0..last
    BY <1>0
  <2>2. flatten[1] = seqs[1]
    BY <1>0, <1>3, <2>1
  <2> QED BY <1>0, <2>1, <2>2
<1>6. ASSUME NEW i \in 0..(last - 1), i \in T PROVE i + 1 \in T
  <2> DEFINE j == (i + 1) + 1
  <2>1. j \in 1..k /\ j # 1 /\ j \in 2..k /\ j - 1 = i + 1 /\ i + 1 \in 0..last
    BY <1>0
  <2>2. flatten[i + 1] = f[i + 1]
    BY <1>0, <1>6
  <2> HIDE DEF j
  <2>3. flatten[j] = flatten[j - 1] \o seqs[j]
    BY <1>0, <1>3, <2>1
  <2>4. f[j] = f[j - 1] \o seqs[j]
    BY <1>0, <2>1
  <2>5. flatten[j] = f[j]
    BY <1>0, <2>1, <2>2, <2>3, <2>4
  <2> QED BY <1>0, <2>1, <2>5 DEF j
<1>7. last \in T
  <2>1. last \in Nat
    BY <1>0
  <2> HIDE DEF T, last
  <2>2. 0..last \subseteq T
    BY <1>0, <1>5, <1>6, <2>1, IntervalFromZero
  <2> QED BY <1>0, <2>1, <2>2
<1>8. last + 1 = k
  BY <1>0
<1> QED BY <1>4, <1>7, <1>8 DEF k

\* The chunks from a word on, given those from later words.
Cutting(words, size, step, f) ==
  [start \in 0..Len(words) |->
     IF LastChunk(words, size, step, start) THEN <<Chunk(words, size, start)>>
     ELSE <<Chunk(words, size, start)>> \o f[start + step]]

LEMMA CuttingExists ==
  ASSUME NEW words, Len(words) \in Nat, NEW size \in Nat, NEW step \in 1..size
  PROVE  \E f : f = Cutting(words, size, step, f)
<1> DEFINE n == Len(words)
           C == {Chunk(words, size, start) : start \in 0..n}
           V == [0..n -> Seq(C)]
           steps == [i \in 1..(n + 2) |-> [f \in V |-> Cutting(words, size, step, f)]]
           nothing == [start \in 0..n |-> <<>>]
<1>1. ASSUME NEW start \in 0..n, ~LastChunk(words, size, step, start)
      PROVE  start + step \in (start + 1)..n
  BY <1>1 DEF LastChunk
<1>2. ASSUME NEW f \in V PROVE Cutting(words, size, step, f) \in V
  <2>1. ASSUME NEW start \in 0..n
        PROVE  (IF LastChunk(words, size, step, start) THEN <<Chunk(words, size, start)>>
                ELSE <<Chunk(words, size, start)>> \o f[start + step]) \in Seq(C)
    <3>1. <<Chunk(words, size, start)>> \in Seq(C)
      OBVIOUS
    <3>2. ASSUME ~LastChunk(words, size, step, start) PROVE f[start + step] \in Seq(C)
      <4>1. start + step \in 0..n
        BY <1>1, <3>2
      <4> QED BY <4>1
    <3> HIDE DEF C, V
    <3> QED BY <3>1, <3>2, ConcatProperties
  <2> HIDE DEF C
  <2> QED BY <2>1 DEF Cutting
<1>3. nothing \in V
  <2>1. <<>> \in Seq(C)
    OBVIOUS
  <2> HIDE DEF C
  <2> QED BY <2>1
<1>4. n + 2 \in Nat /\ steps \in [1..(n + 2) -> [V -> V]]
  <2> HIDE DEF V
  <2>1. n + 2 \in Nat /\ \A i \in 1..(n + 2) : [f \in V |-> Cutting(words, size, step, f)] \in [V -> V]
    BY <1>2
  <2> QED BY <2>1
<1>5. PICK run : IsRun(run, V, nothing, steps, n + 2)
  <2> HIDE DEF V, nothing, steps
  <2> QED BY <1>3, <1>4, RunExists
<1>6. /\ \A i \in 0..(n + 2) : run[i] \in V
      /\ \A i \in 1..(n + 2) : run[i] = Cutting(words, size, step, run[i - 1])
  <2> HIDE DEF V, nothing
  <2>1. run \in [0..(n + 2) -> V] /\ \A i \in 0..(n + 2) : run[i] = IF i = 0 THEN nothing ELSE steps[i][run[i - 1]]
    BY <1>5 DEF IsRun
  <2>2. ASSUME NEW i \in 1..(n + 2) PROVE run[i] = Cutting(words, size, step, run[i - 1])
    <3>1. i \in 0..(n + 2) /\ i # 0 /\ i - 1 \in 0..(n + 2)
      BY <1>4
    <3>2. run[i] = steps[i][run[i - 1]] /\ run[i - 1] \in V
      BY <2>1, <3>1
    <3> QED BY <3>2
  <2> QED BY <2>1, <2>2
<1> DEFINE T == {i \in 0..n : \A start \in (n - i)..n : run[i + 1][start] = run[i + 2][start]}
<1>7. ASSUME NEW i \in 1..(n + 2), NEW start \in 0..n
      PROVE  run[i][start] = IF LastChunk(words, size, step, start) THEN <<Chunk(words, size, start)>>
                             ELSE <<Chunk(words, size, start)>> \o run[i - 1][start + step]
  <2>1. run[i] = Cutting(words, size, step, run[i - 1])
    BY <1>6
  <2> QED BY <2>1 DEF Cutting
<1>8. 0 \in T
  <2>1. 0 \in 0..n /\ n \in 0..n /\ 0 + 1 \in 1..(n + 2) /\ 0 + 2 \in 1..(n + 2) /\ \A start \in (n - 0)..n : start = n
    OBVIOUS
  <2>2. LastChunk(words, size, step, n)
    BY DEF LastChunk
  <2>3. run[0 + 1][n] = run[0 + 2][n]
    BY <1>7, <2>1, <2>2
  <2> QED BY <2>1, <2>3
<1>9. ASSUME NEW i \in 0..(n - 1), i \in T PROVE i + 1 \in T
  <2> SUFFICES ASSUME NEW start \in (n - (i + 1))..n
               PROVE  run[(i + 1) + 1][start] = run[(i + 1) + 2][start]
    OBVIOUS
  <2>1. /\ start \in 0..n /\ (i + 1) + 1 \in 1..(n + 2) /\ (i + 1) + 2 \in 1..(n + 2)
        /\ ((i + 1) + 1) - 1 = i + 1 /\ ((i + 1) + 2) - 1 = i + 2
    OBVIOUS
  <2>2. ASSUME ~LastChunk(words, size, step, start)
        PROVE  run[i + 1][start + step] = run[i + 2][start + step]
    <3>1. start + step \in (n - i)..n
      BY <1>1, <2>1, <2>2
    <3> QED BY <1>9, <3>1
  <2>3. /\ run[(i + 1) + 1][start] = IF LastChunk(words, size, step, start) THEN <<Chunk(words, size, start)>>
                                     ELSE <<Chunk(words, size, start)>> \o run[i + 1][start + step]
        /\ run[(i + 1) + 2][start] = IF LastChunk(words, size, step, start) THEN <<Chunk(words, size, start)>>
                                     ELSE <<Chunk(words, size, start)>> \o run[i + 2][start + step]
    <3> HIDE DEF n, T
    <3>1. \A j \in 1..(n + 2) : run[j][start] = IF LastChunk(words, size, step, start) THEN <<Chunk(words, size, start)>>
                                                ELSE <<Chunk(words, size, start)>> \o run[j - 1][start + step]
      BY <1>7, <2>1
    <3> QED BY <2>1, <3>1
  <2> HIDE DEF n, T
  <2> QED BY <2>2, <2>3
<1>10. n \in T
  <2>1. n \in Nat
    OBVIOUS
  <2> HIDE DEF T, n
  <2>2. 0..n \subseteq T
    BY <1>8, <1>9, <2>1, IntervalFromZero
  <2> QED BY <2>1, <2>2
<1>11. run[n + 1] = run[n + 2]
  <2>1. \A start \in 0..n : run[n + 1][start] = run[n + 2][start]
    <3>1. n - n = 0
      OBVIOUS
    <3> QED BY <1>10, <3>1
  <2>2. n + 1 \in 0..(n + 2) /\ n + 2 \in 0..(n + 2)
    OBVIOUS
  <2>3. run[n + 1] \in V /\ run[n + 2] \in V
    BY <1>6, <2>2
  <2> QED BY <2>1, <2>3
<1>12. run[n + 1] = Cutting(words, size, step, run[n + 1])
  <2>1. n + 2 \in 1..(n + 2) /\ (n + 2) - 1 = n + 1
    OBVIOUS
  <2> QED BY <1>6, <1>11, <2>1
<1> QED BY <1>12

\* Where the chunks begin: each one a step after the one before, until one reaches
\* the last word.
Begins(chunks, at, words, size, step, start) ==
  /\ Len(chunks) \in Nat \ {0} /\ DOMAIN chunks = 1..Len(chunks) /\ at \in [1..Len(chunks) -> 0..Len(words)]
  /\ at[1] = start /\ LastChunk(words, size, step, at[Len(chunks)])
  /\ \A i \in 1..Len(chunks) : chunks[i] = Chunk(words, size, at[i])
  /\ \A i \in 2..Len(chunks) : at[i] = at[i - 1] + step /\ ~LastChunk(words, size, step, at[i - 1])

LEMMA OneMoreChunk ==
  ASSUME NEW words, Len(words) \in Nat, NEW size \in Nat, NEW step \in 1..size, NEW start \in 0..Len(words),
         ~LastChunk(words, size, step, start), NEW S, NEW chunks \in Seq(S), NEW at,
         Begins(chunks, at, words, size, step, start + step)
  PROVE  \E more : Begins(<<Chunk(words, size, start)>> \o chunks, more, words, size, step, start)
<1> DEFINE first == <<Chunk(words, size, start)>>
           all == first \o chunks
           k == Len(chunks)
           more == [i \in 1..(k + 1) |-> IF i = 1 THEN start ELSE at[i - 1]]
<1>1. /\ k \in Nat \ {0} /\ at \in [1..k -> 0..Len(words)]
      /\ at[1] = start + step /\ LastChunk(words, size, step, at[k])
      /\ \A i \in 1..k : chunks[i] = Chunk(words, size, at[i])
      /\ \A i \in 2..k : at[i] = at[i - 1] + step /\ ~LastChunk(words, size, step, at[i - 1])
  BY DEF Begins
<1>2. Len(all) = k + 1 /\ DOMAIN all = 1..(k + 1) /\ all[1] = Chunk(words, size, start)
      /\ \A i \in 1..k : all[i + 1] = chunks[i]
  <2> DEFINE R == S \cup {Chunk(words, size, start)}
  <2>1. first \in Seq(R) /\ Len(first) = 1 /\ first[1] = Chunk(words, size, start) /\ chunks \in Seq(R)
    OBVIOUS
  <2> HIDE DEF first, R
  <2>2. /\ all \in Seq(R) /\ Len(all) = 1 + k
        /\ \A i \in 1..(1 + k) : all[i] = IF i <= 1 THEN first[i] ELSE chunks[i - 1]
    <3>1. /\ first \o chunks \in Seq(R) /\ Len(first \o chunks) = Len(first) + Len(chunks)
          /\ \A i \in 1..Len(first) + Len(chunks) :
               (first \o chunks)[i] = IF i <= Len(first) THEN first[i] ELSE chunks[i - Len(first)]
      BY <2>1, ConcatProperties
    <3> QED BY <2>1, <3>1
  <2> HIDE DEF all
  <2>3. \A i \in 1..k : i + 1 \in 1..(1 + k) /\ ~(i + 1 <= 1) /\ (i + 1) - 1 = i
    BY <1>1
  <2>4. 1 \in 1..(1 + k)
    BY <1>1
  <2> QED BY <1>1, <2>1, <2>2, <2>3, <2>4
<1> HIDE DEF all
<1>3. \A i \in 2..(k + 1) : i - 1 \in 1..k /\ i \in 1..(k + 1) /\ i # 1
  BY <1>1
<1>4. more \in [1..(k + 1) -> 0..Len(words)]
  <2>1. \A i \in 1..(k + 1) : i = 1 \/ i - 1 \in 1..k
    BY <1>1
  <2> QED BY <1>1, <2>1
<1>5. more[1] = start /\ \A i \in 2..(k + 1) : more[i] = at[i - 1]
  BY <1>1, <1>3
<1> HIDE DEF more
<1>6. more[k + 1] = at[k]
  <2>1. k + 1 \in 2..(k + 1) /\ (k + 1) - 1 = k
    BY <1>1
  <2> QED BY <1>5, <2>1
<1>7. ASSUME NEW i \in 1..(k + 1) PROVE all[i] = Chunk(words, size, more[i])
  <2>1. CASE i = 1
    BY <1>2, <1>5, <2>1
  <2>2. CASE i # 1
    <3>1. i \in 2..(k + 1) /\ i - 1 \in 1..k /\ (i - 1) + 1 = i
      BY <1>1, <2>2
    <3>2. all[i] = chunks[i - 1]
      BY <1>2, <3>1
    <3> QED BY <1>1, <1>5, <3>1, <3>2
  <2> QED BY <2>1, <2>2
<1>8. ASSUME NEW i \in 2..(k + 1) PROVE more[i] = more[i - 1] + step /\ ~LastChunk(words, size, step, more[i - 1])
  <2>1. CASE i = 2
    <3>1. more[i] = start + step /\ more[i - 1] = start
      BY <1>1, <1>5, <2>1
    <3> QED BY <3>1
  <2>2. CASE i # 2
    <3>1. i - 1 \in 2..(k + 1) /\ i - 1 \in 2..k
      BY <1>1, <2>2
    <3>2. more[i] = at[i - 1] /\ more[i - 1] = at[(i - 1) - 1]
      BY <1>5, <3>1
    <3> QED BY <1>1, <3>1, <3>2
  <2> QED BY <2>1, <2>2
<1>9. Begins(all, more, words, size, step, start)
  BY <1>1, <1>2, <1>4, <1>5, <1>6, <1>7, <1>8 DEF Begins
<1> QED BY <1>9 DEF all

LEMMA CutsBegin ==
  ASSUME NEW words, Len(words) \in Nat, NEW size \in Nat, NEW step \in 1..size, NEW from,
         from = Cutting(words, size, step, from)
  PROVE  \E at : Begins(from[0], at, words, size, step, 0)
<1> DEFINE n == Len(words)
           S == {Chunk(words, size, start) : start \in 0..n}
           Right(start) == from[start] \in Seq(S) /\ \E at : Begins(from[start], at, words, size, step, start)
           T == {d \in 0..n : \A start \in (n - d)..n : Right(start)}
<1>1. ASSUME NEW start \in 0..n, LastChunk(words, size, step, start) PROVE Right(start)
  <2>1. from[start] = <<Chunk(words, size, start)>>
    BY <1>1 DEF Cutting
  <2> DEFINE at == [i \in 1..1 |-> start]
             chunks == <<Chunk(words, size, start)>>
  <2>2. Len(chunks) = 1 /\ DOMAIN chunks = 1..1 /\ chunks[1] = Chunk(words, size, start) /\ chunks \in Seq(S)
    OBVIOUS
  <2>3. at \in [1..1 -> 0..n] /\ at[1] = start /\ 2..1 = {} /\ \A i \in 1..1 : i = 1
    OBVIOUS
  <2> HIDE DEF at, chunks, S
  <2>4. Begins(chunks, at, words, size, step, start)
    BY <1>1, <2>2, <2>3 DEF Begins
  <2> QED BY <2>1, <2>2, <2>4 DEF chunks
<1>2. ASSUME NEW start \in 0..n, ~LastChunk(words, size, step, start), Right(start + step) PROVE Right(start)
  <2>1. from[start] = <<Chunk(words, size, start)>> \o from[start + step]
    BY <1>2 DEF Cutting
  <2>2. <<Chunk(words, size, start)>> \in Seq(S)
    OBVIOUS
  <2> HIDE DEF S
  <2>3. from[start] \in Seq(S)
    BY <1>2, <2>1, <2>2, ConcatProperties
  <2>4. \E more : Begins(from[start], more, words, size, step, start)
    BY <1>2, <2>1, OneMoreChunk
  <2> QED BY <2>3, <2>4
<1>3. ASSUME NEW start \in 0..n, ~LastChunk(words, size, step, start) PROVE start + step \in (start + 1)..n
  BY <1>3 DEF LastChunk
<1>4. LastChunk(words, size, step, n)
  BY DEF LastChunk
<1> HIDE DEF Right
<1>5. 0 \in T
  <2>1. n \in 0..n /\ 0 \in 0..n /\ \A start \in (n - 0)..n : start = n
    OBVIOUS
  <2> QED BY <1>1, <1>4, <2>1
<1>6. ASSUME NEW d \in 0..(n - 1), d \in T PROVE d + 1 \in T
  <2> SUFFICES ASSUME NEW start \in (n - (d + 1))..n PROVE Right(start)
    OBVIOUS
  <2>1. start \in 0..n
    OBVIOUS
  <2>2. CASE ~LastChunk(words, size, step, start)
    <3>1. start + step \in (n - d)..n
      BY <1>3, <2>1, <2>2
    <3>2. Right(start + step)
      BY <1>6, <3>1
    <3> QED BY <1>2, <2>1, <2>2, <3>2
  <2> QED BY <1>1, <2>1, <2>2
<1>7. n \in T
  <2>1. n \in Nat
    OBVIOUS
  <2> HIDE DEF T, n
  <2>2. 0..n \subseteq T
    BY <1>5, <1>6, <2>1, IntervalFromZero
  <2> QED BY <2>1, <2>2
<1>8. Right(0)
  <2>1. 0 \in (n - n)..n
    OBVIOUS
  <2> QED BY <1>7, <2>1
<1> QED BY <1>8 DEF Right

\* A piece of a piece of a text, and how long a piece is.
LEMMA PieceOfPiece ==
  ASSUME NEW W, NEW words \in Seq(W), NEW a \in 1..Len(words), NEW b \in 1..Len(words),
         NEW c \in 1..(b - a + 1), NEW d \in 1..(b - a + 1), NEW p, NEW q, p = a + c - 1, q = a + d - 1
  PROVE  SubSeq(SubSeq(words, a, b), c, d) = SubSeq(words, p, q)
  BY SubSeqOfSubSeq

LEMMA PieceLength ==
  ASSUME NEW W, NEW words \in Seq(W), NEW a \in Nat, NEW b \in 0..Len(words), a < b
  PROVE  SubSeq(words, a + 1, b) \in Seq(W) /\ Len(SubSeq(words, a + 1, b)) = b - a
         /\ SubSeq(words, a + 1, b) # <<>>
<1>1. \A j \in (a + 1)..b : words[j] \in W
  OBVIOUS
<1>2. a + 1 \in Int /\ b \in Int /\ a + 1 <= b /\ b - (a + 1) + 1 = b - a /\ b - a # 0
  OBVIOUS
<1>3. SubSeq(words, a + 1, b) \in Seq(W) /\ Len(SubSeq(words, a + 1, b)) = b - a
  BY <1>1, <1>2, SubSeqProperties
<1>4. Len(<<>>) = 0
  OBVIOUS
<1> QED BY <1>2, <1>3, <1>4

\* A chunk after another one, which ends at e: it shares words with it, and goes on.
Continues(words, size, shared, before, chunk, e, g) ==
  /\ SubSeq(chunk, shared + 1, Len(chunk)) = SubSeq(words, e + 1, g)
  /\ SubSeq(words, e + 1, g) # <<>>
  /\ SubSeq(chunk, 1, shared) = SubSeq(before, size - shared + 1, size)

LEMMA NextChunk ==
  ASSUME NEW W, NEW words \in Seq(W), NEW size \in Nat, NEW shared \in 0..(size - 1), NEW a \in Nat, NEW b \in Nat,
         NEW e \in Nat, NEW g \in 0..Len(words), e = a + size, e = b + shared, e < g
  PROVE  Continues(words, size, shared, SubSeq(words, a + 1, e), SubSeq(words, b + 1, g), e, g)
<1> DEFINE before == SubSeq(words, a + 1, e)
           chunk == SubSeq(words, b + 1, g)
           n == Len(words)
<1>1. /\ a + 1 \in 1..n /\ b + 1 \in 1..n /\ e \in 1..n /\ g \in 1..n /\ b < g /\ n \in Nat
      /\ e - (a + 1) + 1 = size /\ g - (b + 1) + 1 = g - b /\ shared < g - b /\ g - b \in Nat
  OBVIOUS
<1>2. Len(chunk) = g - b
  BY <1>1, PieceLength
<1>3. SubSeq(chunk, shared + 1, g - b) = SubSeq(words, e + 1, g)
  <2>1. shared + 1 \in 1..(g - (b + 1) + 1) /\ g - b \in 1..(g - (b + 1) + 1)
    BY <1>1
  <2>2. e + 1 = (b + 1) + (shared + 1) - 1 /\ g = (b + 1) + (g - b) - 1
    BY <1>1
  <2> QED BY <1>1, <2>1, <2>2, PieceOfPiece
<1>4. SubSeq(words, e + 1, g) # <<>>
  BY <1>1, PieceLength
<1>5. SubSeq(chunk, 1, shared) = SubSeq(before, size - shared + 1, size)
  <2>1. CASE shared = 0
    <3>1. SubSeq(chunk, 1, 0) = <<>>
      BY SubSeqEmpty
    <3>2. size + 1 \in Int /\ size \in Int /\ size < size + 1 /\ size - 0 + 1 = size + 1
      OBVIOUS
    <3>3. SubSeq(before, size + 1, size) = <<>>
      BY <3>2, SubSeqEmpty
    <3> QED BY <2>1, <3>1, <3>2, <3>3
  <2>2. CASE shared # 0
    <3>1. /\ 1 \in 1..(g - (b + 1) + 1) /\ shared \in 1..(g - (b + 1) + 1)
          /\ size - shared + 1 \in 1..(e - (a + 1) + 1) /\ size \in 1..(e - (a + 1) + 1)
      BY <1>1, <2>2
    <3>2. b + 1 = (b + 1) + 1 - 1 /\ e = (b + 1) + shared - 1
      OBVIOUS
    <3>3. SubSeq(chunk, 1, shared) = SubSeq(words, b + 1, e)
      BY <1>1, <3>1, <3>2, PieceOfPiece
    <3>4. b + 1 = (a + 1) + (size - shared + 1) - 1 /\ e = (a + 1) + size - 1
      OBVIOUS
    <3>5. SubSeq(before, size - shared + 1, size) = SubSeq(words, b + 1, e)
      BY <1>1, <3>1, <3>4, PieceOfPiece
    <3> QED BY <3>3, <3>5
  <2> QED BY <2>1, <2>2
<1> QED BY <1>2, <1>3, <1>4, <1>5 DEF Continues

\* However a text is cut, its chunks cover it (the cut in ChunksCover): the first begins
\* with the text, each other one where the one before would without the words they
\* share, and the last ends with it.
THEOREM ChunksCoverText ==
  ASSUME NEW W, NEW words \in Seq(W), NEW size \in Nat, NEW overlap \in Nat
  PROVE  Covers(chunk_text(words, size, overlap), words, size, overlap)
<1> DEFINE n == Len(words)
           chunks == chunk_text(words, size, overlap)
<1>1. n \in Nat /\ (words = <<>> <=> n = 0)
  OBVIOUS
<1>2. CASE words = <<>> \/ size = 0
  <2>1. chunks = <<>>
    BY <1>2 DEF chunk_text
  <2>2. DOMAIN chunks = {} /\ Len(chunks) = 0 /\ 2..Len(chunks) = {}
    BY <2>1
  <2> HIDE DEF chunks
  <2>3. FlattenSeq([i \in DOMAIN chunks |-> IF i = 1 THEN chunks[i] ELSE SubSeq(chunks[i], LeastOf(overlap, size - 1) + 1, Len(chunks[i]))]) = <<>>
    <3> DEFINE seqs == [i \in DOMAIN chunks |-> IF i = 1 THEN chunks[i] ELSE SubSeq(chunks[i], LeastOf(overlap, size - 1) + 1, Len(chunks[i]))]
    <3>1. seqs = <<>> /\ Len(seqs) = 0
      BY <2>2
    <3> HIDE DEF seqs
    <3>2. FlattenSeq(seqs) = seqs
      BY <3>1 DEF FlattenSeq
    <3> QED BY <3>1, <3>2 DEF seqs
  <2>4. Covers(chunks, words, size, overlap)
    BY <1>2, <2>1, <2>2, <2>3 DEF Covers
  <2> QED BY <2>4 DEF chunks
<1>3. CASE ~(words = <<>> \/ size = 0)
  <2> DEFINE shared == LeastOf(overlap, size - 1)
             step == size - shared
             from == CHOOSE f : f = Cutting(words, size, step, f)
  <2>1. size \in Nat \ {0} /\ n \in Nat \ {0}
    BY <1>1, <1>3
  <2>2. shared \in 0..(size - 1) /\ step \in 1..size
    BY <2>1 DEF LeastOf
  <2>3. chunks = from[0]
    BY <1>3 DEF chunk_text, Cutting
  <2> HIDE DEF shared
  <2>4. from = Cutting(words, size, step, from)
    BY <1>1, <2>2, CuttingExists
  <2> HIDE DEF from, chunks
  <2>5. PICK at : Begins(chunks, at, words, size, step, 0)
    BY <1>1, <2>2, <2>3, <2>4, CutsBegin
  <2> DEFINE k == Len(chunks)
             end(i) == LeastOf(at[i] + size, n)
             news(i) == IF i = 1 THEN chunks[i] ELSE SubSeq(chunks[i], shared + 1, Len(chunks[i]))
  <2>6. /\ k \in Nat \ {0} /\ DOMAIN chunks = 1..k /\ at \in [1..k -> 0..n] /\ at[1] = 0 /\ at[k] + size >= n
        /\ \A i \in 1..k : chunks[i] = SubSeq(words, at[i] + 1, end(i))
        /\ \A i \in 2..k : at[i] = at[i - 1] + step /\ ~(at[i - 1] + size >= n)
    BY <2>5 DEF Begins, Chunk, LastChunk
  <2> HIDE DEF k
  <2>7. ASSUME NEW i \in 1..k
        PROVE  /\ at[i] \in 0..n /\ end(i) \in (at[i] + 1)..n /\ end(i) <= at[i] + size
               /\ at[i] < n
    <3>1. at[i] \in 0..n
      BY <2>6
    <3>2. at[i] < n
      <4>1. CASE i = 1
        BY <2>1, <2>6, <4>1
      <4>2. CASE i \in 2..k
        <5>1. i - 1 \in 1..k /\ at[i] = at[i - 1] + step /\ ~(at[i - 1] + size >= n)
          BY <2>6, <4>2
        <5>2. at[i - 1] \in 0..n
          BY <2>6, <5>1
        <5> HIDE DEF step
        <5> QED BY <2>1, <2>2, <5>1, <5>2
      <4> QED BY <2>6, <4>1, <4>2
    <3> QED BY <2>1, <3>1, <3>2 DEF LeastOf
  <2>8. ASSUME NEW i \in 2..k
        PROVE  /\ i - 1 \in 1..k /\ i \in 1..k
               /\ end(i - 1) = at[i - 1] + size /\ end(i - 1) = at[i] + shared /\ end(i - 1) \in 0..(end(i) - 1)
    <3>1. i - 1 \in 1..k /\ i \in 1..k /\ at[i] = at[i - 1] + step /\ ~(at[i - 1] + size >= n)
      BY <2>6
    <3>2. at[i - 1] \in 0..n /\ at[i] \in 0..n
      BY <2>7, <3>1
    <3>3. end(i - 1) = at[i - 1] + size
      BY <2>1, <3>1, <3>2 DEF LeastOf
    <3>4. end(i - 1) = at[i] + shared
      BY <2>1, <2>2, <3>1, <3>2, <3>3
    <3>5. end(i - 1) < end(i)
      BY <2>1, <2>2, <3>1, <3>2, <3>3 DEF LeastOf
    <3> QED BY <2>1, <3>1, <3>2, <3>3, <3>4, <3>5, <2>7
  <2> HIDE DEF end
  <2>9. ASSUME NEW i \in 1..k
        PROVE  /\ chunks[i] = SubSeq(words, at[i] + 1, end(i)) /\ chunks[i] # <<>> /\ Len(chunks[i]) <= size
    <3>1. at[i] \in Nat /\ end(i) \in 0..n /\ at[i] < end(i) /\ end(i) - at[i] <= size
      BY <1>1, <2>1, <2>7
    <3>2. chunks[i] = SubSeq(words, at[i] + 1, end(i))
      BY <2>6
    <3> QED BY <3>1, <3>2, PieceLength
  <2>10. ASSUME NEW i \in 2..k
         PROVE  /\ news(i) = SubSeq(words, end(i - 1) + 1, end(i)) /\ news(i) # <<>>
                /\ SubSeq(chunks[i], 1, shared) = SubSeq(chunks[i - 1], size - shared + 1, size)
    <3>1. i \in 1..k /\ i - 1 \in 1..k /\ end(i - 1) = at[i - 1] + size /\ end(i - 1) = at[i] + shared
          /\ end(i - 1) \in 0..(end(i) - 1)
      BY <2>8
    <3>2. /\ at[i] \in Nat /\ at[i - 1] \in Nat /\ end(i) \in 0..n /\ end(i - 1) \in Nat /\ end(i - 1) < end(i)
          /\ size \in Nat /\ shared \in 0..(size - 1)
      <4>1. end(i) \in (at[i] + 1)..n /\ at[i] \in 0..n /\ at[i - 1] \in 0..n
        BY <2>7, <3>1
      <4> QED BY <1>1, <2>1, <2>2, <3>1, <4>1
    <3>3. /\ chunks[i] = SubSeq(words, at[i] + 1, end(i))
          /\ chunks[i - 1] = SubSeq(words, at[i - 1] + 1, end(i - 1))
      BY <2>9, <3>1
    <3>4. i # 1
      BY <2>6
    <3> HIDE DEF n
    <3>5. Continues(words, size, shared, chunks[i - 1], chunks[i], end(i - 1), end(i))
      BY <3>1, <3>2, <3>3, NextChunk DEF n
    <3> QED BY <3>4, <3>5 DEF Continues
  <2>11. news(1) # <<>> /\ news(1) = SubSeq(words, 1, end(1))
    <3>1. 1 \in 1..k /\ at[1] = 0 /\ 0 + 1 = 1
      BY <2>6
    <3>2. chunks[1] = SubSeq(words, at[1] + 1, end(1)) /\ chunks[1] # <<>>
      BY <2>9, <3>1
    <3> QED BY <3>1, <3>2
  <2>12. FlattenSeq([i \in DOMAIN chunks |-> news(i)]) = words
    <3> DEFINE seqs == [i \in DOMAIN chunks |-> news(i)]
               f == [i \in 1..k |-> SubSeq(words, 1, end(i))]
    <3>1. DOMAIN seqs = 1..k /\ Len(seqs) = k /\ \A i \in 1..k : seqs[i] = news(i)
      <4> HIDE DEF news
      <4> QED BY <2>6
    <3>2. \A i \in 1..k : f[i] = SubSeq(words, 1, end(i))
      OBVIOUS
    <3>3. f \in [1..k -> Seq(W)]
      <4>1. ASSUME NEW i \in 1..k PROVE SubSeq(words, 1, end(i)) \in Seq(W)
        <5>1. end(i) \in Int /\ \A j \in 1..end(i) : words[j] \in W
          BY <1>1, <2>7
        <5> QED BY <5>1, SubSeqProperties
      <4> QED BY <4>1
    <3> HIDE DEF seqs, f, news
    <3>4. 1 \in 1..k /\ f[1] = seqs[1]
      <4>1. 1 \in 1..k
        BY <2>6
      <4>2. seqs[1] = news(1)
        BY <3>1, <4>1
      <4>3. f[1] = SubSeq(words, 1, end(1))
        BY <3>2, <4>1
      <4>4. news(1) = SubSeq(words, 1, end(1))
        BY <2>11
      <4> QED BY <4>1, <4>2, <4>3, <4>4
    <3>5. ASSUME NEW i \in 2..k PROVE f[i] = f[i - 1] \o seqs[i]
      <4>1. i \in 1..k /\ i - 1 \in 1..k /\ seqs[i] = SubSeq(words, end(i - 1) + 1, end(i))
        BY <2>8, <2>10, <3>1
      <4>2. 1 \in 1..(n + 1) /\ end(i - 1) \in (1 - 1)..n /\ end(i) \in end(i - 1)..n
        <5>1. end(i) \in 0..n /\ end(i - 1) \in 0..(end(i) - 1)
          BY <1>1, <2>7, <2>8, <4>1
        <5> QED BY <1>1, <5>1
      <4>3. SubSeq(words, 1, end(i - 1)) \o SubSeq(words, end(i - 1) + 1, end(i)) = SubSeq(words, 1, end(i))
        BY <4>2, ConcatAdjacentSubSeq
      <4> QED BY <3>2, <4>1, <4>3
    <3>6. FlattenSeq(seqs) = f[k]
      <4>1. Joins(f, seqs, W)
        BY <2>6, <3>1, <3>3, <3>4, <3>5 DEF Joins
      <4> QED BY <3>1, <4>1, FlattenIs
    <3>7. f[k] = words
      <4>1. k \in 1..k /\ at[k] \in 0..n /\ at[k] + size >= n
        BY <2>6
      <4>2. end(k) = n
        BY <1>1, <2>1, <4>1 DEF end, LeastOf
      <4>3. SubSeq(words, 1, n) = words
        BY SubSeqFull
      <4> QED BY <3>2, <4>1, <4>2, <4>3
    <3> QED BY <3>6, <3>7 DEF seqs
  <2>13. chunks # <<>>
    <3>1. Len(chunks) # 0 /\ Len(<<>>) = 0
      BY <2>6 DEF k
    <3> QED BY <3>1
  <2>14. \A i \in DOMAIN chunks : Len(chunks[i]) <= size /\ news(i) # <<>>
    <3>1. \A i \in 1..k : i = 1 \/ i \in 2..k
      BY <2>6
    <3> HIDE DEF news
    <3> QED BY <2>6, <2>9, <2>10, <2>11, <3>1
  <2>15. \A i \in 2..Len(chunks) : SubSeq(chunks[i], 1, shared) = SubSeq(chunks[i - 1], size - shared + 1, size)
    BY <2>10 DEF k
  <2>16. Covers(chunks, words, size, overlap)
    BY <1>3, <2>12, <2>13, <2>14, <2>15 DEF Covers, shared
  <2> QED BY <2>16 DEF chunks
<1> QED BY <1>2, <1>3

=============================================================================
