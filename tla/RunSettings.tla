---------------------------- MODULE RunSettings ----------------------------
(***************************************************************************)
(* From the settings of a run to the engines it calls: config.py, the      *)
(* flags of cli.py, the client pool of engines.py and the clients          *)
(* run_pipeline takes from it.                                             *)
(*                                                                         *)
(* The file, the environment and the flags are functions from the names    *)
(* they set to values.  A model id is abstracted to the provider in whose  *)
(* catalogue it is found.                                                  *)
(***************************************************************************)
CONSTANT Unset  \* None, or a name that is not there

Providers == {"openrouter", "local", "claude_code", "experiential", "opencode_go"}
HttpProviders == {"openrouter", "local", "experiential"}

\* "own" is an address of the user's, "given" any other value.
ASSUME UnsetAssumption == Unset \notin Providers \cup {"own", "given"}

Get(data, key) == IF key \in DOMAIN data THEN data[key] ELSE Unset
OrElse(a, b) == IF a = Unset THEN b ELSE a
Without(data, key) == [k \in DOMAIN data \ {key} |-> data[k]]
With(data, key, value) == [k \in DOMAIN data \cup {key} |-> IF k = key THEN value ELSE data[k]]

\* What the upper layer sets counts, then what the lower one does.
Over(upper, lower) ==
  [k \in DOMAIN upper \cup DOMAIN lower |-> IF k \in DOMAIN upper THEN upper[k] ELSE lower[k]]

\* A local server has no default of its own and is asked for OpenRouter's.
DefaultModelFor(provider) == IF provider = "local" THEN "openrouter" ELSE provider

-----------------------------------------------------------------------------
(* Building the configuration                                              *)

\* _build_overrides: --base-url goes to the setting of the --provider flag.
UrlKey(provider) ==
  CASE provider = "local"        -> "local_base_url"
    [] provider = "experiential" -> "experiential_base_url"
    [] OTHER                     -> "openrouter_base_url"

Overrides(flags) ==
  LET kept == Without(flags, "base_url")
  IN  IF "base_url" \notin DOMAIN flags THEN kept
      ELSE With(kept, UrlKey(OrElse(Get(flags, "provider"), "openrouter")), flags["base_url"])

Defaults ==
  [provider |-> "claude_code", openrouter_base_url |-> "openrouter",
   local_base_url |-> "local", experiential_base_url |-> "experiential"]

\* Mutant of Merged: the file's model outlives the switch of provider.
MergedKeeping(file, env, flags) ==
  LET data == Over(Overrides(flags), Over(env, file))
  IN  IF "model" \in DOMAIN data THEN data
      ELSE With(data, "model", DefaultModelFor(OrElse(Get(data, "provider"), "claude_code")))

\* build_config's data: file, below environment, below flags.
Merged(file, env, flags) ==
  LET all      == Over(Overrides(flags), Over(env, file))
      switched == "provider" \in DOMAIN flags /\ "model" \notin DOMAIN flags
      data     == IF switched THEN Without(all, "model") ELSE all
  IN  IF "model" \in DOMAIN data THEN data
      ELSE With(data, "model", DefaultModelFor(OrElse(Get(data, "provider"), "claude_code")))

BuildConfig(file, env, flags) == Over(Merged(file, env, flags), Defaults)

\* What the validators and build_config refuse.  Only the main provider's key
\* is asked for.
Refused(config) ==
  \/ \E k \in {"provider", "fallback_provider", "complex_provider", "review_provider"} :
        Get(config, k) \notin Providers \cup {Unset}
  \/ config.provider = "openrouter" /\ Get(config, "openrouter_api_key") = Unset
  \/ config.provider = "experiential" /\ Get(config, "experiential_api_key") = Unset
  \/ Get(config, "user_agent") = Unset /\ Get(config, "wikimedia_contact") = Unset

UserAgent(config) == OrElse(Get(config, "user_agent"), Get(config, "wikimedia_contact"))

-----------------------------------------------------------------------------
(* Tiers and clients                                                       *)

ResolveComplexProvider(config) == OrElse(Get(config, "complex_provider"), config.provider)
ResolveReviewModel(config) == OrElse(Get(config, "review_model"), Get(config, "complex_model"))
ResolveReviewProvider(config) ==
  OrElse(Get(config, "review_provider"), ResolveComplexProvider(config))

\* resolve_llm_endpoint
Endpoint(config) ==
  CASE config.provider = "local" ->
         [url |-> config.local_base_url, key |-> OrElse(Get(config, "local_api_key"), "local"),
          model |-> OrElse(Get(config, "local_model"), config.model)]
    [] config.provider = "experiential" ->
         [url |-> config.experiential_base_url, key |-> Get(config, "experiential_api_key"),
          model |-> OrElse(Get(config, "experiential_model"), config.model)]
    [] OTHER ->
         [url |-> config.openrouter_base_url, key |-> Get(config, "openrouter_api_key"),
          model |-> config.model]

\* build_llm_client: the client, which for a command-line engine has no
\* endpoint, and the model it is to be asked for.
BuildClient(config) ==
  IF config.provider \in HttpProviders
  THEN [client |-> [provider |-> config.provider, url |-> Endpoint(config).url,
                    key |-> Endpoint(config).key, agent |-> UserAgent(config)],
        model |-> Endpoint(config).model]
  ELSE [client |-> [provider |-> config.provider], model |-> config.model]

Needed(config) ==
  {config.provider}
    \cup (IF Get(config, "complex_model") # Unset THEN {ResolveComplexProvider(config)} ELSE {})
    \cup (IF ResolveReviewModel(config) # Unset THEN {ResolveReviewProvider(config)} ELSE {})

\* build_client_pool: one client per provider, and the configuration with the
\* model the main one is to be asked for.
Pool(config) == [p \in Needed(config) |-> BuildClient([config EXCEPT !.provider = p]).client]
Effective(config) == [config EXCEPT !.model = BuildClient(config).model]

\* The provider and model of the calls of each tier run_pipeline has.
Tiers(config) ==
  LET effective == Effective(config)
  IN  {[tier |-> "draft", provider |-> config.provider, model |-> effective.model]}
        \cup {t \in {[tier |-> "complex", provider |-> ResolveComplexProvider(effective),
                      model |-> Get(effective, "complex_model")],
                     [tier |-> "review", provider |-> ResolveReviewProvider(effective),
                      model |-> ResolveReviewModel(effective)]} : t.model # Unset}

\* ensure_fallback_engine's target, Unset when there is nothing to switch to,
\* and the configuration after the switch.
FallbackTarget(config) ==
  LET target == OrElse(Get(config, "fallback_provider"),
                       IF config.provider = "claude_code" THEN "opencode_go" ELSE "claude_code")
  IN  IF target = config.provider THEN Unset ELSE target

Switched(config) ==
  Effective([config EXCEPT !.provider = FallbackTarget(config),
                           !.model = DefaultModelFor(FallbackTarget(config))])

-----------------------------------------------------------------------------
(* What is expected of them                                                *)

\* A local server takes any name.
Fits(provider, model) == provider = "local" \/ model = provider

\* Each layer names a model only for the provider that is chosen in it, or
\* below it.
NamedForOwn(file, flags) ==
  LET below == OrElse(Get(file, "provider"), Defaults.provider)
  IN  /\ "model" \in DOMAIN file => Fits(below, file["model"])
      /\ "model" \in DOMAIN flags => Fits(OrElse(Get(flags, "provider"), below), flags["model"])

\* The main tier is asked for a model its provider has, also after a switch
\* on the command line or for want of credits; the pool has a client for every
\* tier and no other; each client talks to its own provider.
TiersAreServed(file, env, flags) ==
  LET config == BuildConfig(file, env, flags)
  IN  ~Refused(config) =>
        /\ NamedForOwn(file, flags) =>
             \A t \in Tiers(config) : t.tier = "draft" => Fits(t.provider, t.model)
        /\ DOMAIN Pool(config) = {t.provider : t \in Tiers(config)}
        /\ \A p \in DOMAIN Pool(config) : p \in HttpProviders => Pool(config)[p].url \in {p, "own"}
        /\ FallbackTarget(config) # Unset =>
             Fits(FallbackTarget(config), Switched(config).model)
=============================================================================
