--------------------------- MODULE ConfigProviders ---------------------------
(***************************************************************************)
(* Provider resolution composed with the programs that write config.toml:  *)
(* each boot runs in a world of credentials, provider names, model ids and *)
(* registry files, render_provider_toml.py resolves in start.sh, and the   *)
(* adapter resolves once more in setup(), from other variables and other   *)
(* files, over the config.toml that earlier boots left on the volume.      *)
(***************************************************************************)
EXTENDS ConfigToml, RegistryProjection

CONSTANTS
    AppFile,        \* the registry in the image's config.yaml
    Credentials,    \* sets of credential variables a world may hold
    ModelIds,       \* model ids, None when unset
    ResolvedNames,  \* MOLECULE_RESOLVED_PROVIDER, or else LLM_PROVIDER
    EnvNames,       \* MODEL_PROVIDER, which may hold a leaked model id
    YamlNames,      \* runtime_config.provider
    WorkspaceFiles, \* the registry of /configs/config.yaml: none, the shipped one, own
    OneModel        \* whether MODEL and runtime_config.model are always the same

VARIABLES
    world,          \* what this boot finds in its environment and its files
    authJson        \* whether auth.json is on the volume

allVars == <<vars, world, authJson>>

\* A vendor that serves gpt models: an entry appended as config.yaml invites to,
\* to the image's registry or to the workspace's own.
Vendor   == Entry("vendor", "vendor", "compat", {"gpt"}, {"VENDOR_API_KEY"})
Extended == Append(Shipped, Vendor)

\* The same, misspelt so that load_providers() drops it.
Misspelt == Append(Shipped, [Vendor EXCEPT !.ok = FALSE])

ASSUME WorldAssumption == AppFile \in {"shipped", "extended", "misspelt"}
ImageFile ==
    CASE AppFile = "shipped" -> Shipped [] AppFile = "extended" -> Extended
      [] AppFile = "misspelt" -> Misspelt

Worlds ==
    {w \in [creds : Credentials, resolved : ResolvedNames, named : EnvNames,
            envModel : ModelIds, model : ModelIds, provider : YamlNames,
            files : WorkspaceFiles] :
        OneModel => w.envModel = w.model}

WorkspaceFile(w) ==
    CASE w.files = "none" -> <<>> [] w.files = "same" -> ImageFile [] w.files = "own" -> <<Vendor>>

\* The renderer is installed in /usr/local/bin, without a config.yaml beside it:
\* the first registry it finds is the workspace's.
StartRegistry(w) == LoadProviders(<<WorkspaceFile(w)>>)
\* The adapter is in /app, beside the image's config.yaml.
SetupRegistry(w) == LoadProviders(<<ImageFile, WorkspaceFile(w)>>)

\* main() of render_provider_toml.py: any name in MODEL_PROVIDER is explicit.
StartPick(w) == Override(Resolve(StartRegistry(w), w.envModel, w.named, w.creds))

\* setup(): a name in the environment is explicit only if it is an entry's.
ExplicitName(w) ==
    LET n == IF w.resolved # None THEN w.resolved ELSE w.named
    IN  IF n # None /\ Named(SetupRegistry(w), n) # {} THEN n ELSE w.provider

\* The credential preflight of setup().
Preflight(w, auth) == auth \/ {"OPENAI_API_KEY", "MINIMAX_API_KEY"} \cap w.creds # {}

SetupEntry(w) == Resolve(SetupRegistry(w), w.model, ExplicitName(w), w.creds)

SetupPick(w, auth) ==
    IF Preflight(w, auth) /\ ~IsProviderName(SetupRegistry(w), w.model)
    THEN Override(SetupEntry(w)) ELSE "raises"

HasBlob(w) == "CODEX_AUTH_JSON" \in w.creds

\* What the two programs make of a world, as ConfigToml sees a boot.
View(w, auth) ==
    LET start == StartPick(w)
    IN  [start    |-> IF start = "raises" THEN "builtin" ELSE start,
         renderer |-> IF start = "raises" THEN "broken" ELSE "python",
         setup    |-> SetupPick(w, auth \/ HasBlob(w)),
         blob     |-> HasBlob(w)]

WorldInit ==
    /\ Init
    /\ world \in Worlds
    /\ authJson = FALSE
    /\ env = View(world, FALSE)

BootIn ==
    /\ world' \in Worlds
    /\ env' = View(world', authJson)
    /\ Boot
    /\ UNCHANGED authJson

\* start.sh writes auth.json and then its keys of config.toml, the first one here.
MaterialiseAuth ==
    /\ AuthStoreKey
    /\ authJson' = (authJson \/ env.blob)
    /\ UNCHANGED world

WorldNext ==
    \/ BootIn \/ MaterialiseAuth
    \/ BootStep /\ UNCHANGED <<world, authJson>>

WorldSpec == WorldInit /\ [][WorldNext]_allVars

-----------------------------------------------------------------------------
(* Properties.                                                             *)

\* The override that config.toml holds, "builtin" if none.
FileSays ==
    LET slugs == {toml[i].of : i \in {j \in DOMAIN toml : toml[j].kind = "modelProvider"}}
    IN  IF slugs = {} THEN "builtin" ELSE CHOOSE s \in slugs : TRUE

NoNameGiven == <<world.resolved, world.named, world.provider>> = <<None, None, None>>

\* A workspace with a subscription that names no provider uses it, whatever
\* vendor keys it holds beside it and whatever provider the boot before it left
\* in the file, if that boot was a complete one.
SubscriptionKept == Running /\ NoNameGiven /\ HasBlob(world) => FileSays = "builtin"

Usable(slug) ==
    IF slug = "builtin" THEN BuiltinEnv \cap world.creds # {}
    ELSE \E k \in DOMAIN SetupRegistry(world) :
             /\ SetupRegistry(world)[k].slug = slug
             /\ SetupRegistry(world)[k].env \cap world.creds # {}

\* What the CLI reads routes to a provider the workspace has a credential for, if
\* it named none and some entry for its model has one.
RoutesToCredential ==
    Running /\ NoNameGiven
    /\ Matching(SetupRegistry(world), world.model)
           \cap Satisfied(SetupRegistry(world), world.creds) # {}
    => Usable(FileSays)

\* The projection gate would let the registry claim this workspace's pair of
\* provider name and model for codex.
Claimed ==
    CheckSubset(ProjectRuntime([codex |-> {<<world.named, world.model>>}], "codex"),
                ImageFile)

\* config.toml routes to entry k of the image's config.yaml, for its model.
Serves(k) ==
    /\ FileSays = Override(ImageFile[k])
    /\ ImageFile[k].name = "platform" \/ world.model \in ImageFile[k].models

\* What the gate lets the registry claim of an entry of config.yaml is served: a
\* workspace that names the entry and a claimed model runs on that entry.
ClaimedIsServed ==
    Running /\ Claimed /\ Named(ImageFile, world.named) # {} =>
        \E k \in Named(ImageFile, world.named) : Serves(k)

-----------------------------------------------------------------------------
(* Claims that the programs do not keep, with some of the constants.       *)

\* An entry in the workspace's own file is honoured when it is named (docstring
\* of load_providers(), message of resolve_provider()).
WorkspaceEntryHonoured ==
    Running /\ world.files = "own" /\ world.named = "vendor" /\ world.resolved = None =>
        Picked(env) = "vendor"

\* A claimed pair whose provider is no entry's name is served by an entry that
\* matches the model (comment in _prefix_only_servable()).
UnlistedIsServed ==
    Running /\ Claimed /\ world.named # None /\ Named(ImageFile, world.named) = {}
    /\ Matching(ImageFile, world.model) \cap Satisfied(ImageFile, world.creds) # {}
    => \E k \in Matching(ImageFile, world.model) : Serves(k)

\* The platform arm is picked by name only (comment on it in config.yaml).
PlatformOnlyByName == Running /\ NoNameGiven => Picked(env) # "platform"
=============================================================================
