------------------------- MODULE RegistryProjection -------------------------
(***************************************************************************)
(* The gate of internal/providers/registry_projection.py: a change passes  *)
(* CI only if every (provider, model) pair that the synced registry lists  *)
(* for the runtime is one the template's config.yaml can serve.            *)
(*                                                                         *)
(* A manifest is a function from the runtimes it lists to sets of pairs.   *)
(* The gate reads the entries of config.yaml as they stand, also those     *)
(* that load_providers() would drop; none of them has aliases.             *)
(***************************************************************************)
EXTENDS Providers

\* project_runtime(): what the registry says of a runtime, in_registry and pairs.
ProjectRuntime(manifest, runtime) ==
    [listed |-> runtime \in DOMAIN manifest,
     pairs  |-> IF runtime \in DOMAIN manifest THEN manifest[runtime] ELSE {}]

\* _prefix_only_servable().  A name that is no entry's may stand for any entry
\* that matches; platform has no prefixes and is routed by its name.
Servable_AnyEntry(reg, provider, model) ==
    provider = "platform" \/ Matching(reg, model) # {}

Servable(reg, provider, model) ==
    LET own == Named(reg, provider)
    IN  IF own = {} THEN Matching(reg, model) # {}
        ELSE provider = "platform" \/ own \cap Matching(reg, model) # {}

\* check_subset() for this runtime: it is open for one the registry omits.
CheckSubset(projection, reg) ==
    projection.listed =>
        \A pair \in projection.pairs : Servable(reg, pair[1], pair[2])
=============================================================================
