----------------------------- MODULE Providers -----------------------------
(***************************************************************************)
(* The provider registry of provider_config.py: which file it comes from,  *)
(* which entry a workspace gets, and what config.toml says for that entry. *)
(*                                                                         *)
(* A registry is a function from positions to entries                      *)
(*                                                                         *)
(*   name, slug  compared in lower case, the slug as config.toml shows it  *)
(*   mode        "sub", "api" (built into the CLI) or "compat"             *)
(*   models      the model ids its prefixes and aliases match              *)
(*   env         its credential variables, auth_env                        *)
(*   url         whether it has a base_url                                 *)
(*   ok          whether _normalize_provider() accepts it                  *)
(*                                                                         *)
(* and creds is the set of credential variables that are not empty.        *)
(*                                                                         *)
(* X_Suffix is what a plausible bug would make of X; nothing uses it.      *)
(***************************************************************************)
EXTENDS Naturals, Sequences

None == ""              \* an unset variable, an empty field

BuiltinEnv == {"CODEX_AUTH_JSON", "OPENAI_API_KEY"}

Entry(name, slug, mode, models, env) ==
    [name |-> name, slug |-> slug, mode |-> mode, models |-> models, env |-> env,
     url |-> mode = "compat", ok |-> TRUE]

Builtins ==
    << Entry("openai-subscription", None, "sub", {"gpt"}, {"CODEX_AUTH_JSON"}),
       Entry("openai-api", None, "api", {"gpt"}, {"OPENAI_API_KEY"}) >>

\* The config.yaml of the repository.
Shipped ==
    Builtins \o
    << Entry("minimax-token-plan", "minimax", "compat", {"minimax"}, {"MINIMAX_API_KEY"}),
       Entry("platform", "platform", "compat", {}, {"MOLECULE_LLM_USAGE_TOKEN"}) >>

Least(S) == CHOOSE k \in S : \A j \in S : k <= j

\* The entries of a list that are accepted, where they stand.
Accepted(list) == [k \in {j \in DOMAIN list : list[j].ok} |-> list[k]]

\* load_providers() over its candidate files, <<>> for one that is missing,
\* unreadable or without a list: the first list decides, even when none of its
\* entries is usable.
LoadProviders(files) ==
    LET lists == {i \in DOMAIN files : files[i] # <<>>}
        valid == IF lists = {} THEN <<>> ELSE Accepted(files[Least(lists)])
    IN  IF DOMAIN valid = {} THEN Builtins ELSE valid

-----------------------------------------------------------------------------
(* Resolution, by sets of positions.                                       *)

Named(reg, name)     == {k \in DOMAIN reg : reg[k].name = name}
OfMode(reg, mode)    == {k \in DOMAIN reg : reg[k].mode = mode}
Satisfied(reg, creds) == {k \in DOMAIN reg : reg[k].env \cap creds # {}}
Matching(reg, model) == {k \in DOMAIN reg : model # None /\ model \in reg[k].models}

NoEntry == [name |-> None]      \* ValueError

\* The first entry of the first set that is not empty.
FirstOf(reg, choices) ==
    LET live == {i \in DOMAIN choices : choices[i] # {}}
    IN  IF live = {} THEN NoEntry ELSE reg[Least(choices[Least(live)])]

\* A name that is no entry's is an error, except for the canonical openai.
ByName(reg, name, creds) ==
    FirstOf(reg, << Named(reg, name),
                    IF name = "openai" THEN OfMode(reg, "sub") \cap Satisfied(reg, creds)
                                       ELSE {},
                    IF name = "openai" THEN OfMode(reg, "api") ELSE {} >>)

Detected_ModelFirst(reg, model, creds) ==
    FirstOf(reg, << Matching(reg, model) \cap Satisfied(reg, creds), Matching(reg, model),
                    OfMode(reg, "sub") \cap Satisfied(reg, creds),
                    Satisfied(reg, creds), DOMAIN reg >>)
Detected_AnyMatch(reg, model, creds) ==
    FirstOf(reg, << OfMode(reg, "sub") \cap Satisfied(reg, creds),
                    Matching(reg, model), Satisfied(reg, creds), DOMAIN reg >>)

Detected(reg, model, creds) ==
    FirstOf(reg, << OfMode(reg, "sub") \cap Satisfied(reg, creds),
                    Matching(reg, model) \cap Satisfied(reg, creds),
                    Matching(reg, model),
                    Satisfied(reg, creds),
                    DOMAIN reg >>)

\* resolve_provider().
Resolve(reg, model, explicit, creds) ==
    IF explicit = None THEN Detected(reg, model, creds) ELSE ByName(reg, explicit, creds)

\* assert_model_is_not_provider_name().
IsProviderName(reg, model) == model # None /\ Named(reg, model) # {}

\* render_config_toml(): the slug of the override, "builtin" for none; a
\* compatible entry needs a URL and a variable of its own.
Override(e) ==
    CASE e = NoEntry -> "raises"
      [] e # NoEntry /\ e.mode # "compat" -> "builtin"
      [] OTHER -> IF e.url /\ e.env \ BuiltinEnv # {} THEN e.slug ELSE "raises"

-----------------------------------------------------------------------------
(* What the precedence rules promise.                                      *)

\* How good entry e is for a workspace that names no provider, 1 the best.
Class(e, model, creds) ==
    LET paid == e.env \cap creds # {}
        fits == model # None /\ model \in e.models
    IN  CASE e.mode = "sub" /\ paid -> 1
          [] ~(e.mode = "sub" /\ paid) /\ fits /\ paid -> 2
          [] fits /\ ~paid -> 3
          [] e.mode # "sub" /\ ~fits /\ paid -> 4
          [] OTHER -> 5

\* Entry k is the one for the workspace: no entry is better, none as good
\* stands before it.
Best(reg, k, model, creds) ==
    \A j \in DOMAIN reg :
        LET ck == Class(reg[k], model, creds)
            cj == Class(reg[j], model, creds)
        IN  ck < cj \/ (ck = cj /\ k <= j)
=============================================================================
