SPECIFICATION WorldSpec
CONSTANTS
    StartPicks = {"builtin", "minimax", "platform", "vendor"}
    SetupPicks = {"raises", "builtin", "minimax", "platform", "vendor"}
    Renderers = {"python", "broken"}
    Blobs = {TRUE, FALSE}
    Plugins = {"p"}
    Crashes = FALSE
    HandEdited = FALSE
    MaxBoots = 3
    AppFile = "extended"
    Credentials = {{"MINIMAX_API_KEY", "MOLECULE_LLM_USAGE_TOKEN"}, {"OPENAI_API_KEY"}, {"CODEX_AUTH_JSON", "MINIMAX_API_KEY"}, {"MINIMAX_API_KEY", "VENDOR_API_KEY"}, {"OPENAI_API_KEY", "VENDOR_API_KEY"}}
    ModelIds = {"gpt", "minimax"}
    ResolvedNames = {""}
    EnvNames = {"", "openai", "minimax-token-plan", "platform", "vendor"}
    YamlNames = {""}
    WorkspaceFiles = {"none", "same"}
    OneModel = TRUE
INVARIANT OverrideMatches
INVARIANT SubscriptionKept
INVARIANT RoutesToCredential
INVARIANT ClaimedIsServed
CHECK_DEADLOCK FALSE
