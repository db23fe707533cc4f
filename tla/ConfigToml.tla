----------------------------- MODULE ConfigToml -----------------------------
(***************************************************************************)
(* ~/.codex/config.toml over the boots of a workspace: every program that  *)
(* rewrites part of the file on the persistent volume, in the order of     *)
(* start.sh and of the adapter's setup(), one action for each time that a  *)
(* program puts a new file in place, with a restart between any two.       *)
(*                                                                         *)
(* The file is a sequence of lines and a line is what its writers and its  *)
(* reader tell apart: a table header, a key, a comment that one of the     *)
(* scripts looks for, a blank line that a program adds at every boot.      *)
(* Lines that always come and go with their neighbours are left out, the   *)
(* keys of one table that are always written together are one line.        *)
(*                                                                         *)
(* X_Suffix is what a plausible bug would make of X; nothing uses it.      *)
(***************************************************************************)
EXTENDS Naturals, Sequences, FiniteSets, SequencesExt

CONSTANTS
    StartPicks, \* what render_provider_toml.py may pick in start.sh: "builtin", or the
                \* slug of a compatible provider
    SetupPicks, \* what the adapter may pick in setup(), "same" as start.sh, "raises", or
                \* "skips" if it cannot import provider_config
    Renderers,  \* what renders in start.sh: the python program, the legacy shell one,
                \* or a python program that exits non-zero ("broken")
    Blobs,      \* whether CODEX_AUTH_JSON is in the environment
    Plugins,    \* MCP-server plugins that setup() installs
    Crashes,    \* whether a boot may be cut short
    HandEdited, \* whether the volume starts with a file a person edited
    MaxBoots    \* bound: boots in a behaviour

ASSUME ConfigAssumption ==
    /\ {"same", "raises", "skips"} \cap StartPicks = {}
    /\ Renderers \subseteq {"python", "shell", "broken"}
    /\ Blobs \subseteq BOOLEAN
    /\ {Crashes, HandEdited} \subseteq BOOLEAN
    /\ MaxBoots \in Nat

VARIABLES
    toml,     \* the lines of config.toml
    pc,       \* the next step of the boot: off, render, the four of codex_mcp_config.sh
              \* (strip, append, sandbox, prepend), auth, login, setup, plugins, up, failed
    env,      \* what this boot finds in its environment
    todo,     \* plugins yet to install in this boot
    boots,    \* boots so far
    last      \* history: environment and outcome of the last complete boot

vars == <<toml, pc, env, todo, boots, last>>

-----------------------------------------------------------------------------
(* Lines.                                                                  *)

Line(kind)      == [kind |-> kind, of |-> "-"]
LineOf(kind, x) == [kind |-> kind, of |-> x]

ProviderBlock(slug) == <<Line("providerComment"), LineOf("modelProvider", slug),
                         LineOf("[provider]", slug), LineOf("providerKeys", slug)>>
ShellBlock(slug)    == <<Line("shellComment")>> \o Tail(ProviderBlock(slug))
SandboxBlock  == <<Line("sandboxComment"), Line("sandboxMode"), Line("approvalPolicy")>>
MoleculeBlock == <<Line("blank"), Line("moleculeComment"), Line("[molecule]"),
                   Line("moleculeKeys"), Line("[molecule.env]"), Line("moleculeEnv")>>
PluginBlock(x) == <<LineOf("begin", x), LineOf("[plugin]", x),
                    LineOf("pluginKeys", x), LineOf("end", x)>>
HandBlock     == <<Line("handKey"), Line("[sandbox_workspace_write]"), Line("networkAccess"),
                   Line("[hand]"), Line("handEntry")>>

Headers         == {"[provider]", "[molecule]", "[molecule.env]", "[plugin]",
                    "[sandbox_workspace_write]", "[hand]"}
MoleculeHeaders == {"[molecule]", "[molecule.env]"}
Keys            == {"modelProvider", "sandboxMode", "approvalPolicy", "handKey",
                    "authStore", "loginMethod"}

IsHeader(f, i) == f[i].kind \in Headers

\* The header whose table line i of f is in, 0 for the top level.
TableOf(f, i) ==
    LET above == {j \in 1 .. i : IsHeader(f, j)}
    IN  IF above = {} THEN 0 ELSE CHOOSE j \in above : \A k \in above : k <= j

Holds(f, kind)    == \E i \in DOMAIN f : f[i].kind = kind
TopLevel(f, kind) == \E i \in DOMAIN f : f[i].kind = kind /\ TableOf(f, i) = 0

\* The lines of f at positions S, in their order.
Lines(f, S) ==
    LET rank(i) == Cardinality({j \in S : j <= i})
    IN  [k \in 1 .. Cardinality(S) |-> f[CHOOSE i \in S : rank(i) = k]]

-----------------------------------------------------------------------------
(* The programs.                                                           *)

Rendered_KeepsOverride(f, pick) == IF pick = "builtin" THEN f ELSE ProviderBlock(pick)
Rendered_Unlinks(f, pick) == IF pick = "builtin" THEN <<>> ELSE ProviderBlock(pick)

\* write_config_toml(): a compatible provider's block replaces the file; for a
\* built-in one the file goes if its first line is the renderer's own comment.
Rendered(f, pick) ==
    IF pick # "builtin" THEN ProviderBlock(pick)
    ELSE IF f # <<>> /\ f[1].kind = "providerComment" THEN <<>> ELSE f

\* codex_minimax_config.sh: nothing at all beside a subscription.
ShellRendered(f, pick, blob) ==
    IF pick # "builtin" /\ ~blob THEN ShellBlock(pick) ELSE f

\* start.sh: a python program that failed is only warned about, the shell one
\* runs when there is no python program to run.
StartRendered(f, e) ==
    CASE e.renderer = "python" -> Rendered(f, e.start)
      [] e.renderer = "shell"  -> ShellRendered(f, e.start, e.blob)
      [] OTHER                 -> f

InMolecule(f, i) ==
    TableOf(f, i) # 0 /\ f[TableOf(f, i)].kind \in MoleculeHeaders

\* The first awk program buffers both kinds of its own comment and forgets
\* the buffer at a molecule header, or prints it with the next line it prints.
Buffered(f, i) == f[i].kind \in {"moleculeComment", "sandboxComment"}
Forgotten(f, i) ==
    \E j \in i + 1 .. Len(f) :
        /\ f[j].kind \in MoleculeHeaders
        /\ \A k \in i + 1 .. j - 1 : Buffered(f, k) \/ InMolecule(f, k)

MoleculeStripped_Not(f) == f

MoleculeStripped(f) ==
    Lines(f, {i \in DOMAIN f : IF Buffered(f, i) THEN ~Forgotten(f, i)
                               ELSE ~InMolecule(f, i)})

SandboxStripped_KeysOnly(f) ==
    SelectSeq(f, LAMBDA l : l.kind \notin {"sandboxMode", "sandboxComment"})

\* The second one drops the sandbox keys wherever they are, and the table.
SandboxStripped(f) ==
    LET dropped == {"sandboxComment", "sandboxMode", "approvalPolicy"}
        InTable(i) == TableOf(f, i) # 0
                      /\ f[TableOf(f, i)].kind = "[sandbox_workspace_write]"
    IN  Lines(f, {i \in DOMAIN f : f[i].kind \notin dropped /\ ~InTable(i)})

\* start.sh, when it has written auth.json: one of the keys Codex needs to find it.
AuthKeyAdded(f, kind) ==
    IF env.blob /\ ~Holds(f, kind) THEN Append(f, Line(kind)) ELSE f

First(f, kind, x) ==
    CHOOSE i \in DOMAIN f : f[i] = LineOf(kind, x)
                            /\ \A j \in 1 .. i - 1 : f[j] # LineOf(kind, x)

\* The block between the first begin marker and the first end marker after it,
\* without one everything from the begin marker on, and the blank lines around it.
BlockStripped(f, x) ==
    LET b == First(f, "begin", x)
        ends == {i \in b + 1 .. Len(f) : f[i] = LineOf("end", x)}
        e == IF ends = {} THEN Len(f) ELSE CHOOSE i \in ends : \A j \in ends : i <= j
        Blank(i, j) == \A k \in i .. j : f[k].kind = "blank"
        kept == {i \in 1 .. b - 1 : ~Blank(i, b - 1)}
                    \cup {i \in e + 1 .. Len(f) : ~Blank(e + 1, i)}
    IN  Lines(f, kept)

\* _render_codex_config().
PluginRendered(f, x) ==
    (IF Contains(f, LineOf("begin", x)) /\ Contains(f, LineOf("end", x))
     THEN BlockStripped(f, x) ELSE f) \o PluginBlock(x)

-----------------------------------------------------------------------------
(* A boot.                                                                 *)

Envs == [start : StartPicks, setup : SetupPicks, renderer : Renderers, blob : Blobs]
Picked(e) == IF e.setup = "same" THEN e.start ELSE e.setup

NoBoot == [env |-> {}, toml |-> <<>>]

Init ==
    /\ toml = IF HandEdited THEN HandBlock ELSE <<>>
    /\ pc = "off"
    /\ env \in Envs
    /\ todo = {}
    /\ boots = 0
    /\ last = NoBoot

Boot ==
    /\ pc = "off" /\ boots < MaxBoots
    /\ boots' = boots + 1
    /\ env' \in Envs
    /\ pc' = "render"
    /\ UNCHANGED <<toml, todo, last>>

\* The file and the place in the boot move on together.
Step(from, to, f) ==
    /\ pc = from /\ pc' = to
    /\ toml' = f
    /\ UNCHANGED <<env, boots>>

RenderProvider ==
    /\ Step("render", "strip", StartRendered(toml, env))
    /\ UNCHANGED <<todo, last>>

\* The four rewrites of codex_mcp_config.sh.
StripMolecule ==
    /\ Step("strip", "append", MoleculeStripped(toml))
    /\ UNCHANGED <<todo, last>>

AppendMolecule ==
    /\ Step("append", "sandbox", toml \o MoleculeBlock)
    /\ UNCHANGED <<todo, last>>

StripSandbox ==
    /\ Step("sandbox", "prepend", SandboxStripped(toml))
    /\ UNCHANGED <<todo, last>>

PrependSandbox ==
    /\ Step("prepend", "auth", SandboxBlock \o toml)
    /\ UNCHANGED <<todo, last>>

AuthStoreKey ==
    /\ Step("auth", "login", AuthKeyAdded(toml, "authStore"))
    /\ UNCHANGED <<todo, last>>

LoginMethodKey ==
    /\ Step("login", "setup", AuthKeyAdded(toml, "loginMethod"))
    /\ UNCHANGED <<todo, last>>

Setup ==
    /\ env.setup \notin {"raises", "skips"}
    /\ Step("setup", "plugins", Rendered(toml, Picked(env)))
    /\ todo' = Plugins
    /\ UNCHANGED last

\* No credential, a provider name for a model, an unknown provider.
SetupRaises ==
    /\ env.setup = "raises"
    /\ Step("setup", "failed", toml)
    /\ UNCHANGED <<todo, last>>

\* provider_config cannot be imported: setup() returns, with no plugin installed.
SetupSkips ==
    /\ env.setup = "skips"
    /\ Step("setup", "plugins", toml)
    /\ UNCHANGED <<todo, last>>

RegisterMcpServer(x) ==
    /\ x \in todo
    /\ Step("plugins", "plugins", PluginRendered(toml, x))
    /\ todo' = todo \ {x}
    /\ UNCHANGED last

Ready ==
    /\ pc = "plugins" /\ todo = {}
    /\ pc' = "up"
    /\ last' = [env |-> {env}, toml |-> toml]
    /\ UNCHANGED <<toml, env, todo, boots>>

Restart ==
    /\ pc \in {"up", "failed"} \/ (Crashes /\ pc # "off")
    /\ boots < MaxBoots
    /\ pc' = "off"
    /\ todo' = {}
    /\ UNCHANGED <<toml, env, boots, last>>

\* The steps that do not choose an environment.
BootStep ==
    \/ RenderProvider
    \/ StripMolecule \/ AppendMolecule \/ StripSandbox \/ PrependSandbox
    \/ LoginMethodKey \/ Setup \/ SetupRaises \/ SetupSkips
    \/ \E x \in Plugins : RegisterMcpServer(x)
    \/ Ready \/ Restart

Next == Boot \/ AuthStoreKey \/ BootStep

Spec == Init /\ [][Next]_vars

-----------------------------------------------------------------------------
(* Properties.                                                             *)

\* TOML: no table is defined twice, and no key twice in one table.
Parses ==
    \A i, j \in DOMAIN toml : i < j =>
        /\ IsHeader(toml, i) => toml[i] # toml[j]
        /\ toml[i].kind \in Keys /\ toml[i].kind = toml[j].kind =>
               TableOf(toml, i) # TableOf(toml, j)

Running == pc = "up"

\* The CLI runs without its inner sandbox, whatever a hand-edited file said:
\* the two keys are top-level keys of the file it reads, and nothing of the old
\* sandbox table is left; and the molecule server is wired in that file.
RuntimeReady ==
    Running =>
        /\ TopLevel(toml, "sandboxMode") /\ TopLevel(toml, "approvalPolicy")
        /\ ~Holds(toml, "[sandbox_workspace_write]")
        /\ Holds(toml, "[molecule]") /\ Holds(toml, "[molecule.env]")

\* The provider override in the file is the one of the provider that setup()
\* picked, and there is none for a built-in one: write_config_toml() leaves no
\* stale override behind.
OverrideMatches ==
    Running => {toml[i].of : i \in {j \in DOMAIN toml : toml[j].kind = "modelProvider"}}
                   = {Picked(env)} \ {"builtin"}

\* The lines of f that are not blank.
Text(f) == Lines(f, {i \in DOMAIN f : f[i].kind # "blank"})

\* Booting again in the same environment reproduces the file but for blank lines,
\* even over the remains of a boot that was cut short between any two rewrites.
RebootIsIdempotent ==
    \A e \in last.env :
        pc = "plugins" /\ todo = {} /\ env = e => Text(toml) = Text(last.toml)

\* What a person wrote survives the boots of a built-in provider, in order and
\* in its tables.
HandEditsKept ==
    HandEdited =>
        \E i, j \in DOMAIN toml :
            /\ toml[i].kind = "handKey" /\ TableOf(toml, i) = 0
            /\ toml[j].kind = "handEntry"
            /\ TableOf(toml, j) # 0 /\ toml[TableOf(toml, j)].kind = "[hand]"

-----------------------------------------------------------------------------
(* Claims that the programs do not keep, with some of the constants.       *)

\* A python renderer that fails is made up for by the legacy shell one, which
\* writes the provider a compatible workspace needs (warning of start.sh).
FallsBack ==
    pc = "strip" /\ env.start # "builtin" /\ ~env.blob => Holds(toml, "modelProvider")

\* codex_mcp_config.sh may be run over its own result (comment at its head).
RebootAddsNothing ==
    \A e \in last.env : pc = "plugins" /\ todo = {} /\ env = e => toml = last.toml

\* The molecule server that codex_mcp_config.sh wires is there when the workspace
\* runs, whatever ran after it (start.sh, on its order).
MoleculeWired == Running => Holds(toml, "[molecule]")

\* With a subscription the CLI is told to read file-backed credentials: the
\* keys start.sh appends are top-level keys.
AuthKeysEffective ==
    Running /\ env.blob => TopLevel(toml, "authStore") /\ TopLevel(toml, "loginMethod")
=============================================================================
