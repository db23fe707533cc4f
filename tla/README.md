# Codex workspace template: a TLA+ model

Specifications, model checks and proofs for the Codex workspace template: the
container that runs a persistent `codex app-server` child behind an A2A runtime.
All paths are relative to the repository; `src/` is its root.

## The system

`src/start.sh` boots the container: it renders `~/.codex/config.toml`, writes
`auth.json`, launches two credential watchdogs and executes the Molecule runtime.
The runtime loads `src/adapter.py`, whose `setup()` resolves the model provider,
renders `config.toml` once more and creates the executor. For each A2A message
the runtime calls `CodexAppServerExecutor.execute()` (`src/executor.py`), which
drives one long-lived `codex app-server` child over the JSON-RPC channel of
`src/app_server.py`.

| Part | State it keeps | Operations | What makes it hard |
|---|---|---|---|
| JSON-RPC channel, `AppServerProcess` | `_pending` futures, `_reader_exc`, `_closed`, `_write_lock`, subscribers, inbound handlers | `request`, `notify`, `subscribe`, `set_inbound_request_handler`, `close`; tasks `_read_loop`, `_watch_child`, `_run_inbound_handler` | three tasks and any number of callers interleave at every `await`; child death seen by two tasks; back-pressure; late and duplicate answers |
| Turn executor, `CodexAppServerExecutor` | `_app_server`, `_thread_id`, `_current_turn_id`, `_turn_lock`, `_loaded_mcp_tools`, `_TurnState` | `execute`, `cancel`, `shutdown`, `_ensure_thread`, `_run_turn`, `_reset_app_server` | fields read before an `await` and used after it; steering into a turn that ends meanwhile; reset under other callers |
| Turn watchdog, `_await_turn_completion` | the loop's clocks | one tick | bounds that combine tick, window, lag of the event loop |
| MCP inventory, `extract_loaded_mcp_tools` | `_loaded_mcp_tools`, server processes | `_ensure_loaded_mcp_tools`, `_list_tools_from_mcp_server`, `_recv_mcp_response` | servers that hang, chatter or die; cancellation with a process running; partial results cached for ever |
| Notification callback of `_run_turn` | `_TurnState`, agent-log rows, the published tools | `on_notification` | two event schemas; chunks, whole messages and the turn's end repeat one another |
| Credential: seed, re-sync, refresh | `auth.json` on the volume, the environment's seed | `start.sh` mode C, `codex_auth_sync.sh`, `codex_auth_refresh.sh` | single-use refresh tokens, several writers and rotators (the CLI among them), failing calls, restarts |
| `config.toml` | one file, rewritten by five programs | `render_provider_toml.py`, `codex_minimax_config.sh`, `codex_mcp_config.sh`, `start.sh`, `adapter.setup()` and its plugin hook | each program recognises its own lines by comments and headers the others move; boots cut short; environments that change |
| Provider registry and resolution, `provider_config.py` | none (pure) | `load_providers`, `resolve_provider`, `render_config_toml` | overlapping prefixes and credentials; called twice a boot, from two places with other inputs |
| Registry projection, `registry_projection.py` | none (CI) | `project_runtime`, `check_subset` | it promises for `setup()` without running it |
| CI gates, requirement pinning, askpass | none (CI or build time) | | |

Components interact as follows. The executor awaits channel requests and gets
turn notifications through the callback it subscribed; a failing or timed-out
turn makes it close the channel under whoever else is using it. `start.sh` and
the adapter communicate through files only. The child, the OAuth server, the
platform and its central refresher are outside the repository and are
environment actions, as is the refresh that the CLI makes on its own; all are marked
external in `PROJECT.json`.

## The modules

| Module | Models | Notes |
|---|---|---|
| `AppServer` | `app_server.py` | one action per stretch of code between two suspensions |
| `MCAppServer` | | symmetry of the callers for TLC |
| `OneShotRpc` | what `request()` promises | abstract: no pipe, future, lock, task or timer |
| `AppServerProofs` | | theorems about `AppServer`: types, requests, the child's requests, `close()` |
| `AppServerRefinement` | | `AppServer` implements `OneShotRpc` |
| `Executor` | `executor.py` over the channel's contract | messages are numbered; a turn and a child carry the number of the message that started them |
| `ExecutorProofs` | | theorems about `Executor` |
| `TurnWatchdog` | `_await_turn_completion` | discrete time |
| `TurnWatchdogProofs` | | theorems about `TurnWatchdog` |
| `TurnEvents` | `on_notification`, the MCP inventory, the publishing of tools | two turns; a text is a sequence of chunks |
| `TurnEventsProofs` | | theorems about `TurnEvents` |
| `AuthSync` | `start.sh` mode C, `codex_auth_sync.sh`, `codex_auth_refresh.sh` | a credential is its generation |
| `AuthSyncProofs` | | theorems about `AuthSync` |
| `ConfigToml` | everything that writes `config.toml` | the file is a sequence of abstract lines; what is picked is free |
| `ConfigTomlProofs` | | theorems about `ConfigToml` |
| `Providers` | `provider_config.py` | pure operators |
| `RegistryProjection` | `registry_projection.py` for this runtime | pure operators |
| `ConfigProviders` | the two resolutions of a boot, over `ConfigToml` | what is picked is computed from the world the boot finds |
| `ConfigProvidersProofs` | | theorems about `Providers` and `ConfigProviders` |

Definitions named `X_Suffix` are what a plausible bug would make of the definition
`X` that follows them; no specification uses them. Each property of a passing run
names in `PROJECT.json` one such form that violates it.

### AppServer

asyncio runs one coroutine at a time and switches only where an `await` really
suspends. An uncontended `asyncio.Lock` and a `drain()` below the high-water mark
do not suspend, so `Request` is the code of `request()` up to the first place
where it may: the fail-fast guards, the id, the future in `_pending`, and either
the lock queue, `drain()`, or the wait for the future. `Resume`, `Timeout` and
`CallerCancelled` are the three ways out of the wait and contain the `finally`
that pops the future. The reader takes one line per action
(`DispatchResponse`, `DispatchNotification`, `DispatchInbound`, `SkipLine`), or
ends (`ReaderRaises`, `ReaderEOF`); `WatcherReaps` is `_watch_child`; `MarkDead`
is shared by both. `Close`, `CloseFlushed`, `CloseKills` and `CloseReturns` are
the stretches of `close()`. The pipe is a queue of lines; it holds `PipeCap` of
them before `drain()` suspends, and `PipeCap = 0` makes every write suspend until
the child has read it. The queue itself grows without limit in the code, also under
many notifications; `StdinBound` is the bound that `Notify` puts on it. `initialize()`
is a request and a notification and appears in `Executor`. stderr forwarding only logs.

`OneShotRpc` says what a caller may rely on: a call that is opened ends once, with
the first answer the peer gave to it or without one, with a `ConnectionError` only
when the channel is gone, and a channel that is gone opens no call. The refinement
mapping of `ImplementsRpc` takes a call to be open from the allocation of its id to
its outcome, and the channel to be gone once a request would fail fast or stdin is
lost.

### Executor

The child is what `AppServer` promises of it: requests are answered in order, time
out, or raise `ConnectionError` once the channel is gone. It may refuse any
`thread/start`, `turn/start` and `turn/steer` that does not suit it. `TurnFails` ends in
the middle of `_reset_app_server()`, at its `close()`; `Closed` is the rest. What the
child may do beyond the plain protocol is named in the constant `Quirks`, and a
timer may expire at any time when `slow` is among them, else only when the answer
can no longer come. A child that `hangs` reads and writes nothing any more. Two
waits under `_turn_lock` have no timer (`Waits`): for a line to be written, and for
stdin to close in `close()`, which waits for it before it arms the SIGKILL
timer. Beside a hung child they may last for ever, so no fairness ends them; a pipe
with room left lets them return, so they may. `noId` lets `thread/start` and `turn/start`
be answered without an id: the first is an error, the second a turn that cannot be
steered. `cancel()` and `shutdown()` take no lock and are actions of
their own. Contents of prompts and replies are left out: a reply is the set of
turns whose notifications built it (`seen`), a turn the set of messages it was
given (`inputs`). The inventory is one Boolean here. Cancellation of the task that
runs `execute()` itself is not modelled here.

### TurnEvents

What `Executor` leaves out of one turn, turn after turn. `TurnBegins` reads the
cache; without one, the servers of `config.toml` are asked one after the other:
`Spawns`, the two waits of `_recv_mcp_response()` (`Takes`, `Deadline`,
`EndOfFile`), and the `finally` block in two steps, `Ends` (kill) and `Reaped`
(wait, with its two seconds). A server writes answers, errors, requests with ids of
its own, other lines and lines beyond the reader's limit, exits when it likes, and
may survive its kill for as long as the wait. `Cancelled` is `CancelledError` at any
of these `await`s. `Delta`, `Whole`, `CallStarts`, `CallEnds`, `TurnCompleted` and
`Error` are branches of `on_notification()`, in the schema the CLI speaks in that
turn; the external actions `Speaks` and `StreamedOnly` are the agent's. The last
event of a turn may repeat its last message, or be the only one to tell it
(`Completed`). `TurnEnds` is the `finally` block of `_run_turn()`. The order of servers does not matter, as
the result is sorted.

### TurnWatchdog

One turn, time in units of any length. A timer of the event loop is served at its
deadline or up to `Lag` later. The counter `activity` matters only through
whether it moved since the last tick.

### AuthSync

A credential is the number of its generation. The OAuth server honours the refresh
token of an account's latest one, and each rotation makes the next. An owner box
(`CODEX_AUTH_REFRESH_OWNER=1`) has an account of its own, all other workspaces
share one that the platform rotates and saves in two steps. A refresh is a
decision, a POST and a write, and the container may stop between them. In every
workspace the CLI refreshes on demand as well (`CliPosts`, `CliWrites`), and
`start.sh` counts on it. The volume is new or holds a credential from an earlier
container or login. Any workspace, an owner box too, may be started with a seed, which
`start.sh` writes as it is: one that does not parse is `Garbage`, and so may be what the
platform answers. The status sidecar is output only. An owner box on the
platform's own account would be a second rotator of it, which
`src/codex_auth_refresh.sh:315-321` rules out; it is left out.

### ConfigToml

A line is what its writers and its reader tell apart. Each program is an operator
from file to file, and a boot applies them in the order of `start.sh` and `setup()`: one
action for each time that a program puts a new file in place. So the four rewrites of
`codex_mcp_config.sh` are `StripMolecule`, `AppendMolecule`, `StripSandbox` and
`PrependSandbox`, the two keys of mode C `AuthStoreKey` and `LoginMethodKey`, and a
boot may be cut short between any two. One such write is taken to be whole, although
`write_text()` and the appends of the shell could be cut short in the middle of it.
The two awk programs of `codex_mcp_config.sh` are `MoleculeStripped` and
`SandboxStripped`; the comment buffer of the first, which a molecule header
discards, is `Forgotten`. The blank line that the script puts before its block is a line
of the model, as nothing but a plugin's strip ever takes it away: the file grows by
one at each boot. `setup()` may refuse (`SetupRaises`), which ends the boot with what
`start.sh` has written, or go on without `provider_config` (`SetupSkips`).

### Providers, RegistryProjection and ConfigProviders

A registry is a sequence of entries; the model ids that an entry's prefixes and
aliases match are a set. `LoadProviders` is the choice of the file and the dropping
of entries that `_normalize_provider()` refuses, `Resolve` the precedence of
`resolve_provider()` as the first non-empty of a list of sets, `Override` what
`render_config_toml()` writes or raises.

In `ConfigProviders` each boot starts in a world: credentials, the provider names in
the environment and in the config, the model ids, the workspace's own registry file.
`StartPick` is what `render_provider_toml.py` makes of it, over the registry it finds
from `/usr/local/bin`, and `SetupPick` what `adapter.setup()` makes of it, over the
image's registry, with its preflight and its own rule for the explicit name. `View`
hands both to `ConfigToml`, whose actions do the rest, so that the file of the
earlier boots meets the pick of this one. `RegistryProjection` is the gate that
decides in CI which pairs of provider and model the registry may list for codex;
`ClaimedIsServed` compares what it lets pass with what a workspace then gets.

## The runs

Passing runs (sizes are distinct states):

| Run | Bounds | Shows |
|---|---|---|
| `AppServerSafety` (1.1 million) | 2 callers, 2 requests, 3 lines of the child: answers, errors and lines that end the reader; a pipe that is always full | the channel implements `OneShotRpc`; no orphaned, leaked or doubly settled request |
| `AppServerLive` (211 thousand) | 1 caller, 1 request or notification, 1 subscriber, 1 inbound request, 1 line, a child that may hang | waits for responses end, also against a hung child; calls, inbound replies and `close()` end unless the child hangs; at most one reply to an inbound request; a closed channel is silent |
| `ExecutorTurns` (537 thousand) | 3 messages, 2 notifications in flight; slow or dying child, refused steers, `cancel()` | turns stay apart, messages are processed once, targets are current, resets are complete |
| `ExecutorLive` (280 thousand) | 2 messages, 1 notification in flight; a child that is slow, dies, hangs, refuses its handshake, answers without an id or cannot start; `shutdown()` | every `execute()` ends, unless one waits for ever to write to a hung child or to close its stdin |
| `TurnWatchdog` (2434) | tick 2, window 5, budget 12, lag 1, 18 units | no false wedge; silence and budget noticed in time |
| `TurnEvents` (386 thousand) | 2 turns, up to 2 servers, 1 tool each, 2 unread lines, 1 message of up to 2 chunks, 1 call | no server process is left running; every message is whole in the reply, also one that only the turn's end tells; one row per call; only live tools are published; the enumeration ends |
| `AuthSync` (181 thousand) | an owner box and a sharing, keyed workspace, 2 generations, 2 boots each | no spent refresh token is presented but by a CLI or after a rotation was lost; nothing goes backwards between boots unless a CLI rotated; boots end; the shared credential arrives |
| `ConfigBuiltin` (13 thousand) | 3 boots, any renderer, `setup()` may refuse or skip, cut short between any two rewrites, over a hand-edited file | the file parses, the sandbox is off and the molecule server wired, edits survive, reboots reproduce the file but for blank lines |
| `ConfigSwitch` (45 thousand) | 3 complete boots, each in any of 5 sets of credentials, 2 models, 5 names; the repository's registry with a vendor appended; one plugin | no stale provider override; a subscription is kept; requests go where there is a credential; what the gate lets pass is served |

Why the bounds are enough. Two callers are the least with which the write lock is
contended, ids can be confused and an answer can reach a caller that has already
started its next request; three lines are a response, another to the same id, and
whatever kills the reader. Three messages are a running turn, one that steers into it or
queues behind it, and one that overtakes or follows; two are enough for liveness,
where the only coupling between messages is the lock. The watchdog's horizon spans
three inactivity windows and the total budget with ticks that divide neither. Two
generations are a spent refresh token and its successor; a sharing workspace and the
platform are two rotators of one account, as are an owner box and its CLI. (With
`Keyed = {w1, w2}`, `MaxGen = 3` the same safety properties hold in 10.4 million states.)
Three boots are the one that writes, the one that finds what
was written, and the one that finds what the second made of it. Two chunks are the
least that a whole message differs from, two lines the least that can be out of
order, two turns the least that can inherit; the two servers are there for a
partial result. The credentials of `ConfigSwitch` hold each entry's own, alone and
beside another's. What the bounds cannot show for the channel, the watchdog, the
credentials, the precedence, `config.toml` and the executor's turns is proved for all
constants.

`CHECK_DEADLOCK FALSE` is set everywhere because each of these systems ends: the
channel is closed, the messages, turns or boots of the bound are used up, the turn
is over.

Violation runs: what the source says of itself and does not keep.

| Run | Claim | What happens |
|---|---|---|
| `ExecutorLostSteer` | a failed `turn/steer` falls through and is still processed (`src/executor.py:695-701`) | the reset of a timed-out turn closes the channel under it; `ConnectionError` is not caught |
| `ConfigDuplicate` | plugin blocks are installed idempotently (`src/adapter.py:122-127`) | the next boot's molecule strip swallows the begin marker; the table is appended twice |
| `ReplyDoubled` | a streaming turn does not double the text (`src/executor.py:881-882`) | the whole text is compared with the single chunks; streamed in two, it is said twice |

More such claims are stated in the modules, at their end. None has a run of its
own; TLC violates each within seconds under the constants given, with the other
constants as in the module's passing run.

| Module, claim | Said at | Constants | What happens |
|---|---|---|---|
| `AppServer`, `DeadReleasesCallers` | `src/app_server.py:49-51`, never a silent infinite wait | as `AppServerLive` | a request parked in `drain()` behind a child that stopped reading stays there |
| `AppServer`, `closed ~> closePc = "returned"` | `src/app_server.py:71-73`, bounded exit, then SIGKILL | `MayHang = TRUE` (as `AppServerLive`) | `stdin.wait_closed()` has no timer |
| `Executor`, `ArrivalOrder` | `src/executor.py:14-17`, arrival order | `N = 3, MaxNotes = 1, Quirks = {}` | a steered message overtakes queued ones |
| `Executor`, `OwnTurnOnly` | `_TurnState`, one turn's state | `N = 2, MaxNotes = 2, Quirks = {"dualEnd"}` | a second report of a turn's end completes the next turn |
| `Executor`, `InitBeforeUse` | `src/app_server.py:187`, initialize first | `N = 2, MaxNotes = 1, Quirks = {"initRejected"}` | the child is cached before its handshake; the next message skips it |
| `Executor`, `ShutdownStopsChild` | `src/executor.py:782` | `N = 1, Quirks = {"shutdown"}` | a child still being started is missed |
| `Executor`, `HungChildIsReplaced` | `src/executor.py:719-724`, the next message spawns a fresh child | as `ExecutorLive` | `close()` of a hung child does not return, and `_turn_lock` stays taken |
| `TurnWatchdog`, `CompletionWins` | `src/executor.py:1060` | as `TurnWatchdog` | a completion in the instant of the last tick is reported as a timeout |
| `AuthSync`, `StartsCurrent` | `src/start.sh:291-299` | as `AuthSync` | the boot's GET fails and boot goes on |
| `AuthSync`, `KeepsRefreshedFile` | `src/start.sh:233-236` | the same | each boot rewrites `auth.json` from the environment |
| `AuthSync`, `SharedTokenLasts` | `src/start.sh:281-290`, no more concurrent refreshes of the shared token | as `AuthSync` | the CLI still refreshes on its own (`src/start.sh:370`) and makes the platform's copy stale |
| `TurnEvents`, `FailedServerIsAskedAgain` | `src/executor.py:587-592`, a failing server is retried next turn | `Configs = {{"s1", "s2"}}` | the other server's tools make the result non-empty, which is cached |
| `TurnEvents`, `CalledIsPublished` | `src/executor.py:141-145`, tools invoked this turn | as `TurnEvents` | in the older schema a call is logged but not recorded |
| `TurnEvents`, `RequestsAreDropped` | `src/executor.py:336`, drops unsolicited requests | as `TurnEvents` | a server's request with the awaited id is taken for the answer |
| `ConfigToml`, `RebootAddsNothing` | `src/codex_mcp_config.sh:31-33`, idempotent | as `ConfigBuiltin` | each boot adds the blank line of line 162 |
| `ConfigToml`, `AuthKeysEffective` | `src/start.sh:255-257` | as `ConfigBuiltin`, 1 boot | the keys land in the molecule server's `env` table |
| `ConfigToml`, `FallsBack` | `src/start.sh:181` | `StartPicks = {"minimax"}`, `SetupPicks = {"same"}`, `Renderers = {"broken"}`, 1 boot | the helper is skipped, as `PROVIDER_RENDER` stays set |
| `ConfigToml`, `MoleculeWired` | `src/start.sh:201-206` | `StartPicks = {"minimax"}`, `SetupPicks = {"same"}`, 1 boot | `setup()` overwrites the file for a compatible provider, after `start.sh` added to it |
| `ConfigProviders`, `OverrideMatches` | `src/provider_config.py:577-579`, no stale override | as `ConfigSwitch` with `Crashes = TRUE` | under a sandbox comment the renderer does not know its file again |
| `ConfigProviders`, `OverrideMatches` | the same | as `ConfigSwitch`, one at a time: `ResolvedNames = {"", "openai-api"}`; `EnvNames` with `"gpt"`; `Credentials` with `{}`; `WorkspaceFiles = {"own"}`; `OneModel = FALSE` | `start.sh` writes what its own resolution picks; the adapter, which reads other variables and another registry or refuses, does not know the file below the molecule block as its own |
| `ConfigProviders`, `WorkspaceEntryHonoured` | `src/provider_config.py:268-269`, the workspace's file | `AppFile = "shipped"`, `WorkspaceFiles = {"own"}` | the image's file is a list and ends the search |
| `ConfigProviders`, `PlatformOnlyByName` | `src/config.yaml:113-118`, selected by name only | `Credentials = {{"CODEX_AUTH_JSON"}, {"MOLECULE_LLM_USAGE_TOKEN"}}`, `ModelIds` with `""` | with no match the first entry with a credential is picked |
| `ConfigProviders`, `UnlistedIsServed` | `src/internal/providers/registry_projection.py:160-161` | as `ConfigSwitch` | a name of no entry is refused, or means the OpenAI modes only |
| `ConfigProviders`, `ClaimedIsServed` | `src/internal/providers/registry_projection.py:247`, every pair can be served | `AppFile = "misspelt"` | the gate reads entries that `load_providers()` drops |

## Fairness

- `AppServer`: weak fairness of each coroutine that can run, of the reader, the
  watcher and the steps of `close()`, because the event loop runs every ready task
  and every timer fires; of the child only that it goes on reading its stdin
  unless it hangs. No fairness makes the child answer or exit, callers call, or
  anyone close.
- `Executor`: weak fairness of each `execute()`, but for the two waits that have no
  timer (`Waits`): there nothing obliges a hung child to let go. Nothing is assumed of
  the child. `EveryMessageEnds` therefore excuses the behaviours in which some
  `execute()` is in such a wait from some time on, and no others.
- `TurnEvents`: weak fairness of spawning, of the deadline of a wait and of the wait
  for a killed process: the first returns or raises, the others are timers. Nothing
  is assumed of the servers or the CLI.
- `AuthSync`: nothing of the CLI; weak fairness of each script's own steps, each of which
  is bounded by a curl timeout; strong fairness of a GET among the attempts of the loop,
  and, for `CatchesUp` only, of GETs that return the platform's credential; weak fairness
  of the platform's save. No fairness makes anyone rotate or restart.
- `TurnWatchdog`, `ConfigToml` and `ConfigProviders` have safety properties only.
  That the watchdog ends a turn follows from `SilenceIsNoticed` and
  `TotalIsBounded`, as time passes.

## What is proved

`AppServerProofs` assumes only `AppServerAssumption` (naturals, Booleans, callers
distinct from inbound requests): any number of callers, requests and lines. Type
correctness is inductive by itself; the two Boolean variables have a lemma of
their own. `NoOrphanWaiter`, `DeadChannelSettles`, `PendingHasOwner` and
`ConnErrorMeansGone` are not inductive; they follow from `SessionInv`, which adds
that ids in flight are allocated and distinct and later ones unused
(`InFlightIds`), that each pending id is owned by a call in flight
(`PendingOwned`), and that a dead channel, or one whose pending requests `close()`
has failed, has nothing pending while every failed future was failed by one of
these two (`GoneIsFinal`). Steps that are not a caller's share a lemma about what
they may do to futures (`FuturesStep`); each action of a caller has its own.
`SettledOnce` is an action property drawn from the same invariant.

Its third part proves `InboundRepliedOnce` and `SilentAfterClose`, under the
same assumption. A reply may be written although its `drain()` raises, and the code then
tries again with an error; that no second reply goes out rests on stdin never opening
again. `RepliesInv` therefore says that a task that has yet to write has no reply
in the queue or read, unless stdin is gone; `AskedInv` that a request of the
child stands once in its stdout, with no task of its own yet; `TasksInv` that `close()`
stopped the reader and the watcher when it failed what was pending.

`AppServerRefinement` proves `ImplementsRpc` under the same assumption. That a
request returns the first answer is not a matter of one step: between the child's
write and the caller's return lie the pipe, the reader, the future and the timer.
`AnswerInv` says where the answer is: only allocated ids reach the child
(`AskedIds`); a future that can still be answered has the first answer to its id
ahead of it in the pipe, no other before it (`AnswerDue`); an answered future has
the first answer (`AnsweredFirst`); a call in flight has no outcome (`OpenCalls`).
`StepRefines` then maps each action to a step of `OneShotRpc` or to a stutter: the
allocation opens the call, the child's first line for an id answers it, `Resume`
returns it, the timer or a cancellation gives it up, and `MarkDead`, `close()` or the
loss of stdin, whichever comes first, makes the channel vanish.

`ExecutorProofs` assumes only `ExecutorAssumption`: any number of messages, and
notifications in flight. `TypeOK` holds whatever the child does; with it go that an
answered request came from a message and that an awaited child was started. What more is
proved holds under a condition on `Quirks`; TLC violates `OwnTurnOnly` with `dualEnd` and
`InitBeforeUse` with `initRejected` (above); `ProcessedOnce` alone holds whatever the
child does and whoever calls `cancel()` or `shutdown()`. Without `shutdown()`, which takes no lock (`Calm`), `LockInv`, `TargetInv` and
`FreshInv` say which steps are the holder's of `_turn_lock`, that the cached thread and
turn belong to the cached child, and that a failed child is no longer cached; they give
`SteerTarget` and `FreshAfterFailure`. Under the plain protocol (`Plain`: moreover each
`turn/start` answer names its turn, an error is final, and a turn's end is reported once) `ApartInv` says
where the holder's turn is: asked for (`AskInv`), answered (`WireInv`), running or its end
on the way (`ActiveInv`), at most one of these and all about the holder. That no line
about an earlier turn is left on a child's wire when the next one subscribes is what
`TurnExclusive` and `OwnTurnOnly` come down to. For a child that accepts its handshake
(`Greeted`), `GreetInv` says that a thread is cached only of an initialized child and
that a child is cached without a thread only while it is being set up; it gives
`InitBeforeUse`. `ProcessedOnce` needs `OnceInv`: a message whose `turn/steer` has not
timed out has at most one request that could give it to a turn, none once it was given,
and a refusal on a wire or in hand is one of a message that no turn has.

`TurnWatchdogProofs` assumes `WatchdogAssumption`: a positive tick, window and
budget, any lag. `ClocksInv` says where the loop's clocks stand: the last tick
found silence and budget still short and was itself in time, and an event not yet
noticed came after that tick. From it follow that no turn is given up without a
real silence or after it completed, and the two bounds.

`ConfigProvidersProofs` begins with every registry, not only the one of the repository:
detection picks the best entry by the five classes of the documented precedence, the
first among equals, and an appended entry changes no workspace's provider unless it is
strictly better for it. From `WorldAssumption` alone, which lets the image's registry be
the shipped one, one with an entry more, or with a misspelt one, it then proves the four
properties of the run `ConfigSwitch` for any number of complete boots in any worlds that
are `Agreeing`, as every world of that run is: no registry of the workspace's own, one
model id that is no entry's name, no provider name but `MODEL_PROVIDER` (an entry's, or
`openai`), and a credential that the preflight knows. In such a world `start.sh` picks a
built-in provider whenever `setup()` does (`StartResolves`), though it reads another
registry and takes names at face value, so `OverrideFollowsPick` applies; the rest is
precedence. The claims above show, condition by condition, what happens in a world that
lacks one.

`TurnEventsProofs` assumes only `EventsAssumption`: any servers, tools, calls and
bounds. `StageInv` says that a server is being asked exactly while the enumeration
waits and that no other process is alive, whence `NoServerLeft`. `RowsInv` counts the
rows of each call by how much of it the CLI has reported, in each schema.
`SourceInv` follows an id from the server's answer through the pipe, the partial result
and the cache to the tools of the turn; only ids advertised by that server, or calls that
ended, ever join them. `ReplyInv` says that every message said, and every piece
recorded, is a contiguous part of the joined reply, and that what was streamed of the
message in progress ends it. A whole text is skipped only if it is one of those pieces
(`Completing`), and a message streamed to its end is what the reply then ends with; a
piece is only ever added at the end, so neither is torn later.
`FlattenSeq` of the community modules joins the pieces by a recursive
function; that it exists is shown by a least counterexample (`LeastOf`).

`AuthSyncProofs` proves `TypeOK`, `NoReuse` and `SyncIsMonotone` from nothing but the
assumptions of the module: any owners and keyed workspaces, any seeds, a CLI that refreshes
when it likes. `CopyInv` orders the copies of a credential for as long as no CLI of the
account rotated: a sharing workspace's file, its seed and an answer in flight are never
newer than what the platform has saved, which is what the account has or what the platform
is about to replace; an owner box has the latest of its own account, in its file or in the answer it is about
to write, unless it lost it; and no script outlives its container. The
exceptions are those of the properties: accounts a CLI posted for (`demanded`), owner boxes
that lost what they rotated to (`lost`), and, for files alone, a re-sync that puts the
platform's copy over the credential of an owner box.

`ConfigTomlProofs` assumes `ConfigAssumption`: any number of boots, any providers and
plugins. A program that takes lines away leaves a file whose lines are listed by a strictly
increasing function (`Thinned`), in which what stood side by side and was kept still
does; from that follows what each of the awk programs spares, and that the strip of a
plugin block takes that block alone, as every begin marker starts a whole one
(`FileInv`). Each property then has the condition under which the programs keep it, and
the claims above or the run `ConfigDuplicate` show what happens without it:

- `RuntimeReady` for boots whose `setup()` picks a built-in provider or skips, crashes and any
  earlier boots included (a compatible provider's file has no molecule server);
- `Parses` without plugins;
- `HandEditsKept` while every boot is one of a built-in provider: no file then starts
  with the renderer's comment, which is all that makes it take a file away;
- `RebootIsIdempotent`, which compares the files but for their blank lines, for such boots
  without plugins, crashes included. `SettledInv` says which texts a boot may find, also
  between two rewrites of one script; `codex_mcp_config.sh` makes the same one of them all;
- `OverrideMatches` for complete boots, if `start.sh` renders with python and without an
  override whenever `setup()` picks none or refuses (`Coherent`). `OverrideInv` says
  that between boots an override stands under its renderer's comment at the top of the
  file, and that `codex_mcp_config.sh`, which puts lines above it, meets one only if
  `setup()` is about to write its own.

Only model-checked: all liveness. Every invariant that a passing run checks has a theorem,
some of them under the conditions above. Liveness under
fairness and `ENABLED` are outside what the installed provers do.

## Not modelled

The touched activity file and the HTTP post behind an agent-log row, stderr
forwarding, the status sidecar, the askpass helper, image and workflow definitions:
output or declarations without state. Persona files and the platform's base URL, which
`setup()` copies through. Of the registry projection the byte comparison of the
artifact and the rules of other templates. The CI gates and requirement pinning are
stateless text processing. Prompts, attachments and the text of errors. Cancellation of
the `execute()` task outside the enumeration, and cancellation of `close()`. A write
of a file that is cut short in the middle. An owner box on the platform's own account.

## Plan

Done: `AppServer` with its proofs and its refinement of `OneShotRpc`; `Executor`,
`TurnWatchdog`, `TurnEvents`, `AuthSync`, `ConfigToml` and `Providers`, each with its
proofs; `RegistryProjection` and `ConfigProviders`.

1. Cancellation of a running `execute()` and of `close()`.
2. A serial turn service that `Executor` implements, with the child of `Executor`
   replaced by `OneShotRpc`.
