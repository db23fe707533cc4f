----------------------------- MODULE TurnEvents -----------------------------
(***************************************************************************)
(* What a turn of the executor learns and reports: the MCP inventory that  *)
(* it takes from the servers of config.toml before turn/start, and the     *)
(* text, the tool calls and the end that the CLI's notifications tell it,  *)
(* in either of the two schemas the callback reads.  Turns follow one      *)
(* another under _turn_lock; Executor models what happens around them.     *)
(*                                                                         *)
(* A text is a sequence of chunks, a tool id a pair <<server, tool>>.      *)
(*                                                                         *)
(* X_Suffix is what a plausible bug would make of X; nothing uses it.      *)
(***************************************************************************)
EXTENDS Naturals, Sequences, FiniteSets, SequencesExt

CONSTANTS
    Servers,    \* MCP servers of config.toml
    Tools,      \* tools a server may advertise
    Configs,    \* what config.toml may declare: sets of servers that have a command
    Builtins,   \* tool calls that are no MCP call
    Chunks,     \* what a delta may hold
    MaxChunks,  \* bound: chunks in a message of the agent
    Schemas,    \* schemas the CLI may speak: "v130", "v72"
    MayFail,    \* whether the CLI reports errors and execute() is cancelled
    PipeCap,    \* bound: unread lines of a server
    MaxSaid,    \* bound: messages of the agent in a turn
    MaxCalls,   \* bound: tool calls of the agent in a turn
    MaxTurns    \* bound: turns

Ids   == Servers \X Tools
Calls == Ids \cup ({"-"} \X Builtins)
Texts == UNION {[1 .. n -> Chunks] : n \in 1 .. MaxChunks}

ASSUME EventsAssumption ==
    /\ Configs \subseteq SUBSET Servers
    /\ Schemas \subseteq {"v130", "v72"}
    /\ MayFail \in BOOLEAN
    /\ {MaxChunks, PipeCap, MaxSaid, MaxCalls, MaxTurns} \subseteq Nat

VARIABLES
    pc,         \* idle, spawn, initialize, tools, reap, run
    todo,       \* servers left to ask
    asked,      \* the set of the server being asked, {} if none
    found,      \* ids collected in this enumeration
    cache,      \* _loaded_mcp_tools, {} for None
    proc,       \* server processes: none, alive, killed, gone
    pipe,       \* unread stdout lines of the server being asked
    state,      \* the _TurnState of the running turn
    agent,      \* the CLI: message in progress and its unsent chunks, what it said, calls
    emitted,    \* agent_log rows per call of the turn
    published,  \* what set_loaded_mcp_tools() was given last
    turns,      \* turns so far
    advertised  \* history: ids servers put in their answers to tools/list

inventory == <<todo, asked, found, proc, pipe, advertised>>
turn      == <<state, agent, emitted>>
vars      == <<pc, cache, published, turns, inventory, turn>>

NewState == [deltas |-> <<>>, completed |-> FALSE, error |-> FALSE, tools |-> {}]
NewAgent == [text |-> <<>>, left |-> <<>>, said |-> <<>>, done |-> FALSE,
             schema |-> "v130", calls |-> [c \in Calls |-> "none"]]

Init ==
    /\ pc = "idle"
    /\ todo = {} /\ asked = {} /\ found = {} /\ cache = {} /\ pipe = <<>>
    /\ proc = [s \in Servers |-> "none"]
    /\ state = NewState
    /\ agent = NewAgent
    /\ emitted = [c \in Calls |-> 0]
    /\ published = {}
    /\ turns = 0
    /\ advertised = {}

-----------------------------------------------------------------------------
(* The turn starts, and ends.                                              *)

\* _run_turn() has its inventory: the state of the turn is fresh.
Running_KeepsTools(tools) == state' = [NewState EXCEPT !.tools = tools \cup published]

Running(tools) == state' = [NewState EXCEPT !.tools = tools]

TurnRuns(tools) ==
    /\ pc' = "run"
    /\ Running(tools)
    /\ \E schema \in Schemas : agent' = [NewAgent EXCEPT !.schema = schema]
    /\ emitted' = [c \in Calls |-> 0]

\* The cache is asked first; a missing or broken config.toml declares nothing.
TurnBegins ==
    /\ pc = "idle" /\ turns < MaxTurns
    /\ turns' = turns + 1
    /\ IF cache # {} THEN /\ TurnRuns(cache)
                          /\ UNCHANGED inventory
       ELSE \E config \in Configs :
            /\ todo' = config
            /\ found' = {}
            /\ UNCHANGED <<asked, proc, pipe, advertised>>
            /\ IF config = {} THEN TurnRuns({})
               ELSE pc' = "spawn" /\ UNCHANGED turn
    /\ UNCHANGED <<cache, published>>

\* The finally block publishes, whether the turn ended, failed or was cancelled.
TurnEnds ==
    /\ pc = "run" /\ (state.completed \/ MayFail)
    /\ pc' = "idle"
    /\ published' = state.tools
    /\ state' = NewState /\ agent' = NewAgent
    /\ emitted' = [c \in Calls |-> 0]
    /\ UNCHANGED <<cache, turns, inventory>>

-----------------------------------------------------------------------------
(* extract_loaded_mcp_tools(): one server after the other; the result is   *)
(* sorted, so their order does not matter.                                 *)

Asked == CHOOSE s \in asked : TRUE
Enumerating == {"spawn", "initialize", "tools", "reap"}

\* On to the next server; the last one decides what is cached.
NextServer ==
    /\ IF todo # {} THEN pc' = "spawn" /\ UNCHANGED <<cache, turn>>
       ELSE cache' = found /\ TurnRuns(found)
    /\ asked' = {}
    /\ UNCHANGED <<found, pipe, advertised, published, turns>>

Spawns(s) ==
    /\ pc = "spawn" /\ s \in todo
    /\ todo' = todo \ {s}
    /\ asked' = {s}
    /\ proc' = [proc EXCEPT ![s] = "alive"]
    /\ pc' = "initialize"
    /\ UNCHANGED <<found, pipe, advertised, cache, published, turns, turn>>

ExpectedId == IF pc = "initialize" THEN 1 ELSE 2

\* The finally block of _list_tools_from_mcp_server() kills what still runs.
Killed_OnSuccess(s) == IF pipe # <<>> THEN [proc EXCEPT ![s] = "killed"] ELSE proc

Killed(s) == IF proc[s] = "alive" THEN [proc EXCEPT ![s] = "killed"] ELSE proc

Ends(tools) ==
    /\ found' = found \cup {<<Asked, t>> : t \in tools}
    /\ proc' = Killed(Asked)
    /\ pipe' = <<>>
    /\ pc' = "reap"
    /\ UNCHANGED <<todo, asked, advertised, cache, published, turns, turn>>

\* _recv_mcp_response() takes the first line with the id it waits for.
Takes ==
    /\ pc \in {"initialize", "tools"} /\ pipe # <<>>
    /\ LET m == Head(pipe) IN
       \/ /\ m.id # ExpectedId /\ m.kind # "long"
          /\ pipe' = Tail(pipe)
          /\ UNCHANGED <<pc, todo, asked, found, proc, advertised, cache, published, turns, turn>>
       \/ /\ m.id = ExpectedId /\ m.kind = "result" /\ pc = "initialize"
          /\ pc' = "tools"
          /\ pipe' = Tail(pipe)
          /\ UNCHANGED <<todo, asked, found, proc, advertised, cache, published, turns, turn>>
       \/ /\ m.id = ExpectedId /\ m.kind = "result" /\ pc = "tools"
          /\ Ends(m.tools)
       \/ /\ (m.id = ExpectedId /\ m.kind # "result") \/ m.kind = "long"
          /\ Ends({})

\* The deadline of a wait does not move with the lines that are dropped.
TimeIsUp_WhenQuiet == pipe = <<>>

TimeIsUp == TRUE

Deadline ==
    /\ pc \in {"initialize", "tools"}
    /\ TimeIsUp
    /\ Ends({})

EndOfFile ==
    /\ pc \in {"initialize", "tools"} /\ pipe = <<>> /\ proc[Asked] = "gone"
    /\ Ends({})

\* The wait for the killed process returns, or gives up after its two seconds.
Reaped ==
    /\ pc = "reap"
    /\ \/ proc' = [proc EXCEPT ![Asked] = "gone"]
       \/ proc[Asked] = "killed" /\ UNCHANGED proc
    /\ NextServer
    /\ UNCHANGED todo

\* A server that cannot be spawned has no tools.
SpawnFails(s) ==
    /\ pc = "spawn" /\ s \in todo
    /\ todo' = todo \ {s}
    /\ IF todo = {s} THEN cache' = found /\ TurnRuns(found)
       ELSE UNCHANGED <<pc, cache, turn>>
    /\ UNCHANGED <<asked, found, proc, pipe, advertised, published, turns>>

\* execute() is cancelled while it enumerates: the finally block still runs, and
\* asyncio kills a process whose creation it had to abandon.
Cancelled ==
    /\ MayFail /\ pc \in Enumerating
    /\ proc' = IF asked = {} THEN proc ELSE Killed(Asked)
    /\ pipe' = <<>>
    /\ todo' = {} /\ asked' = {}
    /\ found' = {}
    /\ pc' = "idle"
    /\ UNCHANGED <<advertised, cache, published, turns, turn>>

\* A server: it may answer with a result or an error, twice, write requests with
\* ids of its own, lines that are no answer, or one beyond the reader's limit.
ServerLines ==
    [id : {1, 2}, kind : {"result"}, tools : SUBSET Tools]
    \cup [id : {1, 2}, kind : {"error", "request"}, tools : {{}}]
    \cup [id : {0}, kind : {"other", "long"}, tools : {{}}]

ServerWrites ==
    /\ pc \in {"initialize", "tools"} /\ proc[Asked] = "alive" /\ Len(pipe) < PipeCap
    /\ \E m \in ServerLines :
        /\ m.kind \in {"result", "error"} => m.id <= ExpectedId
        /\ m.kind = "result" /\ m.id = 1 => m.tools = {}
        /\ pipe' = Append(pipe, m)
        /\ advertised' = advertised \cup {<<Asked, t>> : t \in m.tools}
    /\ UNCHANGED <<pc, todo, asked, found, proc, cache, published, turns, turn>>

ServerExits ==
    /\ \E s \in Servers :
        /\ proc[s] \in {"alive", "killed"}
        /\ proc' = [proc EXCEPT ![s] = "gone"]
    /\ UNCHANGED <<pc, todo, asked, found, pipe, advertised, cache, published, turns, turn>>

-----------------------------------------------------------------------------
(* on_notification().                                                      *)

\* A final or whole text is added unless it is one of the pieces already there.
Completing_Never(deltas, whole) == deltas

Completing(deltas, whole) ==
    IF whole \in Range(deltas) THEN deltas ELSE Append(deltas, whole)

\* turn/completed is the last that the CLI reports of a turn.
Reporting == pc = "run" /\ ~agent.done

Notified(newState, newAgent) ==
    /\ state' = newState
    /\ agent' = newAgent
    /\ UNCHANGED <<pc, cache, published, turns, inventory>>

\* The agent starts a message.
Speaks ==
    /\ Reporting /\ agent.text = <<>> /\ Len(agent.said) < MaxSaid
    /\ \E text \in Texts :
        Notified(state, [agent EXCEPT !.text = text, !.left = text])
    /\ UNCHANGED emitted

\* item/agentMessage/delta, agent_message_delta.
Delta ==
    /\ Reporting /\ agent.left # <<>>
    /\ Notified([state EXCEPT !.deltas = Append(@, <<Head(agent.left)>>)],
                [agent EXCEPT !.left = Tail(@)])
    /\ UNCHANGED emitted

\* item/completed or agent_message, with chunks streamed before it or not.
Whole ==
    /\ Reporting /\ agent.text # <<>>
    /\ Notified([state EXCEPT !.deltas = IF agent.schema = "v130"
                                         THEN Completing(@, agent.text)
                                         ELSE Append(@, agent.text)],
                [agent EXCEPT !.said = Append(@, agent.text), !.text = <<>>, !.left = <<>>])
    /\ UNCHANGED emitted

\* A message that was streamed to its end need not be repeated as a whole.
StreamedOnly ==
    /\ Reporting /\ agent.text # <<>> /\ agent.left = <<>>
    /\ Notified(state, [agent EXCEPT !.said = Append(@, agent.text), !.text = <<>>])
    /\ UNCHANGED emitted

\* item/started, or a *_begin event; the v72 one is where the call is reported.
CallStarts(c) ==
    /\ Reporting /\ agent.calls[c] = "none"
    /\ Cardinality({d \in Calls : agent.calls[d] # "none"}) < MaxCalls
    /\ Notified(state, [agent EXCEPT !.calls[c] = "begun"])
    /\ emitted' = IF agent.schema = "v72" THEN [emitted EXCEPT ![c] = @ + 1] ELSE emitted

\* item/completed, or an *_end event.
CallRow_BothEnds(c) == [emitted EXCEPT ![c] = @ + 1]
CallRow(c) == IF agent.schema = "v130" THEN [emitted EXCEPT ![c] = @ + 1] ELSE emitted

CallEnds(c) ==
    /\ Reporting /\ agent.calls[c] = "begun"
    /\ Notified(IF agent.schema = "v130" /\ c \in Ids
                THEN [state EXCEPT !.tools = @ \cup {c}] ELSE state,
                [agent EXCEPT !.calls[c] = "ended"])
    /\ emitted' = CallRow(c)

\* turn/completed, task_complete: the last message may be repeated, and a single
\* one that no earlier event told is told here.
Completed(deltas, said) ==
    Notified([state EXCEPT !.completed = TRUE, !.deltas = deltas],
             [agent EXCEPT !.done = TRUE, !.said = said])

TurnCompleted ==
    /\ Reporting /\ agent.text = <<>>
    /\ \/ Completed(state.deltas, agent.said)
       \/ /\ agent.said # <<>>
          /\ Completed(Completing(state.deltas, Last(agent.said)), agent.said)
       \/ /\ agent.said = <<>>
          /\ \E text \in Texts : Completed(Completing(state.deltas, text), <<text>>)
    /\ UNCHANGED emitted

\* A final error; one that the CLI retries changes nothing but the activity.
Error ==
    /\ MayFail /\ Reporting
    /\ Notified([state EXCEPT !.completed = TRUE, !.error = TRUE], agent)
    /\ UNCHANGED emitted

-----------------------------------------------------------------------------
ServerStep == ServerWrites \/ ServerExits
SpawnStep  == \E s \in Servers : Spawns(s) \/ SpawnFails(s)

Next ==
    \/ TurnBegins \/ TurnEnds
    \/ SpawnStep \/ Takes \/ Deadline \/ EndOfFile \/ Reaped \/ Cancelled
    \/ ServerStep
    \/ Speaks \/ Delta \/ Whole \/ StreamedOnly
    \/ \E c \in Calls : CallStarts(c) \/ CallEnds(c)
    \/ TurnCompleted \/ Error

Spec == Init /\ [][Next]_vars

\* Spawning returns, the timers of the executor fire; nothing of the servers.
FairSpec == Spec /\ WF_vars(SpawnStep) /\ WF_vars(Deadline) /\ WF_vars(Reaped)

-----------------------------------------------------------------------------
(* Properties.                                                             *)

\* No server that the inventory spawned runs on, unless it is the one being
\* asked: not after an answer, a timeout, an error or a cancellation.
NoServerLeft ==
    \A s \in Servers : proc[s] = "alive" => pc \in {"initialize", "tools"} /\ asked = {s}

\* A turn publishes only ids that the very server advertised or that it called in
\* this very turn: late, repeated and foreign lines add nothing, nor does the turn
\* before it.
PublishedNow ==
    pc = "run" /\ pc' = "idle" =>
        published' \subseteq advertised \cup {c \in Ids : agent.calls[c] = "ended"}
PublishedIsLive == [][PublishedNow]_vars

\* Servers that hang, chatter or refuse do not keep a turn from starting.
EnumerationEnds == pc \in Enumerating ~> pc \notin Enumerating

Reply == FlattenSeq(state.deltas)
Within(text, reply) ==
    \E i \in 0 .. Len(reply) - Len(text) : SubSeq(reply, i + 1, i + Len(text)) = text

\* Whatever was streamed, skipped or repeated, each message is whole in the reply.
ReplyIsWhole == pc = "run" => \A i \in DOMAIN agent.said : Within(agent.said[i], Reply)

\* A tool call leaves one row in the log, and leaves it by its end.
OneRowPerCall ==
    pc = "run" => \A c \in Calls : /\ emitted[c] <= 1
                                   /\ agent.calls[c] = "ended" => emitted[c] = 1

-----------------------------------------------------------------------------
(* Claims that the code does not keep, with some of the constants.         *)

\* A streaming turn does not double the text (on_notification(), item/completed).
ReplyIsSaid ==
    pc = "run" /\ agent.done => Reply = FlattenSeq(agent.said)

\* A server that failed is asked again in the next turn
\* (_ensure_loaded_mcp_tools()); it is not if another one answered.
Asks == pc = "idle" /\ pc' # "idle" /\ {} \notin Configs => pc' = "spawn" \/ cache = advertised
FailedServerIsAskedAgain == [][Asks]_vars

\* A tool that was called in the turn is in what the turn publishes.
CalledIsPublished ==
    pc = "run" => \A c \in Ids : agent.calls[c] = "ended" => c \in state.tools

\* Requests of the server are dropped (_recv_mcp_response()), not taken for answers.
RequestTaken ==
    pipe # <<>> /\ Head(pipe).kind = "request" /\ pipe' # pipe => pc' \in {pc, "idle"}
RequestsAreDropped == [][RequestTaken]_vars
=============================================================================
