------------------------------ MODULE Executor ------------------------------
(***************************************************************************)
(* CodexAppServerExecutor (executor.py): one cached `codex app-server`     *)
(* child and thread, a turn per A2A message under _turn_lock, messages     *)
(* that arrive during a turn steered into it, cancel(), shutdown(), and    *)
(* the reset of a child that timed out or was lost.                        *)
(*                                                                         *)
(* Messages are numbered in the order in which execute() is called; each   *)
(* starts at most one child and one turn, so a turn and a child carry the  *)
(* number of the message that started them, and 0 stands for None.  A      *)
(* thread id carries the number of the child that issued it.               *)
(*                                                                         *)
(* The channel is what AppServer promises: a request is answered in order, *)
(* times out, or raises ConnectionError once the child is gone.  The child *)
(* itself is external; what it may do beyond the plain protocol is named   *)
(* by the constant Quirks.                                                 *)
(*                                                                         *)
(* X_Suffix is what a plausible bug would make of X; nothing uses it.      *)
(***************************************************************************)
EXTENDS Naturals, Sequences, FiniteSets

CONSTANTS
    N,        \* bound: messages in a behaviour
    MaxNotes, \* bound: notifications in flight on one child's stdout
    Quirks    \* what may happen beyond the plain protocol

\* dies         the child exits at any time
\* dualEnd      a turn's end is reported in both notification schemas
\* errorThenEnd an `error` notification is followed by the turn's end
\* hangs        the child stops for ever: it reads and writes nothing
\* initRejected initialize is answered with a JSON-RPC error
\* noId         thread/start, turn/start may be answered without an id
\* noSteer      a live turn may refuse to be steered
\* spawnFails   the child process cannot be started
\* slow         the child may be too slow for any timer
\* cancel       cancel() is called during a turn
\* shutdown     shutdown() is called
AllQuirks == {"dies", "dualEnd", "errorThenEnd", "hangs", "initRejected", "noId",
              "noSteer", "spawnFails", "slow", "cancel", "shutdown"}

ASSUME ExecutorAssumption ==
    /\ N \in Nat /\ N > 0
    /\ MaxNotes \in Nat
    /\ Quirks \subseteq AllQuirks

Messages == 1 .. N
NoneOr   == 0 .. N

VARIABLES
    appServer,    \* _app_server: the cached child
    threadId,     \* _thread_id
    currentTurn,  \* _current_turn_id
    holder,       \* who holds _turn_lock
    lockQ,        \* who waits for it, first come first served
    inventory,    \* whether _loaded_mcp_tools is cached
    pc,           \* where each execute() is suspended
    on,           \* the child each execute() is talking to
    got,          \* the response its future was settled with
    sub,          \* the child whose notifications the turn state receives
    state,        \* the _TurnState of the running _run_turn
    shut,         \* where shutdown() is, the child it closes, the turn it found
    child,        \* each child process
    inited,       \* children that have seen the `initialized` notification
    reqQ,         \* requests on their way to each child, in order
    wire,         \* responses and notifications on their way back, in order
    active,       \* turns in progress on each child's thread
    inputs,       \* history: the messages given to each turn
    seen,         \* history: the turns whose notifications built each reply
    order,        \* history: messages in the order they reached a turn
    failed,       \* history: children on which a turn timed out or was lost
    late,         \* history: messages whose turn/steer timed out
    reply         \* history: how each execute() ended

executor == <<appServer, threadId, currentTurn, inventory>>
lock     == <<holder, lockQ>>
coros    == <<pc, on, got>>
turn     == <<sub, state>>
peers    == <<child, inited, reqQ, wire, active>>
history  == <<inputs, seen, order, failed, late, reply>>

vars == <<executor, lock, coros, turn, shut, peers, history>>

NewState == [completed |-> FALSE, error |-> FALSE, turn |-> 0]

Init ==
    /\ appServer = 0 /\ threadId = 0 /\ currentTurn = 0 /\ inventory = FALSE
    /\ holder = 0 /\ lockQ = <<>>
    /\ pc = [m \in Messages |-> "idle"]
    /\ on = [m \in Messages |-> 0]
    /\ got = [m \in Messages |-> "none"]
    /\ sub = 0 /\ state = NewState
    /\ shut = [pc |-> "idle", child |-> 0, turn |-> 0]
    /\ child = [g \in Messages |-> "none"]
    /\ inited = {}
    /\ reqQ = [g \in Messages |-> <<>>]
    /\ wire = [g \in Messages |-> <<>>]
    /\ active = [g \in Messages |-> {}]
    /\ inputs = [t \in Messages |-> {}]
    /\ seen = [m \in Messages |-> {}]
    /\ order = <<>> /\ failed = {} /\ late = {}
    /\ reply = [m \in Messages |-> "none"]

-----------------------------------------------------------------------------
(* Building blocks of execute() and _run_turn().                           *)

RequestStages == {"init", "threading", "turnStart", "steering"}

\* The thread a turn/start or turn/steer to child g names.
ThreadFor(g) == IF threadId = 0 THEN g ELSE threadId

RequestOf(m, s, g) ==
    [kind |-> s, from |-> m, thread |-> ThreadFor(g),
     turn |-> IF s = "steering" THEN currentTurn ELSE 0]

\* Message m goes on at stage s, talking to child g.
Goto(m, s, g) ==
    /\ pc' = [pc EXCEPT ![m] = s]
    /\ on' = [on EXCEPT ![m] = g]
    /\ got' = [got EXCEPT ![m] = "none"]
    /\ reqQ' = IF s \in RequestStages
               THEN [reqQ EXCEPT ![g] = Append(@, RequestOf(m, s, g))] ELSE reqQ

\* execute() of message m ends.
End(m, how) ==
    /\ pc' = [pc EXCEPT ![m] = "done"]
    /\ got' = [got EXCEPT ![m] = "none"]
    /\ reply' = [reply EXCEPT ![m] = how]
    /\ UNCHANGED <<on, reqQ>>

Release == holder' = 0 /\ UNCHANGED lockQ

\* The first suspension of _run_turn() from each of its checks on.
StageAfterThread == IF inventory THEN "turnStart" ELSE "mcp"
StageAfterInit   == IF threadId = 0 THEN "threading" ELSE StageAfterThread
FirstStage_NoStart == StageAfterInit
FirstStage       == IF appServer = 0 THEN "starting" ELSE StageAfterInit

\* subscribe(on_notification) comes with turn/start.
Subscribed_KeepsState(s, g) ==
    IF s = "turnStart" THEN sub' = g /\ UNCHANGED state ELSE UNCHANGED turn
Subscribed(s, g) ==
    IF s = "turnStart" THEN sub' = g /\ state' = NewState ELSE UNCHANGED turn

LockPath_NoWait(m) ==
    /\ holder' = m
    /\ Goto(m, FirstStage, appServer)
    /\ Subscribed(FirstStage, appServer)
    /\ UNCHANGED lockQ

\* `async with self._turn_lock`: message m enters _run_turn() or queues.
LockPath(m) ==
    IF holder = 0 /\ lockQ = <<>>
    THEN /\ holder' = m
         /\ Goto(m, FirstStage, appServer)
         /\ Subscribed(FirstStage, appServer)
         /\ UNCHANGED lockQ
    ELSE /\ lockQ' = Append(lockQ, m)
         /\ Goto(m, "queued", 0)
         /\ UNCHANGED <<holder, turn>>

\* The `finally` of _run_turn() once it has subscribed.
Unsubscribed_KeepsTurn == sub' = 0 /\ UNCHANGED <<state, currentTurn>>
Unsubscribed == sub' = 0 /\ currentTurn' = 0 /\ UNCHANGED state

-----------------------------------------------------------------------------
(* execute(): arrival, turn/steer, the lock.                               *)

\* The first suspension of execute(): a message that finds a turn in flight
\* steers into it, any other one goes for the lock.
CanSteer ==
    /\ holder # 0
    /\ appServer # 0
    /\ threadId # 0
    /\ currentTurn # 0

Arrive(m) ==
    /\ pc[m] = "idle"
    /\ \A k \in Messages : k < m => pc[k] # "idle"
    /\ IF CanSteer
       THEN Goto(m, "steering", appServer) /\ UNCHANGED <<lock, turn>>
       ELSE LockPath(m)
    /\ UNCHANGED <<executor, shut, child, inited, wire, active, history>>

SteerAccepted_NoReturn(m) ==
    /\ pc[m] = "steering" /\ got[m] = "ok"
    /\ LockPath(m)
    /\ UNCHANGED <<executor, shut, child, inited, wire, active, history>>

SteerAccepted(m) ==
    /\ pc[m] = "steering" /\ got[m] = "ok"
    /\ End(m, "placeholder")
    /\ UNCHANGED <<executor, lock, turn, shut, child, inited, wire, active, inputs,
                   seen, order, failed, late>>

\* AppServerError: fall through to the lock.
SteerRefused(m) ==
    /\ pc[m] = "steering" /\ got[m] = "error"
    /\ LockPath(m)
    /\ UNCHANGED <<executor, shut, child, inited, wire, active, history>>

TimerMayExpire_Never(g) == FALSE

\* A timer expires if the child is slow, or will never answer.
TimerMayExpire(g) == "slow" \in Quirks \/ child[g] \in {"hung", "dead", "closed"}

\* Five seconds without an answer: fall through too.  The request stays sent.
SteerTimesOut(m) ==
    /\ pc[m] = "steering" /\ got[m] = "none"
    /\ TimerMayExpire(on[m])
    /\ LockPath(m)
    /\ late' = late \cup {m}
    /\ UNCHANGED <<executor, shut, child, inited, wire, active, inputs, seen, order,
                   failed, reply>>

\* A ConnectionError is not among the exceptions caught around turn/steer.
SteerLosesChild(m) ==
    /\ pc[m] = "steering" /\ got[m] = "none"
    /\ child[on[m]] \in {"dead", "closed"}
    /\ End(m, "raised")
    /\ UNCHANGED <<executor, lock, turn, shut, child, inited, wire, active, inputs,
                   seen, order, failed, late>>

LockGranted(m) ==
    /\ holder = 0 /\ lockQ # <<>> /\ Head(lockQ) = m
    /\ holder' = m
    /\ lockQ' = Tail(lockQ)
    /\ Goto(m, FirstStage, appServer)
    /\ Subscribed(FirstStage, appServer)
    /\ UNCHANGED <<executor, shut, child, inited, wire, active, history>>

-----------------------------------------------------------------------------
(* _run_turn(): _ensure_thread(), the inventory, turn/start, completion.   *)

ChildStarted(m) ==
    /\ pc[m] = "starting"
    /\ child' = [child EXCEPT ![m] = "up"]
    /\ appServer' = m
    /\ Goto(m, "init", m)
    /\ UNCHANGED <<threadId, currentTurn, inventory, lock, turn, shut, inited, wire,
                   active, history>>

\* start() raises FileNotFoundError or its like, which execute() does not catch.
StartFails(m) ==
    /\ "spawnFails" \in Quirks
    /\ pc[m] = "starting"
    /\ End(m, "raised")
    /\ Release
    /\ UNCHANGED <<executor, turn, shut, child, inited, wire, active, inputs, seen,
                   order, failed, late>>

InitializedNote_Missing == [kind |-> "interrupt", from |-> 0, thread |-> 0, turn |-> 0]
InitializedNote == [kind |-> "initialized", from |-> 0, thread |-> 0, turn |-> 0]

\* initialize() returned: notify("initialized"), then thread/start.  After a
\* shutdown() meanwhile the thread/start is a call on None, which raises.
Initialized(m) ==
    /\ pc[m] = "init" /\ got[m] = "ok"
    /\ LET g == on[m]
           s == StageAfterInit
           next == IF s \in RequestStages /\ appServer # 0
                   THEN <<RequestOf(m, s, g)>> ELSE <<>>
       IN  /\ got' = [got EXCEPT ![m] = "none"]
           /\ reqQ' = [reqQ EXCEPT ![g] = @ \o <<InitializedNote>> \o next]
           /\ IF appServer # 0
              THEN /\ pc' = [pc EXCEPT ![m] = s]
                   /\ Subscribed(s, g)
                   /\ UNCHANGED <<lock, reply>>
              ELSE /\ pc' = [pc EXCEPT ![m] = "done"]
                   /\ reply' = [reply EXCEPT ![m] = "raised"]
                   /\ Release /\ UNCHANGED turn
    /\ UNCHANGED <<executor, on, shut, child, inited, wire, active, inputs, seen, order,
                   failed, late>>

\* The thread id is kept even when shutdown() has dropped the child meanwhile;
\* the assertion behind _ensure_thread() then raises.
ThreadStarted(m) ==
    /\ pc[m] = "threading" /\ got[m] = "ok"
    /\ threadId' = on[m]
    /\ IF appServer # 0
       THEN /\ Goto(m, StageAfterThread, on[m])
            /\ Subscribed(StageAfterThread, on[m])
            /\ UNCHANGED <<lock, reply>>
       ELSE End(m, "raised") /\ Release /\ UNCHANGED turn
    /\ UNCHANGED <<appServer, currentTurn, inventory, shut, child, inited, wire, active,
                   inputs, seen, order, failed, late>>

\* The MCP servers were enumerated; only a non-empty inventory is cached.
\* shutdown() may have dropped the child meanwhile: None has no subscribe().
Enumerated(m) ==
    /\ pc[m] = "mcp"
    /\ inventory' \in BOOLEAN
    /\ IF appServer # 0
       THEN /\ Goto(m, "turnStart", appServer)
            /\ Subscribed("turnStart", appServer)
            /\ UNCHANGED <<lock, reply>>
       ELSE End(m, "raised") /\ Release /\ UNCHANGED turn
    /\ UNCHANGED <<appServer, threadId, currentTurn, shut, child, inited, wire, active,
                   inputs, seen, order, failed, late>>

TurnStarted(m) ==
    /\ pc[m] = "turnStart" /\ got[m] = "ok"
    /\ currentTurn' = m
    /\ state' = [state EXCEPT !.turn = m]
    /\ pc' = [pc EXCEPT ![m] = "turn"]
    /\ got' = [got EXCEPT ![m] = "none"]
    /\ UNCHANGED <<appServer, threadId, inventory, lock, on, sub, shut, peers, history>>

TurnCompletes(m) ==
    /\ pc[m] = "turn" /\ state.completed
    /\ Unsubscribed
    /\ Release
    /\ End(m, IF state.error THEN "error" ELSE "text")
    /\ UNCHANGED <<appServer, threadId, inventory, shut, child, inited, wire, active,
                   inputs, seen, order, failed, late>>

\* AppServerError from any request, or RuntimeError for a missing id: reported,
\* the child is kept.
TurnRefused(m) ==
    /\ pc[m] \in {"init", "threading", "turnStart"}
    /\ \/ got[m] = "error"
       \/ pc[m] \in {"threading", "turnStart"} /\ got[m] = "noId"
    /\ IF pc[m] = "turnStart" THEN Unsubscribed ELSE UNCHANGED <<turn, currentTurn>>
    /\ Release
    /\ End(m, "error")
    /\ UNCHANGED <<appServer, threadId, inventory, shut, child, inited, wire, active,
                   inputs, seen, order, failed, late>>

\* What _reset_app_server() clears before it awaits close().
ResetFields_KeepsChild == UNCHANGED <<appServer, threadId, currentTurn>>
ResetFields == appServer' = 0 /\ threadId' = 0 /\ currentTurn' = 0

\* TimeoutError (a request's timer, the handshake's, the turn's watchdog) or
\* ConnectionError: `finally`, then _reset_app_server() up to its close().
TurnFails(m) ==
    /\ \/ pc[m] \in {"init", "threading", "turnStart"} /\ got[m] = "none"
       \/ pc[m] = "turn" /\ ~state.completed
    /\ TimerMayExpire(on[m])
    /\ IF pc[m] \in {"turnStart", "turn"} THEN sub' = 0 ELSE UNCHANGED sub
    /\ ResetFields
    /\ failed' = failed \cup {on[m]}
    /\ IF appServer # 0
       THEN /\ Goto(m, "closing", appServer)
            /\ UNCHANGED <<lock, reply>>
       ELSE End(m, "error") /\ Release
    /\ UNCHANGED <<inventory, state, shut, child, inited, wire, active, inputs, seen,
                   order, late>>

\* A close() that returns leaves nothing of child g: the process ends and its
\* pipes with it.  Beside a hung child it may never return (Waits).
Close(g) ==
    /\ child' = [child EXCEPT ![g] = "closed"]
    /\ active' = [active EXCEPT ![g] = {}]
    /\ reqQ' = [reqQ EXCEPT ![g] = <<>>]
    /\ wire' = [wire EXCEPT ![g] = <<>>]

Closed(m) ==
    /\ pc[m] = "closing"
    /\ Close(on[m])
    /\ Release
    /\ pc' = [pc EXCEPT ![m] = "done"]
    /\ reply' = [reply EXCEPT ![m] = "error"]
    /\ UNCHANGED <<executor, on, got, turn, shut, inited, inputs, seen, order, failed, late>>

-----------------------------------------------------------------------------
(* cancel() and shutdown(), which take no lock.                            *)

Interrupt == [kind |-> "interrupt", from |-> 0, thread |-> threadId, turn |-> currentTurn]

Cancel ==
    /\ "cancel" \in Quirks
    /\ appServer # 0 /\ threadId # 0 /\ currentTurn # 0
    /\ \A k \in DOMAIN reqQ[appServer] : reqQ[appServer][k].kind # "interrupt"
    /\ reqQ' = [reqQ EXCEPT ![appServer] = Append(@, Interrupt)]
    /\ UNCHANGED <<executor, lock, coros, turn, shut, child, inited, wire, active,
                   history>>

Shutdown ==
    /\ "shutdown" \in Quirks
    /\ shut.pc = "idle"
    /\ ResetFields
    /\ shut' = [pc |-> IF appServer = 0 THEN "done" ELSE "closing",
                child |-> appServer, turn |-> holder]
    /\ UNCHANGED <<inventory, lock, coros, turn, peers, history>>

ShutdownReturns ==
    /\ shut.pc = "closing"
    /\ Close(shut.child)
    /\ shut' = [shut EXCEPT !.pc = "done"]
    /\ UNCHANGED <<executor, lock, coros, turn, inited, history>>

-----------------------------------------------------------------------------
(* The reader task of a child, which close() cancels: responses and         *)
(* on_notification.                                                        *)

Awaits(m, g, s) == pc[m] = s /\ on[m] = g /\ got[m] = "none"

DispatchResponse(g) ==
    /\ child[g] # "closed"
    /\ wire[g] # <<>> /\ Head(wire[g]).kind = "response"
    /\ LET r == Head(wire[g])
       IN  got' = IF Awaits(r.from, g, r.stage)
                  THEN [got EXCEPT ![r.from] = r.result] ELSE got
    /\ wire' = [wire EXCEPT ![g] = Tail(@)]
    /\ UNCHANGED <<executor, lock, pc, on, turn, shut, child, inited, reqQ, active,
                   history>>

\* on_notification looks at the kind only, never at the turn it belongs to.
Concerns(t) == TRUE

DispatchNotification(g) ==
    /\ child[g] # "closed"
    /\ wire[g] # <<>> /\ Head(wire[g]).kind \in {"delta", "end", "error"}
    /\ LET n == Head(wire[g])
       IN  IF sub = g /\ Concerns(n.from)
           THEN /\ state' = [state EXCEPT !.completed = @ \/ n.kind # "delta",
                                          !.error = @ \/ n.kind = "error"]
                /\ seen' = [seen EXCEPT ![holder] = @ \cup {n.from}]
           ELSE UNCHANGED <<state, seen>>
    /\ wire' = [wire EXCEPT ![g] = Tail(@)]
    /\ UNCHANGED <<executor, lock, coros, sub, shut, child, inited, reqQ, active, inputs,
                   order, failed, late, reply>>

-----------------------------------------------------------------------------
(* The child (external).                                                   *)

Response(m, s, result) ==
    [kind |-> "response", from |-> m, stage |-> s, result |-> result]
Note(kind, t) == [kind |-> kind, from |-> t, stage |-> "none", result |-> "none"]

Handles(g, kind) ==
    /\ child[g] = "up"
    /\ reqQ[g] # <<>> /\ Head(reqQ[g]).kind = kind
    /\ reqQ' = [reqQ EXCEPT ![g] = Tail(@)]
    /\ UNCHANGED <<executor, lock, coros, turn, shut, child, seen, failed, late, reply>>

Answers(g, result) ==
    LET r == Head(reqQ[g])
    IN  wire' = [wire EXCEPT ![g] = Append(@, Response(r.from, r.kind, result))]

HandlesInitialize(g) ==
    /\ Handles(g, "init")
    /\ \E result \in {"ok"} \cup (IF "initRejected" \in Quirks THEN {"error"} ELSE {}) :
          Answers(g, result)
    /\ UNCHANGED <<inited, active, inputs, order>>

HandlesInitialized(g) ==
    /\ Handles(g, "initialized")
    /\ inited' = inited \cup {g}
    /\ UNCHANGED <<wire, active, inputs, order>>

IdAnswers == {"ok"} \cup (IF "noId" \in Quirks THEN {"noId"} ELSE {})

\* thread/start is refused (`Not initialized` without the handshake), or starts
\* the child's thread.
HandlesThreadStart(g) ==
    /\ Handles(g, "threading")
    /\ \E result \in {"error"} \cup (IF g \in inited THEN IdAnswers ELSE {}) : Answers(g, result)
    /\ UNCHANGED <<inited, active, inputs, order>>

\* turn/start is refused, or starts the turn on a thread of this child.
HandlesTurnStart(g) ==
    /\ Handles(g, "turnStart")
    /\ LET m == Head(reqQ[g]).from
       IN  \/ /\ Answers(g, "error")
              /\ UNCHANGED <<active, inputs, order>>
           \/ /\ Head(reqQ[g]).thread = g
              /\ \E result \in IdAnswers : Answers(g, result)
              /\ active' = [active EXCEPT ![g] = @ \cup {m}]
              /\ inputs' = [inputs EXCEPT ![m] = @ \cup {m}]
              /\ order' = Append(order, m)
    /\ UNCHANGED inited

HandlesSteer(g) ==
    /\ Handles(g, "steering")
    /\ LET r == Head(reqQ[g])
       IN  \/ /\ r.thread = g /\ r.turn \in active[g]
              /\ Answers(g, "ok")
              /\ inputs' = [inputs EXCEPT ![r.turn] = @ \cup {r.from}]
              /\ order' = Append(order, r.from)
           \/ /\ r.turn \notin active[g] \/ r.thread # g \/ "noSteer" \in Quirks
              /\ Answers(g, "error")
              /\ UNCHANGED <<inputs, order>>
    /\ UNCHANGED <<inited, active>>

\* A stale interrupt is a no-op; a live one ends the turn.
HandlesInterrupt(g) ==
    /\ Handles(g, "interrupt")
    /\ LET t == Head(reqQ[g]).turn
       IN  IF t \in active[g]
           THEN /\ active' = [active EXCEPT ![g] = @ \ {t}]
                /\ wire' = [wire EXCEPT ![g] = Append(@, Note("end", t))]
           ELSE UNCHANGED <<active, wire>>
    /\ UNCHANGED <<inited, inputs, order>>

\* A turn streams deltas, then ends, or fails with a final `error`.
TurnReports(g, t, kind) ==
    /\ child[g] = "up" /\ t \in active[g]
    /\ Len(wire[g]) < MaxNotes
    /\ wire' = [wire EXCEPT ![g] =
                  IF kind = "end" /\ "dualEnd" \in Quirks
                  THEN @ \o <<Note("end", t), Note("end", t)>>
                  ELSE Append(@, Note(kind, t))]
    /\ active' = IF kind = "end" \/ (kind = "error" /\ "errorThenEnd" \notin Quirks)
                 THEN [active EXCEPT ![g] = @ \ {t}] ELSE active
    /\ UNCHANGED <<executor, lock, coros, turn, shut, child, inited, reqQ, history>>

\* Stopped, or stuck with nobody reading its stdin: no timer of its own ends that.
ChildHangs(g) ==
    /\ "hangs" \in Quirks
    /\ child[g] = "up"
    /\ child' = [child EXCEPT ![g] = "hung"]
    /\ UNCHANGED <<executor, lock, coros, turn, shut, inited, reqQ, wire, active, history>>

ChildDies(g) ==
    /\ "dies" \in Quirks
    /\ child[g] \in {"up", "hung"}
    /\ child' = [child EXCEPT ![g] = "dead"]
    /\ active' = [active EXCEPT ![g] = {}]
    /\ reqQ' = [reqQ EXCEPT ![g] = <<>>]
    /\ UNCHANGED <<executor, lock, coros, turn, shut, inited, wire, history>>

-----------------------------------------------------------------------------
SteerStep(m) == SteerAccepted(m) \/ SteerRefused(m) \/ SteerTimesOut(m) \/ SteerLosesChild(m)

TurnStep(m) ==
    \/ ChildStarted(m) \/ StartFails(m) \/ Initialized(m) \/ ThreadStarted(m) \/ Enumerated(m)
    \/ TurnStarted(m) \/ TurnCompletes(m) \/ TurnRefused(m) \/ TurnFails(m) \/ Closed(m)

ExecuteStep(m) == SteerStep(m) \/ LockGranted(m) \/ TurnStep(m)

DispatchStep(g) == DispatchResponse(g) \/ DispatchNotification(g)

ChildStep(g) ==
    \/ HandlesInitialize(g) \/ HandlesInitialized(g) \/ HandlesThreadStart(g)
    \/ HandlesTurnStart(g) \/ HandlesSteer(g) \/ HandlesInterrupt(g)
    \/ \E t \in Messages, kind \in {"delta", "end", "error"} : TurnReports(g, t, kind)
    \/ ChildHangs(g) \/ ChildDies(g)

Next ==
    \/ \E m \in Messages : Arrive(m) \/ ExecuteStep(m)
    \/ Cancel \/ Shutdown \/ ShutdownReturns
    \/ \E g \in Messages : DispatchStep(g) \/ ChildStep(g)

Spec == Init /\ [][Next]_vars

\* Two waits have no timer: for a line to be written (the write lock and drain())
\* and for stdin to close (wait_closed()).  With a hung child that left its pipe full
\* either lasts for ever; initialize() is written under the timer of the handshake.
Waits(m) ==
    /\ pc[m] \in {"threading", "turnStart", "steering", "closing"}
    /\ child[on[m]] = "hung"

\* The event loop runs what can run, and every other wait in execute() has a
\* timer: responses, the handshake, the turn's watchdog, the grace period of
\* close().  Nothing is assumed of the child.
Fairness == \A m \in Messages : WF_vars(ExecuteStep(m) /\ ~Waits(m))

FairSpec == Spec /\ Fairness
-----------------------------------------------------------------------------
(* Types.                                                                  *)

TurnStages == {"starting", "init", "threading", "mcp", "turnStart", "turn", "closing"}
Stages     == TurnStages \cup {"idle", "queued", "steering", "done"}
Results    == {"none", "ok", "error", "noId"}

Request == [kind : RequestStages \cup {"initialized", "interrupt"}, from : NoneOr,
            thread : NoneOr, turn : NoneOr]
Line    == [kind : {"response", "delta", "end", "error"}, from : Messages,
            stage : RequestStages \cup {"none"}, result : Results]

\* Types of the state of executor.py and of its environment; an execute() that
\* awaits a response talks to a child that was started.
TypeOK ==
    /\ {appServer, threadId, currentTurn, holder, sub} \subseteq NoneOr
    /\ inventory \in BOOLEAN
    /\ lockQ \in Seq(Messages)
    /\ pc \in [Messages -> Stages]
    /\ on \in [Messages -> NoneOr]
    /\ got \in [Messages -> Results]
    /\ \A m \in Messages : pc[m] \in RequestStages =>
          on[m] # 0 /\ child[on[m]] # "none"
    /\ state \in [completed : BOOLEAN, error : BOOLEAN, turn : NoneOr]
    /\ shut \in [pc : {"idle", "closing", "done"}, child : NoneOr, turn : NoneOr]
    /\ child \in [Messages -> {"none", "up", "hung", "dead", "closed"}]
    /\ inited \subseteq Messages
    /\ reqQ \in [Messages -> Seq(Request)]
    /\ wire \in [Messages -> Seq(Line)]
    /\ active \in [Messages -> SUBSET Messages]
    /\ inputs \in [Messages -> SUBSET Messages]
    /\ seen \in [Messages -> SUBSET Messages]
    /\ order \in Seq(Messages)
    /\ failed \subseteq Messages /\ late \subseteq Messages
    /\ reply \in [Messages -> {"none", "text", "error", "placeholder", "raised"}]

-----------------------------------------------------------------------------
(* Safety.                                                                 *)

\* A reply is put together from the notifications of the message's own turn
\* (on_notification appends to the _TurnState of whoever holds _turn_lock).
OwnTurnOnly == \A m \in Messages : seen[m] \subseteq {m}

\* _turn_lock keeps the turns on a thread apart: the child never runs two.
TurnExclusive == \A g \in Messages : Cardinality(active[g]) <= 1

\* A message whose sender got a reply text or the steering placeholder has
\* been given to a turn: execute() never answers for a message it dropped.  And
\* no message is given to two turns, unless its turn/steer timed out while the
\* child was still going to accept it (the fall-through after turn/steer).
ProcessedOnce ==
    \A m \in Messages :
        LET turns == {t \in Messages : m \in inputs[t]}
        IN  /\ reply[m] \in {"text", "placeholder"} => turns # {}
            /\ m \notin late => Cardinality(turns) <= 1

\* The cached child, thread and turn fit together: a thread id belongs to the
\* cached child, so no turn starts on a thread of a child that was reset, and
\* what cancel() and turn/steer aim at is the turn of the lock's holder on that
\* child (_current_turn_id is cleared on every way out of the turn).
SteerTarget ==
    /\ threadId # 0 => threadId = appServer
    /\ currentTurn # 0 => /\ holder = currentTurn /\ pc[holder] = "turn"
                          /\ appServer = on[holder]
                          /\ threadId # 0

Uses == {"threading", "turnStart", "steering", "interrupt"}

\* initialize() and its `initialized` notification come before any other
\* request to a child (the contract of AppServerProcess.initialize()).
InitBeforeUse ==
    \A g \in Messages : \A k \in DOMAIN reqQ[g] :
        reqQ[g][k].kind \in Uses =>
            g \in inited \/ \E j \in 1 .. k : reqQ[g][j].kind = "initialized"

NoNewRequest(g) == Len(reqQ'[g]) <= Len(reqQ[g])

\* A child on which a turn timed out or was lost gets no further request: the
\* next turn starts on a fresh one (_reset_app_server()).
FreshAfterFailure == [][\A g \in failed : NoNewRequest(g)]_vars

-----------------------------------------------------------------------------
(* Liveness.                                                               *)

Ends(m) == pc[m] # "idle" ~> pc[m] = "done"

\* Every execute() ends, whatever the child does, unless one of them waits for
\* ever to write to a hung child or to close its stdin: every other wait under
\* _turn_lock ends by a timer, so no message waits for ever behind a wedged turn.
EveryMessageEnds ==
    []<>(\A m \in Messages : ~Waits(m)) => \A m \in Messages : Ends(m)

-----------------------------------------------------------------------------
(* Claims that the executor does not keep.                                 *)

\* Messages reach a turn in the order they arrived (module docstring).
ArrivalOrder ==
    \A i, j \in 1 .. N : i < j /\ j \in DOMAIN order => order[i] <= order[j]

\* Every execute() answers its sender: a turn/steer that fails falls through
\* to a turn of its own (comment on the exceptions of turn/steer).
AllAnswered == \A m \in Messages : reply[m] # "raised"

\* Once shutdown() has returned, the turn it found running has no child left.
ShutdownStopsChild ==
    shut.pc = "done" /\ shut.turn # 0 => child[shut.turn] # "up"

\* A turn whose child hangs fails by its timers, and the next one starts on a
\* fresh child (comments on the timeouts of execute() and _ensure_thread()).
HungChildIsReplaced == \A m \in Messages : Ends(m)
=============================================================================
