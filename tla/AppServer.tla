----------------------------- MODULE AppServer -----------------------------
(***************************************************************************)
(* The JSON-RPC client of `codex app-server` (app_server.py): one child    *)
(* process, a reader task that routes its stdout, a watcher task that      *)
(* reaps it, any number of coroutines that call request(), notify() and    *)
(* close(), and the replies to requests the child makes itself.            *)
(*                                                                         *)
(* asyncio runs one coroutine at a time and switches only at an await that *)
(* really suspends, so an action is the code between two suspensions.  An  *)
(* asyncio.Lock that is free and a drain() below the high-water mark do    *)
(* not suspend.                                                            *)
(*                                                                         *)
(* Data is abstract: a line is a record of its kind and the id it carries; *)
(* the pipe holds PipeCap lines, the rest wait in the transport's buffer,  *)
(* and drain() and a graceful stdin close wait until that buffer is empty. *)
(*                                                                         *)
(* X_Suffix is what a plausible bug would make of X; nothing uses it.      *)
(***************************************************************************)
EXTENDS Naturals, Sequences, FiniteSets

CONSTANTS
    Callers,      \* coroutines that call request() and notify()
    Subs,         \* notification callbacks
    Inbounds,     \* requests the child may make of the client
    MaxRequests,  \* bound: requests issued in a behaviour
    MaxOut,       \* bound: lines the child writes in a behaviour
    OwnCalls,     \* bound: which of request() and notify() the callers use
    ChildLines,   \* bound: the kinds of line the child writes
    PipeCap,      \* lines the stdin pipe holds before drain() suspends
    MayHang       \* whether the child may stop reading and writing

OwnBodies == {"request", "notify"}
Answers   == {"ok", "rpcError"}
Methods   == {"elicitation", "other"}
Lines     == Answers \cup Methods \cup {"note", "junk", "fatal"}

ASSUME AppServerAssumption ==
    /\ MaxRequests \in Nat
    /\ MaxOut \in Nat
    /\ OwnCalls \subseteq OwnBodies
    /\ ChildLines \subseteq Lines
    /\ PipeCap \in Nat
    /\ MayHang \in BOOLEAN
    /\ Callers \cap Inbounds = {}

VARIABLES
    closed,      \* _closed
    dead,        \* _reader_exc: the first cause, "none" while it is None
    nextId,      \* _next_id
    pending,     \* the keys of _pending
    fut,         \* the future created for each request id
    subs,        \* _subscribers
    handlers,    \* the keys of _inbound_handlers
    holder,      \* who holds _write_lock: {} or one writer
    lockQ,       \* writers waiting for _write_lock, first come first served
    pc,          \* where each writer's coroutine is suspended
    body,        \* what each writer sends
    rid,         \* the request id of each caller, 0 for a notification
    reader,      \* _reader_task
    watcher,     \* _watcher_task
    closePc,     \* where close() is suspended
    stdin,       \* the stdin transport: open, closing (unflushed), lost
    stdinQ,      \* lines written to stdin and not yet read by the child
    stdoutQ,     \* lines the child wrote and the reader has not taken
    stdoutOpen,  \* whether the child still holds its stdout
    child,       \* the child process
    seen,        \* request ids the child has read
    asked,       \* inbound requests the child has made
    sent,        \* lines the child has written
    outcome,     \* history: what each request() call returned or raised
    firstOut,    \* history: the first answer the child wrote to each id
    replies,     \* history: replies to each inbound request the child read
    heard        \* history: serial of the last notification each sub heard

session  == <<closed, dead, nextId, pending, fut>>
registry == <<subs, handlers>>
lock     == <<holder, lockQ>>
coros    == <<pc, body, rid>>
tasks    == <<reader, watcher, closePc>>
pipes    == <<stdin, stdinQ, stdoutQ, stdoutOpen>>
peer     == <<child, seen, asked, sent>>
history  == <<outcome, firstOut, replies, heard>>

vars == <<session, registry, lock, coros, tasks, pipes, peer, history>>

Writers == Callers \cup Inbounds
Ids     == 1 .. MaxRequests

ReplyBodies == {"accept", "decline", "result", "error"}
Bodies      == OwnBodies \cup ReplyBodies
Settled     == Answers \cup {"connError", "cancelled"}

FirstId_Zero == 0
FirstId == 1

Init ==
    /\ closed = FALSE /\ dead = "none" /\ nextId = FirstId /\ pending = {}
    /\ fut = [i \in Ids |-> "none"]
    /\ subs = {} /\ handlers = {}
    /\ holder = {} /\ lockQ = <<>>
    /\ pc = [w \in Writers |-> "idle"]
    /\ body = [w \in Writers |-> "notify"]
    /\ rid = [c \in Callers |-> 0]
    /\ reader = "running" /\ watcher = "running" /\ closePc = "none"
    /\ stdin = "open" /\ stdinQ = <<>> /\ stdoutQ = <<>> /\ stdoutOpen = TRUE
    /\ child = "up" /\ seen = {} /\ asked = {} /\ sent = 0
    /\ outcome = [i \in Ids |-> "none"]
    /\ firstOut = [i \in Ids |-> "none"]
    /\ replies = [i \in Inbounds |-> 0]
    /\ heard = [s \in Subs |-> 0]

-----------------------------------------------------------------------------
(* _write_message: the closing check, the lock, write(), drain().          *)

MessageOf(w) == [body |-> body[w], id |-> IF w \in Callers THEN rid[w] ELSE w]

\* The first suspension a writer that starts now runs into.
WriteStage ==
    IF stdin # "open" THEN "raised"
    ELSE IF holder # {} \/ lockQ # <<>> THEN "lock"
    ELSE IF Len(stdinQ) < PipeCap THEN "written"
    ELSE "drain"

Send(w, m) ==
    /\ stdinQ' = IF WriteStage \in {"written", "drain"}
                 THEN Append(stdinQ, m) ELSE stdinQ
    /\ holder' = IF WriteStage = "drain" THEN {w} ELSE holder
    /\ lockQ'  = IF WriteStage = "lock" THEN Append(lockQ, w) ELSE lockQ

\* Where a coroutine goes on once _write_message has returned or raised.
\* The task of an inbound reply ends; a handler that raised while sending
\* its result tries to send an error instead.
AfterWrite_ErrorToo(b) == CASE b = "request" -> "wait"
                            [] b = "notify"  -> "idle"
                            [] b = "result"  -> "reply"
                            [] OTHER         -> "done"
AfterWrite(b) == CASE b = "request" -> "wait"
                   [] b = "notify"  -> "idle"
                   [] OTHER         -> "done"
AfterRaise(b) == CASE b \in OwnBodies -> "idle"
                   [] b = "result"    -> "reply"
                   [] OTHER           -> "done"
AfterStage(b, stage) == CASE stage = "written" -> AfterWrite(b)
                          [] stage = "raised"  -> AfterRaise(b)
                          [] OTHER             -> stage

-----------------------------------------------------------------------------
(* request(), notify() and their callers.                                  *)

FailFast == closed \/ dead # "none"

\* _pending once the `finally` of the request with id i has run.
Popped_All(i) == {}
Popped_Never(i) == pending
Popped(i) == pending \ {i}

\* The second _reader_exc check of request() follows the first without a
\* suspension in between, so it never differs from it.
Request(c) ==
    /\ "request" \in OwnCalls
    /\ pc[c] = "idle"
    /\ ~FailFast
    /\ nextId \in Ids
    /\ nextId' = nextId + 1
    /\ fut' = [fut EXCEPT ![nextId] = "waiting"]
    /\ pending' = IF WriteStage = "raised" THEN pending
                  ELSE pending \cup {nextId}
    /\ rid' = [rid EXCEPT ![c] = nextId]
    /\ body' = [body EXCEPT ![c] = "request"]
    /\ pc' = [pc EXCEPT ![c] = AfterStage("request", WriteStage)]
    /\ outcome' = [outcome EXCEPT ![nextId] =
                     IF WriteStage = "raised" THEN "connError" ELSE @]
    /\ Send(c, [body |-> "request", id |-> nextId])
    /\ UNCHANGED <<closed, dead, registry, tasks, stdin, stdoutQ, stdoutOpen,
                   peer, firstOut, replies, heard>>

\* Bound on cancelled notifications piling up on a pipe nobody reads.
StdinBound == PipeCap + 1

Notify(c) ==
    /\ "notify" \in OwnCalls
    /\ Len(stdinQ) < StdinBound
    /\ pc[c] = "idle"
    /\ ~FailFast
    /\ rid' = [rid EXCEPT ![c] = 0]
    /\ body' = [body EXCEPT ![c] = "notify"]
    /\ pc' = [pc EXCEPT ![c] = AfterStage("notify", WriteStage)]
    /\ Send(c, [body |-> "notify", id |-> 0])
    /\ UNCHANGED <<session, registry, tasks, stdin, stdoutQ, stdoutOpen, peer,
                   history>>

\* _write_lock.acquire() of the first waiter returns; write() drops the line
\* silently when the transport is closing.
LockGranted(w) ==
    /\ pc[w] = "lock"
    /\ holder = {} /\ lockQ # <<>> /\ Head(lockQ) = w
    /\ lockQ' = Tail(lockQ)
    /\ stdinQ' = IF stdin = "open" THEN Append(stdinQ, MessageOf(w)) ELSE stdinQ
    /\ LET fits == stdin = "open" /\ Len(stdinQ) < PipeCap
       IN  /\ holder' = IF fits THEN {} ELSE {w}
           /\ pc' = [pc EXCEPT ![w] =
                       IF fits THEN AfterWrite(body[w]) ELSE "drain"]
    /\ UNCHANGED <<session, registry, body, rid, tasks, stdin, stdoutQ,
                   stdoutOpen, peer, history>>

\* The buffer fell below the mark; the waiter may have been woken before the
\* transport was lost.
DrainReturns_KeepsLock(w) ==
    /\ pc[w] = "drain"
    /\ Len(stdinQ) <= PipeCap
    /\ pc' = [pc EXCEPT ![w] = AfterWrite(body[w])]
    /\ UNCHANGED <<session, registry, lock, body, rid, tasks, pipes, peer, history>>
DrainReturns(w) ==
    /\ pc[w] = "drain"
    /\ Len(stdinQ) <= PipeCap
    /\ holder' = {}
    /\ pc' = [pc EXCEPT ![w] = AfterWrite(body[w])]
    /\ UNCHANGED <<session, registry, lockQ, body, rid, tasks, pipes, peer,
                   history>>

DrainRaises(w) ==
    /\ pc[w] = "drain"
    /\ stdin = "lost"
    /\ holder' = {}
    /\ pc' = [pc EXCEPT ![w] = AfterRaise(body[w])]
    /\ IF w \in Callers /\ body[w] = "request"
       THEN /\ pending' = Popped(rid[w])
            /\ outcome' = [outcome EXCEPT ![rid[w]] = "connError"]
       ELSE UNCHANGED <<pending, outcome>>
    /\ UNCHANGED <<closed, dead, nextId, fut, registry, lockQ, body, rid, tasks,
                   pipes, peer, firstOut, replies, heard>>

\* The timer of wait_for() covers only the wait for the future.
Timeout_Dropped(c) == FALSE
Timeout(c) ==
    /\ pc[c] = "wait"
    /\ fut[rid[c]] = "waiting"
    /\ fut' = [fut EXCEPT ![rid[c]] = "cancelled"]
    /\ UNCHANGED <<closed, dead, nextId, pending, registry, lock, coros, tasks,
                   pipes, peer, history>>

\* wait_for() hands the settled future to its caller.
Resume(c) ==
    /\ pc[c] = "wait"
    /\ fut[rid[c]] \in Settled
    /\ pending' = Popped(rid[c])
    /\ outcome' = [outcome EXCEPT ![rid[c]] =
                     IF fut[rid[c]] = "cancelled" THEN "timeout" ELSE fut[rid[c]]]
    /\ pc' = [pc EXCEPT ![c] = "idle"]
    /\ UNCHANGED <<closed, dead, nextId, fut, registry, lock, body, rid, tasks,
                   pipes, peer, firstOut, replies, heard>>

\* The caller is cancelled from outside (the wait_for() that the executor puts
\* around initialize(), a cancelled A2A task): it leaves the lock's queue or
\* releases the lock, cancels its future, and `finally` pops the id.  Once the
\* future is done, wait_for() returns its result all the same: Resume.
CallerCancelled(c) ==
    /\ \/ pc[c] \in {"lock", "drain"}
       \/ pc[c] = "wait" /\ fut[rid[c]] = "waiting"
    /\ pc' = [pc EXCEPT ![c] = "idle"]
    /\ \/ /\ pc[c] = "lock"
          /\ \E k \in DOMAIN lockQ :
                /\ lockQ[k] = c
                /\ lockQ' = SubSeq(lockQ, 1, k - 1) \o SubSeq(lockQ, k + 1, Len(lockQ))
          /\ UNCHANGED holder
       \/ /\ pc[c] # "lock"
          /\ holder' = holder \ {c}
          /\ UNCHANGED lockQ
    /\ IF body[c] = "request"
       THEN /\ pending' = Popped(rid[c])
            /\ fut' = [fut EXCEPT ![rid[c]] =
                         IF pc[c] = "wait" THEN "cancelled" ELSE @]
            /\ outcome' = [outcome EXCEPT ![rid[c]] = "cancelled"]
       ELSE UNCHANGED <<pending, fut, outcome>>
    /\ UNCHANGED <<closed, dead, nextId, registry, body, rid, tasks, pipes, peer,
                   firstOut, replies, heard>>

Subscribe(s) ==
    /\ s \notin subs
    /\ subs' = subs \cup {s}
    /\ UNCHANGED <<session, handlers, lock, coros, tasks, pipes, peer, history>>

Unsubscribe(s) ==
    /\ s \in subs
    /\ subs' = subs \ {s}
    /\ UNCHANGED <<session, handlers, lock, coros, tasks, pipes, peer, history>>

SetInboundRequestHandler(m) ==
    /\ handlers' = IF m \in handlers THEN handlers \ {m} ELSE handlers \cup {m}
    /\ UNCHANGED <<session, subs, lock, coros, tasks, pipes, peer, history>>

-----------------------------------------------------------------------------
(* The reader and watcher tasks.                                           *)

\* The futures once every pending one that is not done has been failed.
PendingFailed_Cleared == fut
PendingFailed ==
    [i \in Ids |-> IF i \in pending /\ fut[i] = "waiting"
                   THEN "connError" ELSE fut[i]]

MarkDead_LastCause(cause) ==
    dead' = cause /\ fut' = PendingFailed /\ pending' = {} /\ UNCHANGED <<closed, nextId>>
MarkDead(cause) ==
    /\ dead' = IF dead = "none" THEN cause ELSE dead
    /\ fut' = PendingFailed
    /\ pending' = {}
    /\ UNCHANGED <<closed, nextId>>

NextLine(kinds) ==
    /\ reader = "running"
    /\ stdoutQ # <<>>
    /\ Head(stdoutQ).kind \in kinds
    /\ stdoutQ' = Tail(stdoutQ)

\* A response to an id that is unknown, or whose future is done, is dropped.
Answerable_Done(i) == i \in pending
Answerable(i) == i \in pending /\ fut[i] = "waiting"

DispatchResponse ==
    /\ NextLine(Answers)
    /\ LET m == Head(stdoutQ)
       IN  fut' = IF Answerable(m.id) THEN [fut EXCEPT ![m.id] = m.kind] ELSE fut
    /\ UNCHANGED <<closed, dead, nextId, pending, registry, lock, coros, tasks,
                   stdin, stdinQ, stdoutOpen, peer, history>>

DispatchNotification ==
    /\ NextLine({"note"})
    /\ heard' = [s \in Subs |-> IF s \in subs THEN Head(stdoutQ).id ELSE heard[s]]
    /\ UNCHANGED <<session, registry, lock, coros, tasks, stdin, stdinQ,
                   stdoutOpen, peer, outcome, firstOut, replies>>

\* A request of the child: its handler runs in a task of its own; without a
\* handler an elicitation is accepted and anything else declined.
DispatchInbound ==
    /\ NextLine(Methods)
    /\ LET m == Head(stdoutQ)
       IN  IF m.kind \in handlers
           THEN pc' = [pc EXCEPT ![m.id] = "handler"] /\ UNCHANGED body
           ELSE /\ pc' = [pc EXCEPT ![m.id] = "reply"]
                /\ body' = [body EXCEPT ![m.id] =
                              IF m.kind = "elicitation" THEN "accept" ELSE "decline"]
    /\ UNCHANGED <<session, registry, lock, rid, tasks, stdin, stdinQ, stdoutOpen,
                   peer, history>>

\* A line that is not JSON, or matches none of the three shapes, is logged.
SkipLine ==
    /\ NextLine({"junk"})
    /\ UNCHANGED <<session, registry, lock, coros, tasks, stdin, stdinQ,
                   stdoutOpen, peer, history>>

\* A line over the stream limit, or JSON that is no object, raises in the loop.
ReaderRaises ==
    /\ NextLine({"fatal"})
    /\ reader' = "finished"
    /\ MarkDead("raised")
    /\ UNCHANGED <<registry, lock, coros, watcher, closePc, stdin, stdinQ,
                   stdoutOpen, peer, history>>

ReaderEOF ==
    /\ reader = "running"
    /\ stdoutQ = <<>> /\ ~stdoutOpen
    /\ reader' = "finished"
    /\ MarkDead("eof")
    /\ UNCHANGED <<registry, lock, coros, watcher, closePc, pipes, peer, history>>

WatcherReaps ==
    /\ watcher = "running"
    /\ child = "exited"
    /\ watcher' = "finished"
    /\ IF closed THEN UNCHANGED session ELSE MarkDead("exited")
    /\ UNCHANGED <<registry, lock, coros, reader, closePc, pipes, peer, history>>

\* _run_inbound_handler: the awaited handler returned its result or raised.
HandlerEnds(i, b) ==
    /\ pc[i] = "handler"
    /\ body' = [body EXCEPT ![i] = b]
    /\ pc' = [pc EXCEPT ![i] = AfterStage(b, WriteStage)]
    /\ Send(i, [body |-> b, id |-> i])
    /\ UNCHANGED <<session, registry, rid, tasks, stdin, stdoutQ, stdoutOpen, peer,
                   history>>

\* The body of the reply that a task about to write will send.
NextBody(i) == IF body[i] = "result" THEN "error" ELSE body[i]

\* The task of a default reply starts, or a handler whose result could not be
\* written goes on to report that as an error.
Reply(i) ==
    /\ pc[i] = "reply"
    /\ body' = [body EXCEPT ![i] = NextBody(i)]
    /\ pc' = [pc EXCEPT ![i] = AfterStage(NextBody(i), WriteStage)]
    /\ Send(i, [body |-> NextBody(i), id |-> i])
    /\ UNCHANGED <<session, registry, rid, tasks, stdin, stdoutQ, stdoutOpen, peer,
                   history>>

-----------------------------------------------------------------------------
(* close()                                                                 *)

\* Cancel the tasks that are not done, fail what is pending.
CancelAndFail_KeepsReader ==
    /\ watcher' = IF watcher = "running" THEN "cancelled" ELSE watcher
    /\ fut' = PendingFailed /\ pending' = {} /\ closePc' = "reaping"
    /\ UNCHANGED reader
CancelAndFail ==
    /\ reader' = IF reader = "running" THEN "cancelled" ELSE reader
    /\ watcher' = IF watcher = "running" THEN "cancelled" ELSE watcher
    /\ fut' = PendingFailed
    /\ pending' = {}
    /\ closePc' = "reaping"

Close ==
    /\ ~closed
    /\ closed' = TRUE
    /\ IF stdin = "open"
       THEN /\ stdin' = "closing"
            /\ closePc' = "flushing"
            /\ UNCHANGED <<fut, pending, reader, watcher>>
       ELSE CancelAndFail /\ UNCHANGED stdin
    /\ UNCHANGED <<dead, nextId, registry, lock, coros, stdinQ, stdoutQ, stdoutOpen,
                   peer, history>>

\* `await stdin.wait_closed()` returns; nothing bounds that wait.
CloseFlushed ==
    /\ closePc = "flushing"
    /\ stdin = "lost"
    /\ CancelAndFail
    /\ UNCHANGED <<closed, dead, nextId, registry, lock, coros, pipes, peer, history>>

\* Five seconds passed: SIGKILL.
CloseKills_Never == FALSE
CloseKills ==
    /\ closePc = "reaping"
    /\ child # "exited"
    /\ child' = "exited"
    /\ stdoutOpen' = FALSE
    /\ UNCHANGED <<session, registry, lock, coros, tasks, stdin, stdinQ, stdoutQ,
                   seen, asked, sent, history>>

CloseReturns ==
    /\ closePc = "reaping"
    /\ child = "exited"
    /\ closePc' = "returned"
    /\ UNCHANGED <<session, registry, lock, coros, reader, watcher, pipes, peer,
                   history>>

-----------------------------------------------------------------------------
(* The stdin transport and the child process (external).                   *)

\* A graceful close completes when the transport's buffer is empty; a broken
\* pipe is noticed some time after the child is gone.
StdinLost ==
    /\ \/ stdin = "closing" /\ Len(stdinQ) <= PipeCap
       \/ stdin # "lost" /\ child = "exited"
    /\ stdin' = "lost"
    /\ UNCHANGED <<session, registry, lock, coros, tasks, stdinQ, stdoutQ,
                   stdoutOpen, peer, history>>

ChildReads ==
    /\ child = "up"
    /\ stdinQ # <<>>
    /\ stdinQ' = Tail(stdinQ)
    /\ LET m == Head(stdinQ)
       IN  /\ seen' = IF m.body = "request" THEN seen \cup {m.id} ELSE seen
           /\ replies' = [i \in Inbounds |->
                            IF m.body \in ReplyBodies /\ m.id = i
                            THEN replies[i] + 1 ELSE replies[i]]
    /\ UNCHANGED <<session, registry, lock, coros, tasks, stdin, stdoutQ,
                   stdoutOpen, child, asked, sent, outcome, firstOut, heard>>

Emit(kind, id) ==
    /\ child = "up" /\ stdoutOpen
    /\ kind \in ChildLines
    /\ sent < MaxOut
    /\ sent' = sent + 1
    /\ stdoutQ' = Append(stdoutQ, [kind |-> kind, id |-> id])
    /\ UNCHANGED <<session, registry, lock, coros, tasks, stdin, stdinQ, stdoutOpen,
                   child, seen, outcome, replies, heard>>

\* Late and duplicate answers included.
ChildAnswers(i, kind) ==
    /\ i \in seen
    /\ Emit(kind, i)
    /\ firstOut' = [firstOut EXCEPT ![i] = IF @ = "none" THEN kind ELSE @]
    /\ UNCHANGED asked

ChildNotifies ==
    /\ Emit("note", sent + 1)
    /\ UNCHANGED <<asked, firstOut>>

ChildAsks(i, method) ==
    /\ i \notin asked
    /\ Emit(method, i)
    /\ asked' = asked \cup {i}
    /\ UNCHANGED firstOut

ChildWritesOther(kind) ==
    /\ Emit(kind, 0)
    /\ UNCHANGED <<asked, firstOut>>

ChildClosesStdout ==
    /\ child = "up" /\ stdoutOpen
    /\ stdoutOpen' = FALSE
    /\ UNCHANGED <<session, registry, lock, coros, tasks, stdin, stdinQ, stdoutQ,
                   peer, history>>

ChildExits ==
    /\ child # "exited"
    /\ child' = "exited"
    /\ stdoutOpen' = FALSE
    /\ UNCHANGED <<session, registry, lock, coros, tasks, stdin, stdinQ, stdoutQ,
                   seen, asked, sent, history>>

ChildHangs ==
    /\ MayHang
    /\ child = "up"
    /\ child' = "hung"
    /\ UNCHANGED <<session, registry, lock, coros, tasks, pipes, seen, asked, sent,
                   history>>

-----------------------------------------------------------------------------
CallerStep(c) ==
    \/ Request(c) \/ Notify(c) \/ Timeout(c) \/ Resume(c) \/ CallerCancelled(c)

WriterStep(w) == LockGranted(w) \/ DrainReturns(w) \/ DrainRaises(w)

InboundStep(i) ==
    \/ Reply(i)
    \/ \E b \in {"result", "error"} : HandlerEnds(i, b)

RegistryStep ==
    \/ \E s \in Subs : Subscribe(s) \/ Unsubscribe(s)
    \/ \E m \in Methods \cap ChildLines : SetInboundRequestHandler(m)

ReaderStep ==
    \/ DispatchResponse \/ DispatchNotification \/ DispatchInbound
    \/ SkipLine \/ ReaderRaises \/ ReaderEOF

CloseStep == Close \/ CloseFlushed \/ CloseKills \/ CloseReturns

ChildStep ==
    \/ ChildReads
    \/ \E i \in Ids, kind \in Answers : ChildAnswers(i, kind)
    \/ ChildNotifies
    \/ \E i \in Inbounds, m \in Methods : ChildAsks(i, m)
    \/ \E kind \in {"junk", "fatal"} : ChildWritesOther(kind)
    \/ ChildClosesStdout \/ ChildExits \/ ChildHangs

Next ==
    \/ \E c \in Callers : CallerStep(c)
    \/ \E w \in Writers : WriterStep(w)
    \/ \E i \in Inbounds : InboundStep(i)
    \/ RegistryStep
    \/ ReaderStep
    \/ WatcherReaps
    \/ CloseStep
    \/ StdinLost
    \/ ChildStep

Spec == Init /\ [][Next]_vars

\* What the event loop and the timers guarantee: a coroutine that can go on
\* does, a timer that is not beaten fires.  Of the child only that, while it is
\* up, it reads its stdin.  Nobody has to call close() or request().
Fairness ==
    /\ \A c \in Callers : WF_vars(Timeout(c)) /\ WF_vars(Resume(c))
    /\ \A w \in Writers : WF_vars(WriterStep(w))
    /\ \A i \in Inbounds : WF_vars(InboundStep(i))
    /\ WF_vars(ReaderStep)
    /\ WF_vars(WatcherReaps)
    /\ WF_vars(CloseFlushed \/ CloseKills \/ CloseReturns)
    /\ WF_vars(StdinLost)
    /\ WF_vars(ChildReads)

FairSpec == Spec /\ Fairness

-----------------------------------------------------------------------------
MsgIds     == Nat \cup Inbounds
StdinMsgs  == [body : Bodies, id : MsgIds]
StdoutMsgs == {m \in [kind : Lines, id : MsgIds] :
                 /\ m.kind \in Answers => m.id \in Ids
                 /\ m.kind \in Methods => m.id \in Inbounds
                 /\ m.kind = "note" => m.id \in Nat}

FutStates == {"none", "waiting"} \cup Settled
PcStates  == {"idle", "handler", "reply", "lock", "drain", "wait", "done"}

FlagType == closed \in BOOLEAN /\ stdoutOpen \in BOOLEAN

SessionType ==
    /\ dead \in {"none", "raised", "eof", "exited"}
    /\ nextId \in 1 .. MaxRequests + 1
    /\ pending \in SUBSET Ids
    /\ fut \in [Ids -> FutStates]

RegistryType ==
    /\ subs \in SUBSET Subs
    /\ handlers \in SUBSET Methods

CoroutineType ==
    /\ holder \in SUBSET Writers
    /\ lockQ \in Seq(Writers)
    /\ pc \in [Writers -> PcStates]
    /\ body \in [Writers -> Bodies]
    /\ rid \in [Callers -> 0 .. MaxRequests]
    /\ reader \in {"running", "finished", "cancelled"}
    /\ watcher \in {"running", "finished", "cancelled"}
    /\ closePc \in {"none", "flushing", "reaping", "returned"}

PipeType ==
    /\ stdin \in {"open", "closing", "lost"}
    /\ stdinQ \in Seq(StdinMsgs)
    /\ stdoutQ \in Seq(StdoutMsgs)

PeerType ==
    /\ child \in {"up", "hung", "exited"}
    /\ seen \in SUBSET MsgIds
    /\ asked \in SUBSET Inbounds
    /\ sent \in Nat

HistoryType ==
    /\ outcome \in [Ids -> {"none", "timeout"} \cup Settled]
    /\ firstOut \in [Ids -> {"none"} \cup Answers]
    /\ replies \in [Inbounds -> Nat]
    /\ heard \in [Subs -> Nat]

DataType ==
    /\ SessionType /\ RegistryType /\ CoroutineType
    /\ PipeType /\ PeerType /\ HistoryType

\* The type of every variable.
TypeOK == FlagType /\ DataType

-----------------------------------------------------------------------------
(* What the channel promises.                                              *)

\* Caller c is inside request(), between registering its id and `finally`.
InRequest(c) == body[c] = "request" /\ pc[c] \in {"lock", "drain", "wait"}

\* close() is past its failing of the pending requests.
CloseFailedPending == closePc \in {"reaping", "returned"}

\* No orphan: a future that request() still counts on and that is not done is
\* in _pending, where the reader, _mark_dead and close() can find it.
NoOrphanWaiter ==
    \A c \in Callers :
        InRequest(c) /\ fut[rid[c]] = "waiting" => rid[c] \in pending

\* Once the channel is dead, or close() is past its failing of the pending
\* requests, no request() counts on an undone future: the next time its
\* coroutine runs it gets its answer or an error (app_server.py:49-53).
DeadChannelSettles ==
    dead # "none" \/ CloseFailedPending =>
        \A c \in Callers : InRequest(c) => fut[rid[c]] # "waiting"

\* _pending does not leak: each of its keys belongs to exactly one request()
\* call that will pop it, however that call ends.
PendingHasOwner ==
    \A i \in pending :
        Cardinality({c \in Callers : InRequest(c) /\ rid[c] = i}) = 1

\* request() returns or raises what the child first answered to its own id,
\* whatever late or duplicate answers follow, also to reused callers.
FirstAnswerWins ==
    \A i \in Ids : outcome[i] \in Answers => outcome[i] = firstOut[i]

\* A ConnectionError means that the channel is gone for good: no caller is
\* told so while a later request could still succeed.
ConnErrorMeansGone ==
    (\E i \in Ids : outcome[i] = "connError") => FailFast \/ stdin = "lost"

\* A request of the child gets at most one reply, result or error, even when
\* the handler's result could not be written.
InboundRepliedOnce ==
    \A i \in Inbounds :
        replies[i] + Cardinality({k \in DOMAIN stdinQ :
                        stdinQ[k].body \in ReplyBodies /\ stdinQ[k].id = i}) <= 1

\* A future is settled once, and the first cause of death is the one kept, so
\* a late answer, a timer, _mark_dead and close() cannot overrule each other.
SettledOnce ==
    [][/\ \A i \in Ids : fut[i] \in Settled => fut'[i] = fut[i]
       /\ dead # "none" => dead' = dead]_vars

\* When close() has failed the pending requests, the tasks of this object have
\* no effect any more: no subscriber is called, no inbound task is started, no
\* cause of death is recorded.
SilentAfterClose ==
    [][CloseFailedPending =>
          /\ heard' = heard
          /\ dead' = dead
          /\ \A i \in Inbounds : pc[i] = "idle" => pc'[i] = "idle"]_vars

\* Why these hold: the inductive invariant behind the safety properties.  The
\* ids of the requests in flight are allocated, distinct and, while their
\* future is not done, pending; nothing is pending once the channel is dead or
\* failed by close(); a ConnectionError is only set by these two.
InFlightIds ==
    /\ \A c \in Callers : pc[c] = "wait" => body[c] = "request"
    /\ \A c \in Callers : InRequest(c) => rid[c] \in Ids /\ rid[c] < nextId
    /\ \A c, d \in Callers :
          InRequest(c) /\ InRequest(d) /\ rid[c] = rid[d] => c = d
    /\ \A i \in Ids : i >= nextId => fut[i] = "none"

PendingOwned == \A i \in pending : \E c \in Callers : InRequest(c) /\ rid[c] = i

GoneIsFinal ==
    /\ dead # "none" \/ CloseFailedPending => pending = {}
    /\ closePc # "none" \/ stdin = "closing" => closed
    /\ \A i \in Ids : fut[i] = "connError" => FailFast
    /\ \A i \in Ids : outcome[i] = "connError" => FailFast \/ stdin = "lost"

SessionInv == InFlightIds /\ PendingOwned /\ NoOrphanWaiter /\ GoneIsFinal

\* Every wait for a response ends: the child answers, the channel dies, or the
\* timer fires, also when the child hangs.
WaitsEnd == \A c \in Callers : pc[c] = "wait" ~> pc[c] = "idle"

Hung == child = "hung"

\* Every request() and notify() returns, and every request of the child that the
\* reader took gets its reply or ends with the channel, as long as the child
\* reads its stdin until it exits.
CallsReturn ==
    /\ \A c \in Callers : pc[c] # "idle" ~> pc[c] = "idle" \/ Hung
    /\ \A i \in Inbounds : pc[i] # "idle" ~> pc[i] = "done" \/ Hung

\* close() ends with the child reaped (app_server.py:71-73), as long as the
\* child reads its stdin until then: nothing bounds wait_closed().
CloseEnds == closed ~> closePc = "returned" \/ Hung

\* Every request() still out when the channel is dead ends, never a silent
\* infinite wait (app_server.py:49-51).
DeadReleasesCallers ==
    \A c \in Callers : InRequest(c) /\ dead # "none" ~> ~InRequest(c)

-----------------------------------------------------------------------------
(* The abstract specification of request() and how this module implements  *)
(* it: a call is open from the allocation of its id to its outcome.        *)

CallOf(i) == IF outcome[i] # "none" THEN outcome[i]
             ELSE IF i < nextId THEN "open" ELSE "new"

Rpc == INSTANCE OneShotRpc
           WITH call     <- [i \in Ids |-> CallOf(i)],
                answered <- firstOut,
                gone     <- FailFast \/ stdin = "lost"

\* Whatever late, duplicate or missing answers, timers, cancellations, deaths
\* and close() do, each request() ends once, with the first answer the child
\* wrote to its own id, or without one; with a ConnectionError only when the
\* channel is gone for good, and no request() opens after that.
ImplementsRpc == Rpc!Spec
=============================================================================
