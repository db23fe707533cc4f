-------------------------- MODULE TurnEventsProofs --------------------------
(***************************************************************************)
(* Theorems about TurnEvents, for any servers, tools, texts and bounds:    *)
(* whichever way an enumeration ends, no server is left behind it; a call  *)
(* leaves one row; a turn publishes nothing that no server and no call of  *)
(* its own stands for; and every message is whole in the reply.            *)
(***************************************************************************)
EXTENDS TurnEvents, FiniteSetTheorems, TLAPS

Waits == {"initialize", "tools"}

\* A server is being asked exactly while the enumeration waits for it, and no
\* other process is alive.
StageInv ==
    /\ pc \in {"idle", "spawn", "initialize", "tools", "reap", "run"}
    /\ todo \subseteq Servers
    /\ proc \in [Servers -> {"none", "alive", "killed", "gone"}]
    /\ pc \in Waits \cup {"reap"} => \E s \in Servers : asked = {s}
    /\ pc \notin Waits \cup {"reap"} => asked = {}
    /\ NoServerLeft

\* The rows a call has left, once the CLI has reported this much of it.
Rows(schema, stage) ==
    IF stage = "ended" \/ (stage = "begun" /\ schema = "v72") THEN 1 ELSE 0

Shape(r, fields) == r = [f \in fields |-> r[f]]

Records ==
    /\ Shape(state, {"deltas", "completed", "error", "tools"})
    /\ Shape(agent, {"text", "left", "said", "done", "schema", "calls"})
    /\ agent.schema \in {"v130", "v72"}
    /\ agent.calls \in [Calls -> {"none", "begun", "ended"}]

RowsInv ==
    /\ Records
    /\ emitted \in [Calls -> Nat]
    /\ pc = "run" => \A c \in Calls : emitted[c] = Rows(agent.schema, agent.calls[c])

\* Where ids come from: the answers of the server being asked, those already
\* found, and the calls of the turn.
Ended == {c \in Ids : agent.calls[c] = "ended"}

SourceInv ==
    /\ pipe \in Seq(ServerLines)
    /\ pc \notin Waits => pipe = <<>>
    /\ \A k \in 1 .. Len(pipe) : \A t \in pipe[k].tools : <<Asked, t>> \in advertised
    /\ found \subseteq advertised
    /\ cache \subseteq advertised
    /\ pc = "run" => state.tools \subseteq advertised \cup Ended

-----------------------------------------------------------------------------
(* The servers.                                                            *)

LEMMA InitStage == Init => StageInv
BY DEF Init, StageInv, NoServerLeft, Waits

LEMMA AskedIs == \A s \in Servers : asked = {s} => Asked = s
BY DEF Asked

\* The steps that leave the enumeration alone, or begin or end a turn.
LEMMA TurnStage ==
    ASSUME StageInv,
           \/ TurnBegins \/ TurnEnds \/ Speaks \/ Delta \/ Whole \/ StreamedOnly
           \/ TurnCompleted \/ Error \/ UNCHANGED vars
           \/ \E c \in Calls : CallStarts(c) \/ CallEnds(c)
    PROVE  StageInv'
<1>1. CASE TurnBegins
  BY <1>1, EventsAssumption
     DEF TurnBegins, TurnRuns, StageInv, NoServerLeft, Waits, inventory, turn
<1>2. CASE TurnEnds
  BY <1>2 DEF TurnEnds, StageInv, NoServerLeft, Waits, inventory
<1>3. ASSUME UNCHANGED <<pc, todo, asked, proc>> PROVE StageInv'
  BY <1>3 DEF StageInv, NoServerLeft, Waits
<1>4. CASE \/ Speaks \/ Delta \/ Whole \/ StreamedOnly \/ TurnCompleted \/ Error
           \/ \E c \in Calls : CallStarts(c) \/ CallEnds(c)
  BY <1>3, <1>4, Zenon DEF Speaks, Delta, Whole, StreamedOnly, TurnCompleted, Completed,
     Error,
                           CallStarts, CallEnds, Notified, inventory
<1>5. CASE UNCHANGED vars
  BY <1>3, <1>5 DEF vars, inventory
<1> QED
  BY <1>1, <1>2, <1>4, <1>5

LEMMA EndsStage ==
    ASSUME StageInv, NEW tools, Ends(tools), pc \in Waits PROVE StageInv'
<1>1. PICK s \in Servers : asked = {s} /\ Asked = s
  BY AskedIs DEF StageInv
<1>2. asked' = {s} /\ pc' = "reap" /\ todo' = todo /\ proc' = Killed(s)
  BY <1>1 DEF Ends
<1>3. proc' \in [Servers -> {"none", "alive", "killed", "gone"}]
      /\ \A r \in Servers : proc'[r] # "alive"
  BY <1>1, <1>2 DEF StageInv, NoServerLeft, Killed
<1> QED
  BY <1>2, <1>3 DEF StageInv, NoServerLeft, Waits

LEMMA EnumerationStage ==
    ASSUME StageInv, SpawnStep \/ Takes \/ Deadline \/ EndOfFile \/ Reaped \/ Cancelled
    PROVE  StageInv'
<1>1. ASSUME NEW s \in Servers, Spawns(s) PROVE StageInv'
  BY <1>1 DEF Spawns, StageInv, NoServerLeft, Waits
<1>2. ASSUME NEW s \in Servers, SpawnFails(s) PROVE StageInv'
  BY <1>2 DEF SpawnFails, TurnRuns, StageInv, NoServerLeft, Waits
<1>3. CASE Takes
  <2>1. CASE \E tools : Ends(tools)
    BY <1>3, <2>1, EndsStage DEF Takes, Waits
  <2>2. CASE pc' \in Waits /\ UNCHANGED <<todo, asked, proc>>
    BY <1>3, <2>2 DEF Takes, StageInv, NoServerLeft, Waits
  <2> QED
    BY <1>3, <2>1, <2>2 DEF Takes, Waits
<1>4. CASE Deadline \/ EndOfFile
  BY <1>4, EndsStage DEF Deadline, EndOfFile, Waits
<1>5. CASE Reaped
  <2>1. PICK s \in Servers : asked = {s} /\ Asked = s
    BY <1>5, AskedIs DEF Reaped, StageInv
  <2>2. proc' \in [Servers -> {"none", "alive", "killed", "gone"}]
        /\ \A r \in Servers : proc'[r] # "alive"
    BY <1>5, <2>1 DEF Reaped, StageInv, NoServerLeft, Waits
  <2>3. asked' = {} /\ todo' = todo /\ pc' \in {"spawn", "run"}
    BY <1>5 DEF Reaped, NextServer, TurnRuns
  <2> QED
    BY <2>2, <2>3 DEF StageInv, NoServerLeft, Waits
<1>6. CASE Cancelled
  <2>1. \A s \in Servers : proc[s] = "alive" => asked = {s} /\ Asked = s
    BY AskedIs DEF StageInv, NoServerLeft
  <2>2. proc' \in [Servers -> {"none", "alive", "killed", "gone"}]
        /\ \A r \in Servers : proc'[r] # "alive"
    <3>1. CASE asked = {}
      BY <1>6, <2>1, <3>1 DEF Cancelled, StageInv
    <3>2. CASE asked # {}
      BY <1>6, <2>1, <3>2 DEF Cancelled, StageInv, Killed
    <3> QED
      BY <3>1, <3>2
  <2> QED
    BY <1>6, <2>2 DEF Cancelled, StageInv, NoServerLeft, Waits
<1> QED
  BY <1>1, <1>2, <1>3, <1>4, <1>5, <1>6 DEF SpawnStep

LEMMA ServerStage == ASSUME StageInv, ServerStep PROVE StageInv'
<1>1. CASE ServerWrites
  BY <1>1 DEF ServerWrites, StageInv, NoServerLeft, Waits
<1>2. CASE ServerExits
  BY <1>2 DEF ServerExits, StageInv, NoServerLeft, Waits
<1> QED
  BY <1>1, <1>2 DEF ServerStep

LEMMA NextStage == StageInv /\ [Next]_vars => StageInv'
BY TurnStage, EnumerationStage, ServerStage, Zenon DEF Next

\* No server that the inventory spawned runs on after its answer, its error, its
\* timeout or the cancellation of execute().
THEOREM ServersAreReaped == Spec => []NoServerLeft
<1>1. Spec => []StageInv
  BY InitStage, NextStage, PTL DEF Spec
<1>2. StageInv => NoServerLeft
  BY DEF StageInv
<1> QED
  BY <1>1, <1>2, PTL

-----------------------------------------------------------------------------
(* The rows of the log.                                                    *)

LEMMA NewAgentShape ==
    /\ Shape(NewAgent, {"text", "left", "said", "done", "schema", "calls"})
    /\ NewAgent.schema = "v130"
    /\ NewAgent.calls = [c \in Calls |-> "none"]
BY DEF NewAgent, Shape

LEMMA SchemaSet ==
    ASSUME NEW r, Shape(r, {"text", "left", "said", "done", "schema", "calls"}),
           NEW schema, NEW a, a = [r EXCEPT !.schema = schema]
    PROVE  /\ Shape(a, {"text", "left", "said", "done", "schema", "calls"})
           /\ a.schema = schema
           /\ a.calls = r.calls
BY DEF Shape

LEMMA FreshAgent ==
    ASSUME NEW schema, NEW a, a = [NewAgent EXCEPT !.schema = schema]
    PROVE  /\ Shape(a, {"text", "left", "said", "done", "schema", "calls"})
           /\ a.schema = schema
           /\ a.calls = [c \in Calls |-> "none"]
<1>1. /\ Shape(a, {"text", "left", "said", "done", "schema", "calls"})
      /\ a.schema = schema
      /\ a.calls = NewAgent.calls
  BY NewAgentShape, SchemaSet
<1> QED
  BY <1>1, NewAgentShape

LEMMA FreshState ==
    ASSUME NEW tools, NEW s, s = [NewState EXCEPT !.tools = tools]
    PROVE  Shape(s, {"deltas", "completed", "error", "tools"}) /\ s.tools = tools
BY DEF NewState, Shape

LEMMA InitRows == Init => RowsInv
<1> SUFFICES ASSUME Init PROVE RowsInv
  OBVIOUS
<1>1. /\ state = NewState /\ agent = NewAgent /\ pc = "idle"
      /\ emitted = [c \in Calls |-> 0]
  BY DEF Init
<1>2. Shape(state, {"deltas", "completed", "error", "tools"})
  BY <1>1 DEF NewState, Shape
<1>3. agent.schema = "v130" /\ agent.calls = [c \in Calls |-> "none"]
      /\ Shape(agent, {"text", "left", "said", "done", "schema", "calls"})
  BY <1>1, NewAgentShape
<1> QED
  BY <1>1, <1>2, <1>3 DEF RowsInv, Records

LEMMA TurnRunsRows == ASSUME NEW tools, TurnRuns(tools) PROVE RowsInv'
<1>1. PICK schema \in {"v130", "v72"} : agent' = [NewAgent EXCEPT !.schema = schema]
  BY EventsAssumption DEF TurnRuns
<1>2. /\ Shape(agent', {"text", "left", "said", "done", "schema", "calls"})
      /\ agent'.schema = schema
      /\ agent'.calls = [c \in Calls |-> "none"]
  BY <1>1, FreshAgent
<1>3. Shape(state', {"deltas", "completed", "error", "tools"})
  BY FreshState DEF TurnRuns, Running
<1>4. emitted' = [c \in Calls |-> 0]
  BY DEF TurnRuns
<1> QED
  BY <1>2, <1>3, <1>4 DEF RowsInv, Records, Rows, Shape

LEMMA StillRows ==
    RowsInv /\ UNCHANGED turn /\ (pc' = "run" => pc = "run") => RowsInv'
BY DEF turn, RowsInv, Records, Rows, Shape

LEMMA EnumerationRows ==
    ASSUME RowsInv,
           \/ SpawnStep \/ Takes \/ Deadline \/ EndOfFile \/ Reaped \/ Cancelled
           \/ ServerStep \/ UNCHANGED vars
    PROVE  RowsInv'
<1>1. ASSUME NEW s \in Servers, Spawns(s) PROVE RowsInv'
  BY <1>1, StillRows DEF Spawns
<1>2. ASSUME NEW s \in Servers, SpawnFails(s) PROVE RowsInv'
  BY <1>2, StillRows, TurnRunsRows DEF SpawnFails
<1>3. ASSUME NEW tools, Ends(tools) PROVE RowsInv'
  BY <1>3, StillRows DEF Ends
<1>4. CASE Takes
  BY <1>3, <1>4, StillRows DEF Takes
<1>5. CASE Deadline \/ EndOfFile
  BY <1>3, <1>5 DEF Deadline, EndOfFile
<1>6. CASE Reaped
  BY <1>6, StillRows, TurnRunsRows DEF Reaped, NextServer
<1>7. CASE Cancelled
  BY <1>7, StillRows DEF Cancelled
<1>8. CASE ServerStep
  BY <1>8, StillRows DEF ServerStep, ServerWrites, ServerExits
<1>9. CASE UNCHANGED vars
  BY <1>9, StillRows DEF vars
<1> QED
  BY <1>1, <1>2, <1>4, <1>5, <1>6, <1>7, <1>8, <1>9 DEF SpawnStep

\* A notification that is about no call.
LEMMA QuietNote ==
    ASSUME RowsInv, pc' = pc, emitted' = emitted,
           Shape(state', {"deltas", "completed", "error", "tools"}),
           Shape(agent', {"text", "left", "said", "done", "schema", "calls"}),
           agent'.schema = agent.schema, agent'.calls = agent.calls
    PROVE  RowsInv'
BY DEF RowsInv, Records, Rows, Shape

LEMMA NoteRows ==
    ASSUME RowsInv,
           \/ Speaks \/ Delta \/ Whole \/ StreamedOnly \/ TurnCompleted \/ Error
    PROVE  RowsInv'
<1>1. /\ Shape(state, {"deltas", "completed", "error", "tools"})
      /\ Shape(agent, {"text", "left", "said", "done", "schema", "calls"})
  BY DEF RowsInv, Records
<1>2. pc' = pc /\ emitted' = emitted
  BY DEF Speaks, Delta, Whole, StreamedOnly, TurnCompleted, Completed, Error, Notified
<1>3. Shape(state', {"deltas", "completed", "error", "tools"})
  BY <1>1 DEF Speaks, Delta, Whole, StreamedOnly, TurnCompleted, Completed,
     Error, Notified, Shape
<1>4. Shape(agent', {"text", "left", "said", "done", "schema", "calls"})
      /\ agent'.schema = agent.schema /\ agent'.calls = agent.calls
  BY <1>1 DEF Speaks, Delta, Whole, StreamedOnly, TurnCompleted, Completed,
     Error, Notified, Shape
<1> QED
  BY <1>2, <1>3, <1>4, QuietNote

LEMMA CallRows ==
    ASSUME RowsInv, NEW c \in Calls, CallStarts(c) \/ CallEnds(c) PROVE RowsInv'
<1>1. /\ Shape(state, {"deltas", "completed", "error", "tools"})
      /\ Shape(agent, {"text", "left", "said", "done", "schema", "calls"})
      /\ agent.schema \in {"v130", "v72"}
      /\ agent.calls \in [Calls -> {"none", "begun", "ended"}]
      /\ emitted \in [Calls -> Nat]
  BY DEF RowsInv, Records
<1>2. pc' = "run" /\ pc = "run"
  BY DEF CallStarts, CallEnds, Reporting, Notified
<1>3. \A d \in Calls : emitted[d] = Rows(agent.schema, agent.calls[d])
  BY <1>2 DEF RowsInv
<1>4. CASE CallStarts(c)
  <2>1. agent.calls[c] = "none" /\ agent' = [agent EXCEPT !.calls[c] = "begun"]
        /\ state' = state
    BY <1>4 DEF CallStarts, Notified
  <2>2. /\ Shape(agent', {"text", "left", "said", "done", "schema", "calls"})
        /\ agent'.schema = agent.schema
        /\ agent'.calls = [agent.calls EXCEPT ![c] = "begun"]
    BY <1>1, <2>1 DEF Shape
  <2>3. emitted' = IF agent.schema = "v72" THEN [emitted EXCEPT ![c] = @ + 1] ELSE emitted
    BY <1>4 DEF CallStarts
  <2> QED
    BY <1>1, <1>2, <1>3, <2>1, <2>2, <2>3 DEF RowsInv, Records, Rows, Shape
<1>5. CASE CallEnds(c)
  <2>1. agent.calls[c] = "begun" /\ agent' = [agent EXCEPT !.calls[c] = "ended"]
    BY <1>5 DEF CallEnds, Notified
  <2>2. /\ Shape(agent', {"text", "left", "said", "done", "schema", "calls"})
        /\ agent'.schema = agent.schema
        /\ agent'.calls = [agent.calls EXCEPT ![c] = "ended"]
    BY <1>1, <2>1 DEF Shape
  <2>3. Shape(state', {"deltas", "completed", "error", "tools"})
    BY <1>1, <1>5 DEF CallEnds, Notified, Shape
  <2>4. emitted' = IF agent.schema = "v130" THEN [emitted EXCEPT ![c] = @ + 1] ELSE emitted
    BY <1>5 DEF CallEnds, CallRow
  <2> QED
    BY <1>1, <1>2, <1>3, <2>1, <2>2, <2>3, <2>4 DEF RowsInv, Records, Rows
<1> QED
  BY <1>4, <1>5

LEMMA NextRows == RowsInv /\ [Next]_vars => RowsInv'
<1> SUFFICES ASSUME RowsInv, [Next]_vars PROVE RowsInv'
  OBVIOUS
<1>1. CASE TurnBegins
  BY <1>1, StillRows, TurnRunsRows DEF TurnBegins
<1>2. CASE TurnEnds
  <2>1. Shape(state', {"deltas", "completed", "error", "tools"})
    BY <1>2 DEF TurnEnds, NewState, Shape
  <2>2. /\ Shape(agent', {"text", "left", "said", "done", "schema", "calls"})
        /\ agent'.schema = "v130" /\ agent'.calls = [c \in Calls |-> "none"]
    BY <1>2, NewAgentShape DEF TurnEnds
  <2> QED
    BY <1>2, <2>1, <2>2 DEF TurnEnds, RowsInv, Records
<1> QED
  BY <1>1, <1>2, EnumerationRows, NoteRows, CallRows, Zenon DEF Next

\* A tool call leaves one row in the log, in either schema, and leaves it by its
\* end.
THEOREM OneRowEach == Spec => []OneRowPerCall
<1>1. Spec => []RowsInv
  BY InitRows, NextRows, PTL DEF Spec
<1>2. RowsInv => OneRowPerCall
  BY DEF RowsInv, Records, Rows, OneRowPerCall
<1> QED
  BY <1>1, <1>2, PTL


-----------------------------------------------------------------------------
(* The ids a turn publishes.                                               *)

LEMMA InitSources == Init => SourceInv
BY DEF Init, SourceInv, Waits

\* Nothing is taken or found, and the server being asked stays or has no lines.
LEMMA SameSources ==
    ASSUME SourceInv, pipe' = pipe, pipe = <<>> \/ asked' = asked,
           pc' = pc \/ pipe = <<>>,
           found' \subseteq found, cache' \subseteq found \cup cache,
           advertised' = advertised,
           pc' = "run" => pc = "run" /\ state'.tools = state.tools /\ Ended \subseteq Ended'
    PROVE  SourceInv'
<1>1. pipe' \in Seq(ServerLines) /\ (pc' \notin Waits => pipe' = <<>>)
      /\ found' \subseteq advertised' /\ cache' \subseteq advertised'
  BY DEF SourceInv
<1>2. \A k \in 1 .. Len(pipe') : \A t \in pipe'[k].tools : <<Asked', t>> \in advertised'
  <2>1. CASE pipe = <<>>
    BY <2>1
  <2>2. CASE asked' = asked
    <3>1. Asked' = Asked
      BY <2>2 DEF Asked
    <3> QED
      BY <3>1 DEF SourceInv
  <2> QED
    BY <2>1, <2>2
<1>3. pc' = "run" => state'.tools \subseteq advertised' \cup Ended'
  BY DEF SourceInv
<1> QED
  BY <1>1, <1>2, <1>3 DEF SourceInv

LEMMA TurnRunsSources ==
    ASSUME SourceInv, NEW tools, TurnRuns(tools), tools \subseteq advertised,
           pipe = <<>>, pipe' = <<>>, advertised' = advertised,
           found' \subseteq found, cache' \subseteq advertised
    PROVE  SourceInv'
<1>1. state'.tools = tools /\ pc' = "run"
  BY FreshState DEF TurnRuns, Running
<1>2. pipe' \in Seq(ServerLines)
  OBVIOUS
<1> QED
  BY <1>1, <1>2 DEF SourceInv, Waits

LEMMA EndsSources ==
    ASSUME SourceInv, NEW tools, Ends(tools),
           \A t \in tools : <<Asked, t>> \in advertised
    PROVE  SourceInv'
<1>1. pipe' = <<>> /\ pc' = "reap" /\ advertised' = advertised /\ cache' = cache
      /\ found' = found \cup {<<Asked, t>> : t \in tools}
  BY DEF Ends
<1>2. pipe' \in Seq(ServerLines)
  BY <1>1
<1> QED
  BY <1>1, <1>2 DEF SourceInv, Waits

\* A line is dropped.
LEMMA DropSources ==
    ASSUME SourceInv, pipe # <<>>, pipe' = Tail(pipe), pc' \in Waits, asked' = asked,
           found' = found, cache' = cache, advertised' = advertised
    PROVE  SourceInv'
<1>1. Asked' = Asked
  BY DEF Asked
<1>2. pipe \in Seq(ServerLines)
  BY DEF SourceInv
<1>3. Tail(pipe) \in Seq(ServerLines) /\ Len(Tail(pipe)) = Len(pipe) - 1
      /\ \A k \in 1 .. Len(pipe) - 1 : Tail(pipe)[k] = pipe[k + 1]
  BY <1>2
<1>4. Len(pipe) \in Nat
  BY <1>2
<1>5. \A k \in 1 .. Len(pipe') : \A t \in pipe'[k].tools : <<Asked', t>> \in advertised'
  BY <1>1, <1>3, <1>4 DEF SourceInv
<1> QED
  BY <1>3, <1>5 DEF SourceInv, Waits

LEMMA TakesSources == ASSUME SourceInv, Takes PROVE SourceInv'
<1>1. pipe \in Seq(ServerLines) /\ pipe # <<>> /\ pc \in Waits
  BY DEF SourceInv, Takes, Waits
<1>2. \A t \in Head(pipe).tools : <<Asked, t>> \in advertised
  BY <1>1 DEF SourceInv
<1>3. CASE \/ Ends(Head(pipe).tools) \/ Ends({})
  BY <1>2, <1>3, EndsSources
<1>4. CASE pipe' = Tail(pipe) /\ pc' \in Waits
  BY <1>1, <1>4, DropSources DEF Takes, Waits, Ends
<1> QED
  BY <1>1, <1>3, <1>4 DEF Takes, Waits

LEMMA ServerSources == ASSUME SourceInv, ServerStep PROVE SourceInv'
<1>1. CASE ServerExits
  BY <1>1, SameSources DEF ServerExits, turn, Ended
<1>2. CASE ServerWrites
  <2>1. PICK m \in ServerLines :
          /\ pipe' = Append(pipe, m)
          /\ advertised' = advertised \cup {<<Asked, t>> : t \in m.tools}
    BY <1>2 DEF ServerWrites
  <2>2. pc \in Waits /\ pc' = pc /\ asked' = asked /\ found' = found /\ cache' = cache
    BY <1>2 DEF ServerWrites, Waits
  <2>3. Asked' = Asked
    BY <2>2 DEF Asked
  <2>4. pipe \in Seq(ServerLines)
    BY DEF SourceInv
  <2>5. pipe' \in Seq(ServerLines) /\ Len(pipe') = Len(pipe) + 1 /\ Len(pipe) \in Nat
        /\ pipe'[Len(pipe) + 1] = m /\ \A k \in 1 .. Len(pipe) : pipe'[k] = pipe[k]
    BY <2>1, <2>4
  <2>6. \A k \in 1 .. Len(pipe') : \A t \in pipe'[k].tools : <<Asked', t>> \in advertised'
    <3> TAKE k \in 1 .. Len(pipe')
    <3> TAKE t \in pipe'[k].tools
    <3>1. CASE k = Len(pipe) + 1
      BY <2>1, <2>3, <2>5, <3>1
    <3>2. CASE k \in 1 .. Len(pipe)
      BY <2>1, <2>3, <2>5, <3>2 DEF SourceInv
    <3> QED
      BY <2>5, <3>1, <3>2
  <2> QED
    BY <2>1, <2>2, <2>5, <2>6 DEF SourceInv, Waits
<1> QED
  BY <1>1, <1>2 DEF ServerStep

LEMMA EnumerationSources ==
    ASSUME StageInv, SourceInv, SpawnStep \/ Deadline \/ EndOfFile \/ Reaped \/ Cancelled
    PROVE  SourceInv'
<1>1. pc \notin Waits => pipe = <<>>
  BY DEF SourceInv
<1>2. ASSUME NEW s \in Servers, Spawns(s) PROVE SourceInv'
  <2>1. pipe = <<>> /\ pipe' = pipe /\ found' = found /\ cache' = cache
        /\ advertised' = advertised /\ pc' = "initialize"
    BY <1>1, <1>2 DEF Spawns, Waits
  <2> QED
    BY <2>1, SameSources
<1>3. ASSUME NEW s \in Servers, SpawnFails(s) PROVE SourceInv'
  <2>1. pipe = <<>> /\ pipe' = pipe /\ found' = found /\ advertised' = advertised
    BY <1>1, <1>3 DEF SpawnFails, Waits
  <2>2. CASE todo = {s}
    BY <1>3, <2>1, <2>2, TurnRunsSources DEF SpawnFails, SourceInv
  <2>3. CASE todo # {s}
    BY <1>3, <2>1, <2>3, SameSources DEF SpawnFails
  <2> QED
    BY <2>2, <2>3
<1>4. CASE Deadline \/ EndOfFile
  BY <1>4, EndsSources DEF Deadline, EndOfFile
<1>5. CASE Reaped
  <2>1. pipe = <<>> /\ pipe' = pipe /\ found' = found /\ advertised' = advertised
    BY <1>1, <1>5 DEF Reaped, NextServer, Waits
  <2>2. CASE todo # {}
    BY <1>5, <2>1, <2>2, SameSources DEF Reaped, NextServer
  <2>3. CASE todo = {}
    BY <1>5, <2>1, <2>3, TurnRunsSources DEF Reaped, NextServer, SourceInv
  <2> QED
    BY <2>2, <2>3
<1>6. CASE Cancelled
  <2>1. pipe' = <<>> /\ pc' = "idle" /\ found' = {} /\ cache' = cache
        /\ advertised' = advertised /\ pipe' \in Seq(ServerLines)
    BY <1>6 DEF Cancelled
  <2> QED
    BY <2>1 DEF SourceInv
<1> QED
  BY <1>2, <1>3, <1>4, <1>5, <1>6 DEF SpawnStep

\* What the CLI reports of a turn adds the ids of calls that have ended.
LEMMA ReportSources ==
    ASSUME RowsInv, SourceInv, pc' = pc, UNCHANGED inventory, cache' = cache,
           state'.tools \subseteq state.tools \cup (Ended' \ Ended), Ended \subseteq Ended'
    PROVE  SourceInv'
<1>1. Asked' = Asked
  BY DEF Asked, inventory
<1>2. pc' = "run" => state'.tools \subseteq advertised' \cup Ended'
  BY DEF SourceInv, inventory
<1> QED
  BY <1>1, <1>2 DEF SourceInv, inventory

LEMMA NoteSources ==
    ASSUME RowsInv, SourceInv,
           \/ Speaks \/ Delta \/ Whole \/ StreamedOnly \/ TurnCompleted \/ Error
           \/ \E c \in Calls : CallStarts(c) \/ CallEnds(c)
    PROVE  SourceInv'
<1>1. /\ Shape(state, {"deltas", "completed", "error", "tools"})
      /\ Shape(agent, {"text", "left", "said", "done", "schema", "calls"})
      /\ agent.calls \in [Calls -> {"none", "begun", "ended"}]
  BY DEF RowsInv, Records
<1>2. pc' = pc /\ UNCHANGED inventory /\ cache' = cache
  BY DEF Speaks, Delta, Whole, StreamedOnly, TurnCompleted, Completed,
     Error, CallStarts, CallEnds,
         Notified
<1>3. CASE Speaks \/ Delta \/ Whole \/ StreamedOnly \/ TurnCompleted \/ Error
  <2>1. state'.tools = state.tools /\ agent'.calls = agent.calls
    BY <1>1, <1>3 DEF Speaks, Delta, Whole, StreamedOnly, TurnCompleted, Completed,
       Error, Notified,
                      Shape
  <2> QED
    BY <1>2, <2>1, ReportSources DEF Ended
<1>4. ASSUME NEW c \in Calls, CallStarts(c) PROVE SourceInv'
  <2>1. state' = state /\ agent' = [agent EXCEPT !.calls[c] = "begun"]
        /\ agent.calls[c] = "none"
    BY <1>4 DEF CallStarts, Notified
  <2>2. agent'.calls = [agent.calls EXCEPT ![c] = "begun"]
    BY <1>1, <2>1 DEF Shape
  <2>3. Ended \subseteq Ended'
    BY <1>1, <2>1, <2>2 DEF Ended, Calls
  <2> QED
    BY <1>2, <2>1, <2>3, ReportSources
<1>5. ASSUME NEW c \in Calls, CallEnds(c) PROVE SourceInv'
  <2>1. agent' = [agent EXCEPT !.calls[c] = "ended"] /\ agent.calls[c] = "begun"
        /\ state' = IF agent.schema = "v130" /\ c \in Ids
                    THEN [state EXCEPT !.tools = @ \cup {c}] ELSE state
    BY <1>5 DEF CallEnds, Notified
  <2>2. agent'.calls = [agent.calls EXCEPT ![c] = "ended"]
    BY <1>1, <2>1 DEF Shape
  <2>3. Ended \subseteq Ended' /\ (c \in Ids => c \in Ended' \ Ended)
    BY <1>1, <2>1, <2>2 DEF Ended, Calls
  <2>4. state'.tools \subseteq state.tools \cup (Ended' \ Ended)
    BY <1>1, <2>1, <2>3 DEF Shape
  <2> QED
    BY <1>2, <2>3, <2>4, ReportSources
<1> QED
  BY <1>3, <1>4, <1>5

LEMMA NextSources ==
    StageInv /\ RowsInv /\ SourceInv /\ [Next]_vars => SourceInv'
<1> SUFFICES ASSUME StageInv, RowsInv, SourceInv, [Next]_vars PROVE SourceInv'
  OBVIOUS
<1>1. CASE TurnBegins
  <2>1. pc = "idle" /\ pipe = <<>> /\ pipe' = pipe /\ cache' = cache
        /\ advertised' = advertised /\ found' \subseteq found \cup {}
    BY <1>1 DEF TurnBegins, SourceInv, Waits, inventory
  <2>2. ASSUME NEW tools \in {cache, {}}, TurnRuns(tools) PROVE SourceInv'
    BY <2>1, <2>2, TurnRunsSources DEF SourceInv
  <2>3. CASE pc' = "spawn"
    BY <2>1, <2>3, SameSources
  <2> QED
    BY <1>1, <2>2, <2>3 DEF TurnBegins
<1>2. CASE TurnEnds
  BY <1>2, SameSources DEF TurnEnds, inventory, SourceInv, Waits
<1>3. CASE UNCHANGED vars
  BY <1>3, SameSources DEF vars, inventory, turn, Ended
<1> QED
  BY <1>1, <1>2, <1>3, TakesSources, ServerSources, EnumerationSources, NoteSources, Zenon
     DEF Next

\* A turn publishes only ids that the very server advertised or that it called in
\* this very turn.
THEOREM OnlyLiveIds == Spec => PublishedIsLive
<1>1. Spec => [](StageInv /\ RowsInv /\ SourceInv)
  <2>1. Init => StageInv /\ RowsInv /\ SourceInv
    BY InitStage, InitRows, InitSources
  <2>2. StageInv /\ RowsInv /\ SourceInv /\ [Next]_vars
            => StageInv' /\ RowsInv' /\ SourceInv'
    BY NextStage, NextRows, NextSources
  <2> QED
    BY <2>1, <2>2, PTL DEF Spec
<1>2. SourceInv /\ [Next]_vars => PublishedNow
  <2> SUFFICES ASSUME SourceInv, Next, pc = "run", pc' = "idle" PROVE PublishedNow
    BY DEF PublishedNow, vars
  <2>1. TurnEnds
    BY DEF Next, TurnBegins, TurnRuns, SpawnStep, Spawns, SpawnFails, Takes, Deadline,
           EndOfFile, Ends, Reaped, Cancelled, Enumerating, ServerStep, ServerWrites,
           ServerExits, Speaks, Delta, Whole, StreamedOnly, CallStarts, CallEnds,
           TurnCompleted, Completed, Error, Notified
  <2> QED
    BY <2>1 DEF TurnEnds, PublishedNow, SourceInv, Ended
<1> QED
  BY <1>1, <1>2, PTL DEF Spec, PublishedIsLive

-----------------------------------------------------------------------------
(* Joined texts: FlattenSeq() adds one text after the other.               *)

LEMMA LeastOf ==
    ASSUME NEW S \in SUBSET Nat, S # {}
    PROVE  \E k \in S : \A j \in S : k <= j
<1> DEFINE R == StrictSubsetOrdering(Nat)
           T == {1 .. k : k \in S}
<1>1. T \subseteq FiniteSubsetsOf(Nat) /\ T # {}
  <2>1. ASSUME NEW k \in S PROVE IsFiniteSet(1 .. k) /\ 1 .. k \subseteq Nat
    BY FS_Interval
  <2> QED
    BY <2>1 DEF FiniteSubsetsOf
<1>2. PICK t \in T : \A u \in T : ~(<<u, t>> \in R)
  BY <1>1, FS_StrictSubsetOrderingWellFounded, WFMin
<1>3. PICK k \in S : t = 1 .. k
  OBVIOUS
<1>4. ASSUME NEW j \in S PROVE k <= j
  <2>1. ~(<<1 .. j, 1 .. k>> \in R)
    BY <1>2, <1>3
  <2>2. j < k => 1 .. j \subseteq 1 .. k /\ k \in 1 .. k /\ k \notin 1 .. j
    OBVIOUS
  <2>3. {1 .. j, 1 .. k} \subseteq SUBSET Nat
    OBVIOUS
  <2> QED
    BY <2>1, <2>2, <2>3 DEF StrictSubsetOrdering
<1> QED
  BY <1>4

\* f joins the first n of the texts s, step by step.
Joins(f, s, n) == \A i \in 1 .. n : f[i] = IF i = 1 THEN s[1] ELSE f[i - 1] \o s[i]

LEMMA JoinsExists ==
    ASSUME NEW X, NEW s \in Seq(Seq(X)), NEW n \in 1 .. Len(s)
    PROVE  \E f \in [1 .. n -> Seq(X)] : Joins(f, s, n)
<1> DEFINE Bad == {k \in 1 .. n : ~\E f \in [1 .. k -> Seq(X)] : Joins(f, s, k)}
<1> SUFFICES ASSUME Bad # {} PROVE FALSE
  <2>1. n \in 1 .. n
    OBVIOUS
  <2> QED BY <2>1
<1>1. PICK k \in Bad : \A j \in Bad : k <= j
  <2>1. Bad \in SUBSET Nat
    OBVIOUS
  <2> HIDE DEF Bad
  <2> QED BY <2>1, LeastOf
<1>2. k \in 1 .. n /\ s[k] \in Seq(X) /\ s[1] \in Seq(X)
  OBVIOUS
<1>3. CASE k = 1
  <2> DEFINE f == [i \in 1 .. 1 |-> s[1]]
  <2>1. f \in [1 .. 1 -> Seq(X)] /\ f[1] = s[1]
    BY <1>2
  <2>2. Joins(f, s, 1)
    BY <2>1 DEF Joins
  <2> QED BY <1>3, <2>1, <2>2
<1>4. CASE k # 1
  <2>1. k - 1 \in 1 .. n /\ k - 1 \notin Bad
    <3>1. k - 1 \in 1 .. n /\ ~(k <= k - 1)
      BY <1>2, <1>4
    <3> HIDE DEF Bad
    <3> QED BY <1>1, <3>1
  <2>2. PICK f \in [1 .. k - 1 -> Seq(X)] : Joins(f, s, k - 1)
    BY <2>1
  <2> DEFINE g == [i \in 1 .. k |-> IF i = k THEN f[k - 1] \o s[k] ELSE f[i]]
  <2>3. k - 1 \in 1 .. k - 1
    BY <1>2, <1>4
  <2>4. f[k - 1] \o s[k] \in Seq(X)
    BY <1>2, <2>2, <2>3
  <2>5. g \in [1 .. k -> Seq(X)]
    BY <1>2, <2>2, <2>4
  <2>6. g[k] = f[k - 1] \o s[k] /\ \A i \in 1 .. k - 1 : g[i] = f[i]
    <3>1. k \in Nat /\ k \in 1 .. k /\ \A i \in 1 .. k - 1 : i \in 1 .. k /\ i # k
      BY <1>2
    <3> QED BY <3>1
  <2> HIDE DEF g
  <2>7. Joins(g, s, k)
    <3> SUFFICES ASSUME NEW i \in 1 .. k
                 PROVE  g[i] = IF i = 1 THEN s[1] ELSE g[i - 1] \o s[i]
      BY DEF Joins
    <3>1. CASE i = k
      BY <1>2, <1>4, <2>3, <2>6, <3>1
    <3>2. CASE i # k
      <4>1. i \in 1 .. k - 1 /\ (i # 1 => i - 1 \in 1 .. k - 1)
        BY <1>2, <3>2
      <4> QED BY <2>2, <2>6, <4>1 DEF Joins
    <3> QED BY <3>1, <3>2
  <2> QED BY <2>5, <2>7
<1> QED BY <1>3, <1>4

LEMMA JoinsSame ==
    ASSUME NEW s, NEW n \in Nat, NEW f, Joins(f, s, n), NEW g, Joins(g, s, n),
           NEW m \in 1 .. n
    PROVE  f[m] = g[m]
<1> DEFINE Bad == {k \in 1 .. n : f[k] # g[k]}
<1> SUFFICES ASSUME Bad # {} PROVE FALSE
  OBVIOUS
<1>1. PICK k \in Bad : \A j \in Bad : k <= j
  <2>1. Bad \in SUBSET Nat
    OBVIOUS
  <2> HIDE DEF Bad
  <2> QED BY <2>1, LeastOf
<1>2. k \in 1 .. n /\ f[k] # g[k]
  OBVIOUS
<1>3. CASE k = 1
  BY <1>2, <1>3 DEF Joins
<1>4. CASE k # 1
  <2>1. k - 1 \in 1 .. n /\ k - 1 \notin Bad
    BY <1>1, <1>2, <1>4
  <2>2. f[k - 1] = g[k - 1]
    BY <2>1
  <2> QED BY <1>2, <1>4, <2>2 DEF Joins
<1> QED BY <1>3, <1>4

LEMMA FlattenIsJoin ==
    ASSUME NEW X, NEW s \in Seq(Seq(X)), Len(s) # 0,
           NEW f \in [1 .. Len(s) -> Seq(X)], Joins(f, s, Len(s))
    PROVE  FlattenSeq(s) = f[Len(s)]
<1> DEFINE n == Len(s)
           step(g) == [i \in 1 .. n |-> IF i = 1 THEN s[i] ELSE g[i - 1] \o s[i]]
           c == CHOOSE g : g = step(g)
<1>1. FlattenSeq(s) = c[n]
  BY Zenon DEF FlattenSeq
<1>2. n \in Nat /\ n \in 1 .. n
  OBVIOUS
<1>3. f = step(f)
  BY DEF Joins
<1>4. c = step(c)
  <2> HIDE DEF step
  <2> QED BY <1>3
<1> HIDE DEF c
<1>5. Joins(c, s, n)
  BY <1>4 DEF Joins
<1> QED BY <1>1, <1>2, <1>5, JoinsSame
LEMMA Appended ==
    ASSUME NEW X, NEW s \in Seq(X), NEW t \in X
    PROVE  /\ Append(s, t) \in Seq(X) /\ Len(Append(s, t)) = Len(s) + 1 /\ Len(s) \in Nat
           /\ Append(s, t)[Len(s) + 1] = t
           /\ \A i \in 1 .. Len(s) : Append(s, t)[i] = s[i]
  OBVIOUS

\* One more piece is added to the end of the whole.
LEMMA FlattenAppend ==
    ASSUME NEW X, NEW s \in Seq(Seq(X)), NEW t \in Seq(X)
    PROVE  /\ FlattenSeq(s) \in Seq(X)
           /\ FlattenSeq(Append(s, t)) = FlattenSeq(s) \o t
<1> DEFINE n == Len(s)
           more == Append(s, t)
<1>1. /\ more \in Seq(Seq(X)) /\ Len(more) = n + 1 /\ n \in Nat
      /\ more[n + 1] = t
      /\ \A i \in 1 .. n : more[i] = s[i]
  BY Appended
<1> HIDE DEF more
<1>2. CASE n = 0
  <2>1. FlattenSeq(s) = <<>> /\ <<>> \o t = t /\ <<>> \in Seq(X)
    <3>1. s = <<>>
      BY <1>2
    <3>2. FlattenSeq(s) = s
      BY <1>2, Zenon DEF FlattenSeq
    <3> QED BY <3>1, <3>2
  <2> DEFINE f == [i \in 1 .. 1 |-> t]
  <2>2. f \in [1 .. Len(more) -> Seq(X)] /\ f[1] = t /\ Len(more) = 1 /\ more[1] = t
    BY <1>1, <1>2
  <2> HIDE DEF f
  <2>3. Joins(f, more, Len(more))
    BY <2>2 DEF Joins
  <2>4. FlattenSeq(more) = t
    BY <1>1, <2>2, <2>3, FlattenIsJoin
  <2> QED BY <2>1, <2>4 DEF more
<1>3. CASE n # 0
  <2>1. n \in 1 .. n
    BY <1>1, <1>3
  <2>2. PICK f \in [1 .. n -> Seq(X)] : Joins(f, s, n)
    BY <2>1, JoinsExists
  <2>3. FlattenSeq(s) = f[n] /\ f[n] \in Seq(X)
    BY <1>3, <2>1, <2>2, FlattenIsJoin
  <2> DEFINE g == [i \in 1 .. n + 1 |-> IF i = n + 1 THEN f[n] \o t ELSE f[i]]
  <2>4. f[n] \o t \in Seq(X)
    BY <2>3
  <2> HIDE DEF n
  <2>5. g \in [1 .. n + 1 -> Seq(X)]
    BY <1>1, <2>2, <2>4
  <2>6. g[n + 1] = f[n] \o t /\ \A i \in 1 .. n : g[i] = f[i]
    <3>1. n + 1 \in 1 .. n + 1 /\ \A i \in 1 .. n : i \in 1 .. n + 1 /\ i # n + 1
      BY <1>1
    <3> QED BY <3>1
  <2> HIDE DEF g
  <2>7. Joins(g, more, n + 1)
    <3> SUFFICES ASSUME NEW i \in 1 .. n + 1
                 PROVE  g[i] = IF i = 1 THEN more[1] ELSE g[i - 1] \o more[i]
      BY DEF Joins
    <3>1. CASE i = n + 1
      <4>1. i # 1 /\ i - 1 = n /\ more[i] = t
        BY <1>1, <1>3, <3>1
      <4> QED BY <2>1, <2>6, <3>1, <4>1
    <3>2. CASE i # n + 1
      <4>1. i \in 1 .. n /\ 1 \in 1 .. n /\ (i # 1 => i - 1 \in 1 .. n)
        BY <1>1, <3>2
      <4>2. f[i] = IF i = 1 THEN s[1] ELSE f[i - 1] \o s[i]
        BY <2>2, <4>1 DEF Joins
      <4> QED BY <1>1, <2>6, <4>1, <4>2
    <3> QED BY <3>1, <3>2
  <2>8. Len(more) # 0
    BY <1>1
  <2>9. FlattenSeq(more) = g[n + 1]
    BY <1>1, <2>5, <2>7, <2>8, FlattenIsJoin
  <2> QED BY <2>3, <2>6, <2>9 DEF more
<1> QED BY <1>2, <1>3

LEMMA JoinedTwice ==
    \A a, b, c \in Seq(Chunks) : (a \o b) \o c = a \o (b \o c)
  OBVIOUS

LEMMA WithinAt ==
    ASSUME NEW X, NEW text \in Seq(X), NEW reply \in Seq(X)
    PROVE  Within(text, reply) <=>
               \E i \in Nat : /\ i + Len(text) <= Len(reply)
                              /\ \A j \in 1 .. Len(text) : reply[i + j] = text[j]
<1>1. Len(text) \in Nat /\ Len(reply) \in Nat
  OBVIOUS
<1>2. ASSUME NEW i \in Nat, i + Len(text) <= Len(reply)
      PROVE  SubSeq(reply, i + 1, i + Len(text)) = text
                 <=> \A j \in 1 .. Len(text) : reply[i + j] = text[j]
  <2> DEFINE part == SubSeq(reply, i + 1, i + Len(text))
  <2>1. /\ part \in Seq(X) /\ Len(part) = Len(text)
        /\ \A j \in 1 .. Len(text) : part[j] = reply[i + j]
    BY <1>1, <1>2
  <2> HIDE DEF part
  <2>2. part \in [1 .. Len(text) -> X] /\ text \in [1 .. Len(text) -> X]
    BY <2>1
  <2>3. part = text <=> \A j \in 1 .. Len(text) : part[j] = text[j]
    BY <2>2
  <2> QED BY <2>1, <2>3 DEF part
<1>3. \A i : i \in 0 .. Len(reply) - Len(text) <=> i \in Nat /\ i + Len(text) <= Len(reply)
  BY <1>1
<1> QED BY <1>2, <1>3 DEF Within

LEMMA WithinGrows ==
    ASSUME NEW X, NEW text \in Seq(X), NEW reply \in Seq(X), NEW more \in Seq(X)
    PROVE  /\ Within(text, reply) => Within(text, reply \o more)
           /\ Within(more, reply \o more)
<1> DEFINE whole == reply \o more
<1>1. /\ whole \in Seq(X) /\ Len(whole) = Len(reply) + Len(more)
      /\ \A i \in 1 .. Len(reply) : whole[i] = reply[i]
      /\ \A i \in 1 .. Len(more) : whole[Len(reply) + i] = more[i]
      /\ Len(reply) \in Nat /\ Len(more) \in Nat /\ Len(text) \in Nat
  OBVIOUS
<1> HIDE DEF whole
<1>2. ASSUME Within(text, reply) PROVE Within(text, whole)
  <2>1. PICK i \in Nat : /\ i + Len(text) <= Len(reply)
                         /\ \A j \in 1 .. Len(text) : reply[i + j] = text[j]
    BY <1>2, WithinAt
  <2>2. i + Len(text) <= Len(whole)
    BY <1>1, <2>1
  <2>3. \A j \in 1 .. Len(text) : i + j \in 1 .. Len(reply)
    BY <1>1, <2>1
  <2>4. \A j \in 1 .. Len(text) : whole[i + j] = text[j]
    BY <1>1, <2>1, <2>3
  <2> QED BY <1>1, <2>2, <2>4, WithinAt
<1>3. Within(more, whole)
  <2>1. \E i \in Nat : /\ i + Len(more) <= Len(whole)
                       /\ \A j \in 1 .. Len(more) : whole[i + j] = more[j]
    <3> WITNESS Len(reply) \in Nat
    <3> QED BY <1>1
  <2> QED BY <1>1, <2>1, WithinAt
<1> QED BY <1>2, <1>3 DEF whole
-----------------------------------------------------------------------------
(* The reply.                                                              *)

\* A reply with the messages said and every piece of it; what was streamed of the
\* message in progress ends it.
Pieces(deltas, said, text, left) ==
    LET reply == FlattenSeq(deltas)
    IN  /\ deltas \in Seq(Seq(Chunks)) /\ said \in Seq(Seq(Chunks))
        /\ text \in Seq(Chunks) /\ left \in Seq(Chunks)
        /\ \A i \in 1 .. Len(deltas) : Within(deltas[i], reply)
        /\ \A i \in 1 .. Len(said) : Within(said[i], reply)
        /\ text = <<>> => left = <<>>
        /\ text # <<>> => \E before, sent \in Seq(Chunks) : /\ reply = before \o sent
                                                            /\ text = sent \o left

ReplyInv == pc = "run" => Pieces(state.deltas, agent.said, agent.text, agent.left)

LEMMA NoPieces == Pieces(<<>>, <<>>, <<>>, <<>>)
BY DEF Pieces

LEMMA TextIsSeq == ASSUME NEW text \in Texts PROVE text \in Seq(Chunks)
<1>1. PICK n \in 1 .. MaxChunks : text \in [1 .. n -> Chunks]
  BY DEF Texts
<1> QED BY <1>1, EventsAssumption

LEMMA SpeaksPieces ==
    ASSUME NEW deltas, NEW said, Pieces(deltas, said, <<>>, <<>>), NEW text \in Texts
    PROVE  Pieces(deltas, said, text, text)
<1>1. text \in Seq(Chunks)
  BY TextIsSeq
<1>2. FlattenSeq(deltas) \in Seq(Chunks)
  BY FlattenAppend DEF Pieces
<1>3. FlattenSeq(deltas) = FlattenSeq(deltas) \o <<>> /\ text = <<>> \o text
      /\ <<>> \in Seq(Chunks)
  BY <1>1, <1>2
<1> QED BY <1>1, <1>2, <1>3 DEF Pieces

\* One more piece: what was in the reply stays there, and the piece is.
LEMMA MorePieces ==
    ASSUME NEW deltas \in Seq(Seq(Chunks)), NEW said \in Seq(Seq(Chunks)),
           NEW piece \in Seq(Chunks),
           \A i \in 1 .. Len(deltas) : Within(deltas[i], FlattenSeq(deltas)),
           \A i \in 1 .. Len(said) : Within(said[i], FlattenSeq(deltas))
    PROVE  /\ Append(deltas, piece) \in Seq(Seq(Chunks))
           /\ \A i \in 1 .. Len(Append(deltas, piece)) :
                  Within(Append(deltas, piece)[i], FlattenSeq(Append(deltas, piece)))
           /\ \A i \in 1 .. Len(said) : Within(said[i], FlattenSeq(Append(deltas, piece)))
           /\ Within(piece, FlattenSeq(Append(deltas, piece)))
<1> DEFINE more == Append(deltas, piece)
           reply == FlattenSeq(deltas)
<1>1. /\ more \in Seq(Seq(Chunks)) /\ Len(more) = Len(deltas) + 1 /\ Len(deltas) \in Nat
      /\ more[Len(deltas) + 1] = piece
      /\ \A i \in 1 .. Len(deltas) : more[i] = deltas[i]
  BY Appended
<1>2. reply \in Seq(Chunks) /\ FlattenSeq(more) = reply \o piece
  BY FlattenAppend
<1> HIDE DEF more, reply
<1>3. Within(piece, reply \o piece)
  BY <1>2, WithinGrows
<1>4. ASSUME NEW t \in Seq(Chunks), Within(t, reply) PROVE Within(t, reply \o piece)
  BY <1>2, <1>4, WithinGrows
<1>5. \A i \in 1 .. Len(deltas) : deltas[i] \in Seq(Chunks) /\ Within(deltas[i], reply)
  BY DEF reply
<1>6. \A i \in 1 .. Len(said) : said[i] \in Seq(Chunks) /\ Within(said[i], reply)
  BY DEF reply
<1>7. \A i \in 1 .. Len(more) : Within(more[i], reply \o piece)
  <2> TAKE i \in 1 .. Len(more)
  <2>1. CASE i = Len(deltas) + 1
    BY <1>1, <1>3, <2>1
  <2>2. CASE i # Len(deltas) + 1
    <3>1. i \in 1 .. Len(deltas)
      BY <1>1, <2>2
    <3> QED BY <1>1, <1>4, <1>5, <3>1
  <2> QED BY <2>1, <2>2
<1>8. \A i \in 1 .. Len(said) : Within(said[i], reply \o piece)
  BY <1>4, <1>6
<1> QED BY <1>1, <1>2, <1>3, <1>7, <1>8 DEF more

LEMMA DeltaPieces ==
    ASSUME NEW deltas, NEW said, NEW text, NEW left, Pieces(deltas, said, text, left),
           left # <<>>
    PROVE  Pieces(Append(deltas, <<Head(left)>>), said, text, Tail(left))
<1> DEFINE piece == <<Head(left)>>
           more == Append(deltas, piece)
<1>1. /\ deltas \in Seq(Seq(Chunks)) /\ said \in Seq(Seq(Chunks))
      /\ text \in Seq(Chunks) /\ left \in Seq(Chunks) /\ text # <<>>
      /\ \A i \in 1 .. Len(deltas) : Within(deltas[i], FlattenSeq(deltas))
      /\ \A i \in 1 .. Len(said) : Within(said[i], FlattenSeq(deltas))
  BY DEF Pieces
<1>2. PICK before \in Seq(Chunks), sent \in Seq(Chunks) :
          FlattenSeq(deltas) = before \o sent /\ text = sent \o left
  BY <1>1 DEF Pieces
<1>3. piece \in Seq(Chunks) /\ Tail(left) \in Seq(Chunks) /\ left = piece \o Tail(left)
  BY <1>1
<1> HIDE DEF piece
<1>4. /\ more \in Seq(Seq(Chunks))
      /\ \A i \in 1 .. Len(more) : Within(more[i], FlattenSeq(more))
      /\ \A i \in 1 .. Len(said) : Within(said[i], FlattenSeq(more))
  BY <1>1, <1>3, MorePieces
<1>5. FlattenSeq(more) = FlattenSeq(deltas) \o piece
  BY <1>1, <1>3, FlattenAppend
<1> HIDE DEF more
<1>6. /\ FlattenSeq(more) = before \o (sent \o piece)
      /\ text = (sent \o piece) \o Tail(left)
      /\ sent \o piece \in Seq(Chunks)
  <2> DEFINE rest == Tail(left)
  <2>1. rest \in Seq(Chunks) /\ left = piece \o rest
    BY <1>3
  <2> HIDE DEF rest
  <2>2. /\ (before \o sent) \o piece = before \o (sent \o piece)
        /\ (sent \o piece) \o rest = sent \o (piece \o rest)
    <3>1. before \in Seq(Chunks) /\ sent \in Seq(Chunks)
      BY <1>2
    <3>2. piece \in Seq(Chunks) /\ rest \in Seq(Chunks)
      BY <1>3, <2>1
    <3> QED BY <3>1, <3>2, JoinedTwice, Zenon
  <2>3. sent \o piece \in Seq(Chunks)
    BY <1>2, <1>3
  <2>4. text = (sent \o piece) \o rest
    BY <1>2, <2>1, <2>2
  <2> QED BY <1>2, <1>5, <2>2, <2>3, <2>4 DEF rest
<1>7. Pieces(more, said, text, Tail(left))
  BY <1>1, <1>2, <1>3, <1>4, <1>6 DEF Pieces
<1> QED BY <1>7 DEF more, piece

\* The message is said: the reply holds it.
LEMMA SaidPieces ==
    ASSUME NEW deltas, NEW said, NEW text \in Seq(Chunks),
           Pieces(deltas, said, <<>>, <<>>), Within(text, FlattenSeq(deltas))
    PROVE  Pieces(deltas, Append(said, text), <<>>, <<>>)
<1>1. /\ said \in Seq(Seq(Chunks))
      /\ \A i \in 1 .. Len(said) : Within(said[i], FlattenSeq(deltas))
  BY DEF Pieces
<1> DEFINE more == Append(said, text)
<1>2. /\ more \in Seq(Seq(Chunks)) /\ Len(more) = Len(said) + 1 /\ Len(said) \in Nat
      /\ more[Len(said) + 1] = text
      /\ \A i \in 1 .. Len(said) : more[i] = said[i]
  BY <1>1, Appended
<1> HIDE DEF more
<1>3. \A i \in 1 .. Len(more) : Within(more[i], FlattenSeq(deltas))
  <2> TAKE i \in 1 .. Len(more)
  <2>1. CASE i = Len(said) + 1
    BY <1>2, <2>1
  <2>2. CASE i # Len(said) + 1
    <3>1. i \in 1 .. Len(said)
      BY <1>2, <2>2
    <3> QED BY <1>1, <1>2, <3>1
  <2> QED BY <2>1, <2>2
<1>4. Pieces(deltas, more, <<>>, <<>>)
  BY <1>2, <1>3 DEF Pieces
<1> QED BY <1>4 DEF more

\* No message is in progress, or it is over.
LEMMA NonePieces ==
    ASSUME NEW deltas, NEW said, NEW text, NEW left, Pieces(deltas, said, text, left)
    PROVE  Pieces(deltas, said, <<>>, <<>>)
<1>1. <<>> \in Seq(Chunks)
  OBVIOUS
<1> QED BY <1>1 DEF Pieces

LEMMA AddedPieces ==
    ASSUME NEW deltas, NEW said, Pieces(deltas, said, <<>>, <<>>), NEW piece \in Seq(Chunks)
    PROVE  /\ Pieces(Append(deltas, piece), said, <<>>, <<>>)
           /\ Within(piece, FlattenSeq(Append(deltas, piece)))
<1>1. /\ deltas \in Seq(Seq(Chunks)) /\ said \in Seq(Seq(Chunks)) /\ <<>> \in Seq(Chunks)
      /\ \A i \in 1 .. Len(deltas) : Within(deltas[i], FlattenSeq(deltas))
      /\ \A i \in 1 .. Len(said) : Within(said[i], FlattenSeq(deltas))
  BY DEF Pieces
<1> DEFINE more == Append(deltas, piece)
<1>2. /\ more \in Seq(Seq(Chunks))
      /\ \A i \in 1 .. Len(more) : Within(more[i], FlattenSeq(more))
      /\ \A i \in 1 .. Len(said) : Within(said[i], FlattenSeq(more))
      /\ Within(piece, FlattenSeq(more))
  BY <1>1, MorePieces
<1> HIDE DEF more
<1>3. Pieces(more, said, <<>>, <<>>)
  BY <1>1, <1>2 DEF Pieces
<1> QED BY <1>2, <1>3 DEF more

LEMMA CompletingPieces ==
    ASSUME NEW deltas, NEW said, Pieces(deltas, said, <<>>, <<>>), NEW whole \in Seq(Chunks)
    PROVE  /\ Pieces(Completing(deltas, whole), said, <<>>, <<>>)
           /\ Within(whole, FlattenSeq(Completing(deltas, whole)))
<1>1. CASE whole \in Range(deltas)
  <2>1. Completing(deltas, whole) = deltas
    BY <1>1 DEF Completing
  <2>2. PICK i \in 1 .. Len(deltas) : deltas[i] = whole
    BY <1>1 DEF Pieces, Range
  <2> QED BY <2>1, <2>2 DEF Pieces
<1>2. CASE whole \notin Range(deltas)
  BY <1>2, AddedPieces DEF Completing
<1> QED BY <1>1, <1>2

LEMMA NoteReply ==
    ASSUME RowsInv, ReplyInv, Speaks \/ Delta \/ Whole \/ StreamedOnly \/ TurnCompleted \/ Error
    PROVE  ReplyInv'
<1>1. /\ Shape(state, {"deltas", "completed", "error", "tools"})
      /\ Shape(agent, {"text", "left", "said", "done", "schema", "calls"})
  BY DEF RowsInv, Records
<1> DEFINE deltas == state.deltas
           said == agent.said
           text == agent.text
           left == agent.left
<1>2. Pieces(deltas, said, text, left) /\ text \in Seq(Chunks)
  BY DEF ReplyInv, Pieces, Speaks, Delta, Whole, StreamedOnly, TurnCompleted, Completed,
     Error, Reporting
<1>3. Pieces(deltas, said, <<>>, <<>>)
  BY <1>2, NonePieces
<1>4. CASE Speaks
  <2>1. PICK t \in Texts : state' = state /\ agent' = [agent EXCEPT !.text = t, !.left = t]
    BY <1>4 DEF Speaks, Notified
  <2>2. agent'.said = said /\ agent'.text = t /\ agent'.left = t /\ state'.deltas = deltas
    BY <1>1, <2>1 DEF Shape
  <2> HIDE DEF deltas, said, text, left
  <2> QED BY <1>3, <2>2, SpeaksPieces DEF ReplyInv
<1>5. CASE Delta
  <2>1. /\ state' = [state EXCEPT !.deltas = Append(@, <<Head(agent.left)>>)]
        /\ agent' = [agent EXCEPT !.left = Tail(@)] /\ left # <<>>
    BY <1>5 DEF Delta, Notified
  <2>2. /\ agent'.said = said /\ agent'.text = text /\ agent'.left = Tail(left)
        /\ state'.deltas = Append(deltas, <<Head(left)>>)
    BY <1>1, <2>1 DEF Shape
  <2> HIDE DEF deltas, said, text, left
  <2> QED BY <1>2, <2>1, <2>2, DeltaPieces DEF ReplyInv
<1>6. CASE Whole
  <2> DEFINE d == IF agent.schema = "v130" THEN Completing(deltas, text)
                  ELSE Append(deltas, text)
  <2>1. /\ state' = [state EXCEPT !.deltas = IF agent.schema = "v130"
                                             THEN Completing(@, agent.text)
                                             ELSE Append(@, agent.text)]
        /\ agent' = [agent EXCEPT !.said = Append(@, agent.text), !.text = <<>>,
                                  !.left = <<>>]
    BY <1>6 DEF Whole, Notified
  <2>2. /\ agent'.said = Append(said, text) /\ agent'.text = <<>> /\ agent'.left = <<>>
        /\ state'.deltas = d
    BY <1>1, <2>1 DEF Shape
  <2> HIDE DEF deltas, said, text, left
  <2>3. Pieces(d, said, <<>>, <<>>) /\ Within(text, FlattenSeq(d))
    BY <1>2, <1>3, CompletingPieces, AddedPieces
  <2> HIDE DEF d
  <2>4. Pieces(d, Append(said, text), <<>>, <<>>)
    BY <1>2, <2>3, SaidPieces
  <2> QED BY <2>2, <2>4 DEF ReplyInv
<1>7. CASE StreamedOnly
  <2>1. /\ state' = state /\ text # <<>> /\ left = <<>>
        /\ agent' = [agent EXCEPT !.said = Append(@, agent.text), !.text = <<>>]
    BY <1>7 DEF StreamedOnly, Notified
  <2>2. /\ agent'.said = Append(said, text) /\ agent'.text = <<>> /\ agent'.left = <<>>
        /\ state'.deltas = deltas
    BY <1>1, <2>1 DEF Shape
  <2> HIDE DEF deltas, said, text, left
  <2>3. PICK before \in Seq(Chunks), sent \in Seq(Chunks) :
            FlattenSeq(deltas) = before \o sent /\ text = sent \o left
    BY <1>2, <2>1 DEF Pieces
  <2>4. text = sent
    BY <2>1, <2>3
  <2>5. Within(text, FlattenSeq(deltas))
    BY <2>3, <2>4, WithinGrows
  <2>6. Pieces(deltas, Append(said, text), <<>>, <<>>)
    BY <1>2, <1>3, <2>5, SaidPieces
  <2> QED BY <2>2, <2>6 DEF ReplyInv
<1>8. CASE TurnCompleted
  <2> DEFINE last == Last(said)
  <2>1. text = <<>>
    BY <1>8 DEF TurnCompleted
  <2>2. left = <<>>
    BY <1>2, <2>1 DEF Pieces
  <2>3. ASSUME NEW d, NEW t, Completed(d, t)
        PROVE  /\ state'.deltas = d /\ agent'.said = t
               /\ agent'.text = <<>> /\ agent'.left = <<>>
    <3>1. /\ state' = [state EXCEPT !.completed = TRUE, !.deltas = d]
          /\ agent' = [agent EXCEPT !.done = TRUE, !.said = t]
      BY <2>3 DEF Completed, Notified
    <3> QED BY <1>1, <2>1, <2>2, <3>1 DEF Shape
  <2>4. \/ Completed(deltas, said)
        \/ said # <<>> /\ Completed(Completing(deltas, last), said)
        \/ said = <<>> /\ \E t \in Texts : Completed(Completing(deltas, t), <<t>>)
    BY <1>8 DEF TurnCompleted
  <2>5. said # <<>> => last \in Seq(Chunks)
    BY <1>2 DEF Pieces, Last
  <2> HIDE DEF deltas, said, text, left, last
  <2>6. CASE Completed(deltas, said)
    BY <1>3, <2>3, <2>6 DEF ReplyInv
  <2>7. CASE said # <<>> /\ Completed(Completing(deltas, last), said)
    BY <1>3, <2>3, <2>5, <2>7, CompletingPieces DEF ReplyInv
  <2>8. CASE said = <<>> /\ \E t \in Texts : Completed(Completing(deltas, t), <<t>>)
    <3>1. PICK t \in Texts : Completed(Completing(deltas, t), <<t>>)
      BY <2>8
    <3>2. t \in Seq(Chunks)
      BY TextIsSeq
    <3>3. Pieces(Completing(deltas, t), Append(said, t), <<>>, <<>>)
      BY <1>3, <3>2, CompletingPieces, SaidPieces
    <3>4. Append(said, t) = <<t>>
      BY <2>8
    <3> QED BY <2>3, <3>1, <3>3, <3>4 DEF ReplyInv
  <2> QED BY <2>4, <2>6, <2>7, <2>8
<1>9. CASE Error
  <2>1. state' = [state EXCEPT !.completed = TRUE, !.error = TRUE] /\ agent' = agent
    BY <1>9 DEF Error, Notified
  <2>2. state'.deltas = deltas
    BY <1>1, <2>1 DEF Shape
  <2> HIDE DEF deltas, said, text, left
  <2> QED BY <1>2, <2>1, <2>2 DEF ReplyInv, said, text, left
<1> QED BY <1>4, <1>5, <1>6, <1>7, <1>8, <1>9

LEMMA FreshReply == ASSUME NEW tools, TurnRuns(tools) PROVE ReplyInv'
<1>1. PICK schema : agent' = [NewAgent EXCEPT !.schema = schema]
  BY DEF TurnRuns
<1>2. agent'.said = <<>> /\ agent'.text = <<>> /\ agent'.left = <<>>
  BY <1>1 DEF NewAgent
<1>3. state'.deltas = <<>>
  BY DEF TurnRuns, Running, NewState
<1> QED BY <1>2, <1>3, NoPieces DEF ReplyInv

LEMMA NextReply == RowsInv /\ ReplyInv /\ [Next]_vars => ReplyInv'
<1> SUFFICES ASSUME RowsInv, ReplyInv, [Next]_vars PROVE ReplyInv'
  OBVIOUS
<1>1. CASE pc' # "run"
  BY <1>1 DEF ReplyInv
<1>2. CASE UNCHANGED <<pc, state, agent>>
  BY <1>2 DEF ReplyInv
<1>3. CASE \E tools : TurnRuns(tools)
  BY <1>3, FreshReply
<1>4. ASSUME NEW c \in Calls, CallStarts(c) \/ CallEnds(c) PROVE ReplyInv'
  <2>1. /\ Shape(state, {"deltas", "completed", "error", "tools"})
        /\ Shape(agent, {"text", "left", "said", "done", "schema", "calls"})
    BY DEF RowsInv, Records
  <2>2. /\ agent'.said = agent.said /\ agent'.text = agent.text /\ agent'.left = agent.left
        /\ state'.deltas = state.deltas /\ pc' = pc
    BY <1>4, <2>1 DEF CallStarts, CallEnds, Notified, Shape
  <2> QED BY <2>2 DEF ReplyInv
<1>5. CASE TurnBegins
  BY <1>1, <1>3, <1>5 DEF TurnBegins
<1>6. CASE \/ TurnEnds \/ Cancelled \/ ServerStep \/ UNCHANGED vars
  BY <1>1, <1>2, <1>6 DEF TurnEnds, Cancelled, ServerStep, ServerWrites, ServerExits, turn, vars
<1>7. ASSUME NEW s \in Servers, Spawns(s) \/ SpawnFails(s) PROVE ReplyInv'
  BY <1>1, <1>2, <1>3, <1>7 DEF Spawns, SpawnFails, turn
<1>8. CASE Takes \/ Deadline \/ EndOfFile
  BY <1>1, <1>2, <1>8 DEF Takes, Deadline, EndOfFile, Ends, turn
<1>9. CASE Reaped
  BY <1>1, <1>3, <1>9 DEF Reaped, NextServer
<1> QED
  BY <1>4, <1>5, <1>6, <1>7, <1>8, <1>9, NoteReply, Zenon DEF Next, SpawnStep

\* Whatever of a message was streamed, skipped or repeated, in either schema, each
\* message the agent said is whole in the reply.
THEOREM MessagesAreWhole == Spec => []ReplyIsWhole
<1>1. Init => RowsInv /\ ReplyInv
  BY InitRows DEF Init, ReplyInv
<1>2. RowsInv /\ ReplyInv /\ [Next]_vars => RowsInv' /\ ReplyInv'
  BY NextRows, NextReply
<1>3. RowsInv /\ ReplyInv => ReplyIsWhole
  <2> SUFFICES ASSUME ReplyInv, pc = "run"
               PROVE  \A i \in DOMAIN agent.said : Within(agent.said[i], Reply)
    BY DEF ReplyIsWhole
  <2>1. agent.said \in Seq(Seq(Chunks))
        /\ \A i \in 1 .. Len(agent.said) : Within(agent.said[i], Reply)
    BY DEF ReplyInv, Pieces, Reply
  <2>2. DOMAIN agent.said = 1 .. Len(agent.said)
    BY <2>1
  <2> QED BY <2>1, <2>2, Zenon
<1> QED
  BY <1>1, <1>2, <1>3, PTL DEF Spec
=============================================================================
