--------------------------- MODULE ExecutorProofs ---------------------------
(***************************************************************************)
(* Theorems about Executor, for any number of messages and of              *)
(* notifications in flight.  Part 1 is type correctness, whatever happens. *)
(* Part 2 is what _turn_lock guards, unless shutdown(), which takes no     *)
(* lock, is called (Calm): the cached child, thread and turn fit together, *)
(* and a failed child is left.  Part 3 keeps the turns on a child apart    *)
(* under the plain protocol (Plain), part 4 puts the handshake first for a *)
(* child that accepts it (Greeted), part 5 follows each message to the one *)
(* turn that is given it, whatever happens.                                *)
(***************************************************************************)
EXTENDS Executor, FiniteSetTheorems, TLAPS

-----------------------------------------------------------------------------
(* Part 1: types.                                                          *)

StateType == [completed : BOOLEAN, error : BOOLEAN, turn : NoneOr]

FlagType == inventory \in BOOLEAN /\ state \in StateType

FieldType ==
    /\ appServer \in NoneOr /\ threadId \in NoneOr /\ currentTurn \in NoneOr
    /\ holder \in NoneOr /\ sub \in NoneOr
    /\ lockQ \in Seq(Messages)
    /\ shut \in [pc : {"idle", "closing", "done"}, child : NoneOr, turn : NoneOr]

CoroType ==
    /\ pc \in [Messages -> Stages]
    /\ on \in [Messages -> NoneOr]
    /\ got \in [Messages -> Results]

\* A request that is answered comes from a message.
Asked == {r \in Request : r.kind \in RequestStages => r.from \in Messages}

PeerType ==
    /\ child \in [Messages -> {"none", "up", "hung", "dead", "closed"}]
    /\ inited \subseteq Messages
    /\ reqQ \in [Messages -> Seq(Asked)]
    /\ wire \in [Messages -> Seq(Line)]
    /\ active \in [Messages -> SUBSET Messages]

HistoryType ==
    /\ inputs \in [Messages -> SUBSET Messages]
    /\ seen \in [Messages -> SUBSET Messages]
    /\ order \in Seq(Messages)
    /\ failed \subseteq Messages /\ late \subseteq Messages
    /\ reply \in [Messages -> {"none", "text", "error", "placeholder", "raised"}]

\* The cached child, and each child that a request waits for, was started.
StartedInv ==
    /\ appServer # 0 => child[appServer] # "none"
    /\ \A m \in Messages : pc[m] \in RequestStages => on[m] # 0 /\ child[on[m]] # "none"
    /\ \A m \in Messages : pc[m] = "turn" => on[m] # 0

TypeInv == FlagType /\ FieldType /\ CoroType /\ PeerType /\ HistoryType /\ StartedInv

LEMMA Numbers ==
    /\ Messages \subseteq NoneOr
    /\ 0 \in NoneOr /\ 0 \notin Messages
    /\ \A g \in NoneOr : g # 0 => g \in Messages
  BY ExecutorAssumption DEF Messages, NoneOr

LEMMA InitType == Init => TypeInv
<1> SUFFICES ASSUME Init PROVE TypeInv
  OBVIOUS
<1> USE Numbers DEF Init
<1>1. FlagType
  BY DEF FlagType, StateType, NewState
<1>2. FieldType
  BY DEF FieldType
<1>3. CoroType
  BY DEF CoroType, Stages, TurnStages, Results
<1>4. PeerType
  BY DEF PeerType
<1>5. HistoryType
  BY DEF HistoryType
<1>6. StartedInv
  BY DEF StartedInv, RequestStages
<1> QED BY <1>1, <1>2, <1>3, <1>4, <1>5, <1>6 DEF TypeInv

LEMMA TypeInvIsType == TypeInv => TypeOK
<1> SUFFICES ASSUME TypeInv PROVE TypeOK
  OBVIOUS
<1>1. reqQ \in [Messages -> Seq(Request)]
  <2>1. \A q \in Seq(Asked) : q \in Seq(Request)
    BY DEF Asked
  <2> QED BY <2>1 DEF TypeInv, PeerType
<1>2. /\ inventory \in BOOLEAN
      /\ state \in [completed : BOOLEAN, error : BOOLEAN, turn : NoneOr]
  BY Zenon DEF TypeInv, FlagType, StateType
<1> HIDE DEF Request
<1>3. FieldType /\ CoroType /\ PeerType /\ HistoryType /\ StartedInv
  BY DEF TypeInv
<1>4. {appServer, threadId, currentTurn, holder, sub} \subseteq NoneOr
  BY <1>3 DEF FieldType
<1> QED BY <1>1, <1>2, <1>3, <1>4, Zenon
        DEF FieldType, CoroType, PeerType, HistoryType, StartedInv, TypeOK

\* The pure fields of a turn's state.
LEMMA StateFields ==
  ASSUME NEW r \in StateType, NEW t \in NoneOr, NEW a \in BOOLEAN, NEW b \in BOOLEAN
  PROVE  /\ [r EXCEPT !.turn = t] \in StateType
         /\ [r EXCEPT !.completed = a, !.error = b] \in StateType
  BY DEF StateType

LEMMA NewStateType == NewState \in StateType
  BY Numbers DEF NewState, StateType

LEMMA Fields ==
  ASSUME TypeInv, NEW m \in Messages, NEW g \in NoneOr, NEW s \in RequestStages
  PROVE  RequestOf(m, s, g) \in Asked
  BY Numbers DEF TypeInv, FieldType, RequestOf, ThreadFor, Asked, Request

LEMMA GotoType ==
  ASSUME TypeInv, NEW m \in Messages, NEW s \in Stages, NEW g \in NoneOr, Goto(m, s, g)
  PROVE  CoroType' /\ reqQ' \in [Messages -> Seq(Asked)]
<1>1. CoroType'
  BY DEF TypeInv, CoroType, Goto, Results
<1>2. CASE s \in RequestStages
  <2>1. RequestOf(m, s, g) \in Asked
    BY <1>2, Fields
  <2>2. CASE g \in Messages
    BY <1>1, <1>2, <2>1, <2>2 DEF Goto, TypeInv, PeerType
  <2>3. CASE g \notin Messages
    BY <1>1, <1>2, <2>3 DEF Goto, TypeInv, PeerType
  <2> QED BY <2>2, <2>3
<1>3. CASE s \notin RequestStages
  BY <1>1, <1>3 DEF Goto, TypeInv, PeerType
<1> QED BY <1>2, <1>3

LEMMA EndType ==
  ASSUME TypeInv, NEW m \in Messages,
         NEW how \in {"none", "text", "error", "placeholder", "raised"}, End(m, how)
  PROVE  /\ CoroType'
         /\ reqQ' = reqQ
         /\ reply' \in [Messages -> {"none", "text", "error", "placeholder", "raised"}]
  BY DEF TypeInv, CoroType, HistoryType, End, Stages, Results

LEMMA StageTypes ==
  /\ FirstStage \in {"starting", "threading", "turnStart", "mcp"}
  /\ StageAfterInit \in {"threading", "turnStart", "mcp"}
  /\ StageAfterThread \in {"turnStart", "mcp"}
  /\ FirstStage = "starting" <=> appServer = 0
  BY DEF FirstStage, StageAfterInit, StageAfterThread

LEMMA SubscribedType ==
  ASSUME TypeInv, NEW s, NEW g \in NoneOr, Subscribed(s, g)
  PROVE  sub' \in NoneOr /\ (state' = state \/ state' = NewState)
  BY DEF TypeInv, FieldType, Subscribed, turn

\* Message m moves, and nobody else; what it waits for was started.
LEMMA StartedMoves ==
  ASSUME TypeInv, NEW m \in Messages, NEW s \in Stages, NEW g \in NoneOr,
         pc' = [pc EXCEPT ![m] = s], on' = [on EXCEPT ![m] = g],
         child' = child, appServer' \in {0, appServer},
         s \in RequestStages => g # 0 /\ child[g] # "none",
         s = "turn" => g # 0
  PROVE  StartedInv'
  BY DEF TypeInv, CoroType, StartedInv

\* `async with self._turn_lock`.
LEMMA LockPathType ==
  ASSUME TypeInv, NEW m \in Messages, LockPath(m)
  PROVE  /\ holder' \in NoneOr /\ sub' \in NoneOr
         /\ lockQ' \in Seq(Messages)
         /\ state' = state \/ state' = NewState
         /\ CoroType' /\ reqQ' \in [Messages -> Seq(Asked)]
         /\ child' = child /\ appServer' = appServer => StartedInv'
<1>1. FirstStage \in Stages /\ "queued" \in Stages /\ appServer \in NoneOr
  BY StageTypes DEF Stages, TurnStages, TypeInv, FieldType
<1>2. CASE holder = 0 /\ lockQ = <<>>
  <2>1. Goto(m, FirstStage, appServer) /\ Subscribed(FirstStage, appServer)
    BY <1>2 DEF LockPath
  <2>2. CoroType' /\ reqQ' \in [Messages -> Seq(Asked)]
    BY <1>1, <2>1, GotoType
  <2>3. sub' \in NoneOr /\ (state' = state \/ state' = NewState)
    BY <1>1, <2>1, SubscribedType
  <2>4. holder' \in NoneOr /\ lockQ' \in Seq(Messages)
    BY <1>2, Numbers DEF LockPath, TypeInv, FieldType
  <2>5. ASSUME child' = child, appServer' = appServer
        PROVE  StartedInv'
    <3>1. FirstStage \in RequestStages => appServer # 0 /\ child[appServer] # "none"
      BY StageTypes DEF RequestStages, TypeInv, StartedInv
    <3>2. FirstStage # "turn"
      BY StageTypes
    <3> QED BY <1>1, <2>1, <2>5, <3>1, <3>2, StartedMoves DEF Goto
  <2> QED BY <2>2, <2>3, <2>4, <2>5
<1>3. CASE ~(holder = 0 /\ lockQ = <<>>)
  <2>1. Goto(m, "queued", 0) /\ UNCHANGED <<holder, turn>> /\ lockQ' = Append(lockQ, m)
    BY <1>3 DEF LockPath
  <2>2. CoroType' /\ reqQ' \in [Messages -> Seq(Asked)]
    BY <1>1, <2>1, GotoType, Numbers
  <2>3. /\ sub' \in NoneOr /\ holder' \in NoneOr /\ lockQ' \in Seq(Messages)
        /\ state' = state
    BY <2>1 DEF turn, TypeInv, FieldType
  <2>4. child' = child /\ appServer' = appServer => StartedInv'
    BY <1>1, <2>1, StartedMoves, Numbers DEF Goto, RequestStages
  <2> QED BY <2>2, <2>3, <2>4
<1> QED BY <1>2, <1>3

-----------------------------------------------------------------------------
(* One lemma per group of steps.                                           *)

LEMMA SteerType ==
  ASSUME TypeInv, NEW m \in Messages, Arrive(m) \/ SteerStep(m)
  PROVE  TypeInv'
<1> USE DEF executor, lock, turn
<1>1. ASSUME LockPath(m),
             UNCHANGED <<executor, shut, child, inited, wire, active, inputs, seen, order,
                         failed, reply>>,
             late' \in {late, late \cup {m}}
      PROVE  TypeInv'
  <2>1. StartedInv' /\ CoroType'
    BY <1>1, LockPathType
  <2>2. (state' = state \/ state' = NewState) /\ inventory' = inventory
    BY <1>1, LockPathType
  <2>3. FlagType'
    BY <2>2, NewStateType, Zenon DEF TypeInv, FlagType
  <2>4. FieldType'
    BY <1>1, LockPathType DEF TypeInv, FieldType
  <2>5. PeerType'
    BY <1>1, LockPathType DEF TypeInv, PeerType
  <2>6. HistoryType'
    BY <1>1 DEF TypeInv, HistoryType
  <2> QED BY <2>1, <2>3, <2>4, <2>5, <2>6 DEF TypeInv
<1>2. ASSUME NEW how \in {"placeholder", "raised"}, End(m, how),
             UNCHANGED <<executor, lock, turn, shut, child, inited, wire, active, inputs,
                         seen, order, failed, late>>
      PROVE  TypeInv'
  <2>1. CoroType' /\ reqQ' = reqQ /\ HistoryType'
    BY <1>2, EndType DEF TypeInv, HistoryType
  <2>2. StartedInv'
    <3>1. "done" \in Stages /\ on[m] \in NoneOr
      BY DEF Stages, TypeInv, CoroType
    <3>2. pc' = [pc EXCEPT ![m] = "done"] /\ on' = [on EXCEPT ![m] = on[m]]
      BY <1>2 DEF End, TypeInv, CoroType
    <3> QED BY <1>2, <3>1, <3>2, StartedMoves DEF RequestStages
  <2>3. FlagType'
    BY <1>2, Zenon DEF TypeInv, FlagType
  <2>4. FieldType' /\ PeerType'
    BY <1>2, <2>1 DEF TypeInv, FieldType, PeerType
  <2> QED BY <2>1, <2>2, <2>3, <2>4 DEF TypeInv
<1>3. CASE Arrive(m) /\ CanSteer
  <2>1. /\ Goto(m, "steering", appServer)
        /\ appServer # 0 /\ appServer \in NoneOr
        /\ UNCHANGED <<executor, lock, turn, shut, child, inited, wire, active, history>>
    BY <1>3 DEF Arrive, CanSteer, TypeInv, FieldType
  <2>2. CoroType' /\ reqQ' \in [Messages -> Seq(Asked)]
    BY <2>1, GotoType DEF Stages
  <2>3. StartedInv'
    BY <2>1, StartedMoves DEF Goto, Stages, TypeInv, StartedInv
  <2>4. FlagType'
    BY <2>1, Zenon DEF TypeInv, FlagType
  <2>5. FieldType' /\ PeerType' /\ HistoryType'
    BY <2>1, <2>2 DEF TypeInv, FieldType, PeerType, HistoryType, history
  <2> QED BY <2>2, <2>3, <2>4, <2>5 DEF TypeInv
<1>4. CASE Arrive(m) /\ ~CanSteer
  BY <1>1, <1>4 DEF Arrive, history
<1>5. CASE SteerRefused(m)
  BY <1>1, <1>5 DEF SteerRefused, history
<1>6. CASE SteerTimesOut(m)
  BY <1>1, <1>6 DEF SteerTimesOut
<1>7. CASE SteerAccepted(m)
  BY <1>2, <1>7 DEF SteerAccepted
<1>8. CASE SteerLosesChild(m)
  BY <1>2, <1>8 DEF SteerLosesChild
<1> QED BY <1>3, <1>4, <1>5, <1>6, <1>7, <1>8 DEF SteerStep

\* Steps of the coroutine that holds the lock.
LEMMA TurnType ==
  ASSUME TypeInv, NEW m \in Messages, LockGranted(m) \/ TurnStep(m)
  PROVE  TypeInv'
<1> USE DEF executor, lock, turn, history
<1>0. /\ on[m] \in NoneOr /\ appServer \in NoneOr /\ on = [on EXCEPT ![m] = on[m]]
      /\ {"done", "closing", "turn", "init"} \subseteq Stages
      /\ m \in NoneOr /\ 0 \in NoneOr /\ m # 0
  BY Numbers DEF TypeInv, CoroType, FieldType, Stages, TurnStages, RequestStages
<1>1. CASE LockGranted(m)
  <2>1. /\ Goto(m, FirstStage, appServer) /\ Subscribed(FirstStage, appServer)
        /\ FirstStage \in Stages
        /\ UNCHANGED <<executor, shut, child, inited, wire, active, history>>
    BY <1>1, StageTypes DEF LockGranted, Stages, TurnStages
  <2>2. CoroType' /\ reqQ' \in [Messages -> Seq(Asked)]
    BY <1>0, <2>1, GotoType
  <2>3. sub' \in NoneOr /\ (state' = state \/ state' = NewState)
    BY <1>0, <2>1, SubscribedType
  <2>4. FlagType'
    BY <2>1, <2>3, NewStateType, Zenon DEF TypeInv, FlagType
  <2>5. FieldType'
    BY <1>0, <1>1, <2>1, <2>3 DEF LockGranted, TypeInv, FieldType
  <2>6. PeerType' /\ HistoryType'
    BY <2>1, <2>2 DEF TypeInv, PeerType, HistoryType
  <2>7. StartedInv'
    <3>1. /\ FirstStage \in RequestStages => appServer # 0 /\ child[appServer] # "none"
          /\ FirstStage # "turn"
      BY StageTypes DEF RequestStages, TypeInv, StartedInv
    <3> QED BY <1>0, <2>1, <3>1, StartedMoves DEF Goto
  <2> QED BY <2>2, <2>4, <2>5, <2>6, <2>7 DEF TypeInv
<1>2. CASE ChildStarted(m)
  <2>1. /\ Goto(m, "init", m) /\ appServer' = m /\ child' = [child EXCEPT ![m] = "up"]
        /\ UNCHANGED <<threadId, currentTurn, inventory, lock, turn, shut, inited, wire,
                       active, history>>
    BY <1>2 DEF ChildStarted
  <2>2. CoroType' /\ reqQ' \in [Messages -> Seq(Asked)]
    BY <1>0, <2>1, GotoType
  <2>3. FlagType'
    BY <2>1, Zenon DEF TypeInv, FlagType
  <2>4. FieldType' /\ PeerType' /\ HistoryType'
    BY <1>0, <2>1, <2>2 DEF TypeInv, FieldType, PeerType, HistoryType
  <2>5. StartedInv'
    BY <1>0, <2>1, Numbers DEF Goto, TypeInv, CoroType, PeerType, StartedInv
  <2> QED BY <2>2, <2>3, <2>4, <2>5 DEF TypeInv
\* execute() ends without or after its turn.
<1>3. ASSUME NEW how \in {"text", "error", "raised"}, End(m, how),
             UNCHANGED <<child, inited, wire, active, inputs, seen, order, late, state,
                         shut>>,
             failed' \in {failed, failed \cup {on[m]}},
             pc[m] \in RequestStages \cup {"turn"} \/ failed' = failed,
             holder' \in NoneOr, lockQ' = lockQ, sub' \in NoneOr,
             appServer' \in {0, appServer}, threadId' \in NoneOr, currentTurn' \in NoneOr,
             inventory' = inventory \/ inventory' \in BOOLEAN
      PROVE  TypeInv'
  <2>1. CoroType' /\ reqQ' = reqQ
        /\ reply' \in [Messages -> {"none", "text", "error", "placeholder", "raised"}]
    BY <1>3, EndType
  <2>2. FlagType'
    BY <1>3, Zenon DEF TypeInv, FlagType
  <2>3. FieldType' /\ PeerType'
    BY <1>0, <1>3, <2>1 DEF TypeInv, FieldType, PeerType
  <2>4. HistoryType'
    <3>1. failed' \subseteq Messages
      BY <1>0, <1>3, Numbers DEF TypeInv, HistoryType, StartedInv
    <3> QED BY <1>3, <2>1, <3>1 DEF TypeInv, HistoryType
  <2>5. StartedInv'
    BY <1>0, <1>3, StartedMoves DEF End, RequestStages
  <2> QED BY <2>1, <2>2, <2>3, <2>4, <2>5 DEF TypeInv
\* It goes on to another stage.
<1>4. ASSUME NEW s \in Stages, s # "turn", NEW g \in NoneOr, Goto(m, s, g),
             s \in RequestStages => g # 0 /\ child[g] # "none",
             UNCHANGED <<child, inited, wire, active, inputs, seen, order, late, lock,
                         shut, reply>>,
             failed' \in {failed, failed \cup {on[m]}},
             pc[m] \in RequestStages \cup {"turn"} \/ failed' = failed,
             sub' \in NoneOr, state' = state \/ state' = NewState,
             appServer' \in {0, appServer}, threadId' \in NoneOr, currentTurn' \in NoneOr,
             inventory' = inventory \/ inventory' \in BOOLEAN
      PROVE  TypeInv'
  <2>1. CoroType' /\ reqQ' \in [Messages -> Seq(Asked)]
    BY <1>4, GotoType
  <2>2. FlagType'
    BY <1>4, NewStateType, Zenon DEF TypeInv, FlagType
  <2>3. FieldType' /\ PeerType'
    BY <1>0, <1>4, <2>1 DEF TypeInv, FieldType, PeerType
  <2>4. HistoryType'
    <3>1. failed' \subseteq Messages
      BY <1>0, <1>4, Numbers DEF TypeInv, HistoryType, StartedInv
    <3> QED BY <1>4, <3>1 DEF TypeInv, HistoryType
  <2>5. StartedInv'
    BY <1>0, <1>4, StartedMoves DEF Goto
  <2> QED BY <2>1, <2>2, <2>3, <2>4, <2>5 DEF TypeInv
<1>5. CASE StartFails(m)
  <2>1. /\ End(m, "raised") /\ holder' = 0 /\ lockQ' = lockQ
        /\ UNCHANGED <<executor, turn, shut, child, inited, wire, active, inputs, seen,
                       order, failed, late>>
    BY <1>5 DEF StartFails, Release
  <2> QED BY <1>0, <1>3, <2>1 DEF TypeInv, FieldType
<1>6. CASE Initialized(m)
  <2> DEFINE g == on[m]
  <2>1. pc[m] = "init" /\ g \in Messages /\ child[g] # "none"
    BY <1>0, <1>6, Numbers DEF Initialized, TypeInv, StartedInv, RequestStages
  <2>2. PICK next : /\ reqQ' = [reqQ EXCEPT ![g] = @ \o <<InitializedNote>> \o next]
                    /\ \/ next = <<>>
                       \/ \E s \in RequestStages : next = <<RequestOf(m, s, g)>>
    BY <1>6 DEF Initialized
  <2>3. reqQ' \in [Messages -> Seq(Asked)]
    <3>1. InitializedNote \in Asked
      BY <1>0 DEF InitializedNote, Asked, Request, RequestStages
    <3>2. next \in Seq(Asked)
      <4>1. ASSUME NEW s \in RequestStages
            PROVE  <<RequestOf(m, s, g)>> \in Seq(Asked)
        <5>1. RequestOf(m, s, g) \in Asked
          BY <1>0, Fields
        <5> QED BY <5>1
      <4>2. <<>> \in Seq(Asked)
        OBVIOUS
      <4> QED BY <2>2, <4>1, <4>2, Zenon
    <3>3. reqQ[g] \in Seq(Asked)
      BY <2>1 DEF TypeInv, PeerType
    <3>4. reqQ[g] \o <<InitializedNote>> \o next \in Seq(Asked)
      BY <3>1, <3>2, <3>3
    <3> QED BY <2>1, <2>2, <3>4 DEF TypeInv, PeerType
  <2>4. CASE appServer # 0
    <3> DEFINE s == StageAfterInit
    <3>1. /\ pc' = [pc EXCEPT ![m] = s] /\ got' = [got EXCEPT ![m] = "none"]
          /\ Subscribed(s, g)
          /\ UNCHANGED <<lock, reply, executor, on, shut, child, inited, wire, active,
                         inputs, seen, order, failed, late>>
      BY <1>6, <2>4 DEF Initialized
    <3>2. s \in Stages /\ s # "turn"
      BY StageTypes DEF Stages, TurnStages
    <3>3. sub' \in NoneOr /\ (state' = state \/ state' = NewState)
      BY <1>0, <3>1, SubscribedType
    <3>4. FlagType'
      BY <3>1, <3>3, NewStateType, Zenon DEF TypeInv, FlagType
    <3> HIDE DEF s
    <3>5. CoroType' /\ FieldType'
      BY <3>1, <3>2, <3>3 DEF TypeInv, CoroType, FieldType, Results
    <3>6. PeerType' /\ HistoryType'
      BY <2>3, <3>1 DEF TypeInv, PeerType, HistoryType
    <3>7. StartedInv'
      BY <1>0, <2>1, <3>1, <3>2, StartedMoves, Numbers
    <3> QED BY <3>4, <3>5, <3>6, <3>7 DEF TypeInv
  <2>5. CASE appServer = 0
    <3>1. /\ pc' = [pc EXCEPT ![m] = "done"] /\ got' = [got EXCEPT ![m] = "none"]
          /\ reply' = [reply EXCEPT ![m] = "raised"]
          /\ holder' = 0 /\ lockQ' = lockQ
          /\ UNCHANGED <<turn, executor, on, shut, child, inited, wire, active,
                         inputs, seen, order, failed, late>>
      BY <1>6, <2>5 DEF Initialized, Release
    <3>2. FlagType'
      BY <3>1, Zenon DEF TypeInv, FlagType
    <3>3. CoroType' /\ FieldType'
      BY <1>0, <3>1 DEF TypeInv, CoroType, FieldType, Results
    <3>4. PeerType' /\ HistoryType'
      BY <2>3, <3>1 DEF TypeInv, PeerType, HistoryType
    <3>5. StartedInv'
      BY <1>0, <3>1, StartedMoves DEF RequestStages
    <3> QED BY <3>2, <3>3, <3>4, <3>5 DEF TypeInv
  <2> QED BY <2>4, <2>5
<1>7. CASE ThreadStarted(m)
  <2>1. /\ pc[m] = "threading" /\ threadId' = on[m]
        /\ UNCHANGED <<appServer, currentTurn, inventory, shut, child, inited, wire, active,
                       inputs, seen, order, failed, late>>
        /\ on[m] # 0 /\ child[on[m]] # "none"
    BY <1>7 DEF ThreadStarted, TypeInv, StartedInv, RequestStages
  <2>2. CASE appServer # 0
    <3>1. /\ Goto(m, StageAfterThread, on[m]) /\ Subscribed(StageAfterThread, on[m])
          /\ UNCHANGED <<lock, reply>>
      BY <1>7, <2>2 DEF ThreadStarted
    <3>2. StageAfterThread \in Stages /\ StageAfterThread # "turn"
      BY StageTypes DEF Stages, TurnStages
    <3>3. sub' \in NoneOr /\ (state' = state \/ state' = NewState)
      BY <1>0, <3>1, SubscribedType
    <3> QED BY <1>0, <1>4, <2>1, <3>1, <3>2, <3>3 DEF TypeInv, FieldType
  <2>3. CASE appServer = 0
    <3>1. End(m, "raised") /\ holder' = 0 /\ lockQ' = lockQ /\ UNCHANGED turn
      BY <1>7, <2>3 DEF ThreadStarted, Release
    <3> QED BY <1>0, <1>3, <2>1, <3>1 DEF TypeInv, FieldType
  <2> QED BY <2>2, <2>3
<1>8. CASE Enumerated(m)
  <2>1. /\ inventory' \in BOOLEAN
        /\ UNCHANGED <<appServer, threadId, currentTurn, shut, child, inited, wire, active,
                       inputs, seen, order, failed, late>>
    BY <1>8, Zenon DEF Enumerated
  <2>2. CASE appServer # 0
    <3>1. /\ Goto(m, "turnStart", appServer) /\ Subscribed("turnStart", appServer)
          /\ UNCHANGED <<lock, reply>>
      BY <1>8, <2>2 DEF Enumerated
    <3>2. "turnStart" \in Stages /\ child[appServer] # "none"
      BY <2>2 DEF Stages, TurnStages, TypeInv, StartedInv
    <3>3. sub' \in NoneOr /\ (state' = state \/ state' = NewState)
      BY <1>0, <3>1, SubscribedType
    <3> QED BY <1>0, <1>4, <2>1, <2>2, <3>1, <3>2, <3>3 DEF TypeInv, FieldType
  <2>3. CASE appServer = 0
    <3>1. End(m, "raised") /\ holder' = 0 /\ lockQ' = lockQ /\ UNCHANGED turn
      BY <1>8, <2>3 DEF Enumerated, Release
    <3> QED BY <1>0, <1>3, <2>1, <3>1 DEF TypeInv, FieldType
  <2> QED BY <2>2, <2>3
<1>9. CASE TurnStarted(m)
  <2>1. /\ pc[m] = "turnStart" /\ currentTurn' = m /\ state' = [state EXCEPT !.turn = m]
        /\ pc' = [pc EXCEPT ![m] = "turn"] /\ got' = [got EXCEPT ![m] = "none"]
        /\ UNCHANGED <<appServer, threadId, inventory, lock, on, sub, shut, peers, history>>
    BY <1>9 DEF TurnStarted
  <2>2. state \in StateType
    BY Zenon DEF TypeInv, FlagType
  <2>3. \A r \in StateType : [r EXCEPT !.turn = m] \in StateType
    BY <1>0 DEF StateType
  <2>4. FlagType'
    BY <2>1, <2>2, <2>3, Zenon DEF TypeInv, FlagType
  <2>5. CoroType' /\ FieldType'
    BY <1>0, <2>1 DEF TypeInv, CoroType, FieldType, Results
  <2>6. PeerType' /\ HistoryType'
    BY <2>1 DEF TypeInv, PeerType, HistoryType, peers
  <2>7. StartedInv'
    <3>1. on[m] # 0
      BY <2>1 DEF TypeInv, StartedInv, RequestStages
    <3> QED BY <1>0, <2>1, <3>1, StartedMoves DEF peers, RequestStages
  <2> QED BY <2>4, <2>5, <2>6, <2>7 DEF TypeInv
<1>10. CASE TurnCompletes(m)
  <2>1. /\ End(m, IF state.error THEN "error" ELSE "text")
        /\ sub' = 0 /\ currentTurn' = 0 /\ holder' = 0 /\ lockQ' = lockQ
        /\ UNCHANGED <<appServer, threadId, inventory, state, shut, child, inited, wire,
                       active, inputs, seen, order, failed, late>>
    BY <1>10 DEF TurnCompletes, Unsubscribed, Release
  <2>2. \E how \in {"text", "error", "raised"} : End(m, how)
    BY <2>1
  <2> QED BY <1>0, <1>3, <2>1, <2>2 DEF TypeInv, FieldType
<1>11. CASE TurnRefused(m)
  <2>1. /\ End(m, "error") /\ holder' = 0 /\ lockQ' = lockQ
        /\ sub' \in {0, sub} /\ currentTurn' \in {0, currentTurn}
        /\ UNCHANGED <<appServer, threadId, inventory, state, shut, child, inited, wire,
                       active, inputs, seen, order, failed, late>>
    BY <1>11 DEF TurnRefused, Unsubscribed, Release
  <2> QED BY <1>0, <1>3, <2>1 DEF TypeInv, FieldType
<1>12. CASE TurnFails(m)
  <2>1. /\ pc[m] \in RequestStages \cup {"turn"}
        /\ sub' \in {0, sub} /\ appServer' = 0 /\ threadId' = 0 /\ currentTurn' = 0
        /\ failed' = failed \cup {on[m]}
        /\ UNCHANGED <<inventory, state, shut, child, inited, wire, active, inputs, seen,
                       order, late>>
    BY <1>12 DEF TurnFails, ResetFields, RequestStages
  <2>2. CASE appServer # 0
    <3>1. Goto(m, "closing", appServer) /\ UNCHANGED <<lock, reply>>
      BY <1>12, <2>2 DEF TurnFails
    <3>2. "closing" \notin RequestStages /\ "closing" # "turn"
      BY DEF RequestStages
    <3> QED BY <1>0, <1>4, <2>1, <3>1, <3>2 DEF TypeInv, FieldType
  <2>3. CASE appServer = 0
    <3>1. End(m, "error") /\ holder' = 0 /\ lockQ' = lockQ
      BY <1>12, <2>3 DEF TurnFails, Release
    <3> QED BY <1>0, <1>3, <2>1, <3>1 DEF TypeInv, FieldType
  <2> QED BY <2>2, <2>3
<1>13. CASE Closed(m)
  <2>1. /\ Close(on[m]) /\ holder' = 0 /\ lockQ' = lockQ
        /\ pc' = [pc EXCEPT ![m] = "done"] /\ reply' = [reply EXCEPT ![m] = "error"]
        /\ UNCHANGED <<executor, on, got, turn, shut, inited, inputs, seen, order, failed,
                       late>>
    BY <1>13 DEF Closed, Release
  <2>2. FlagType'
    BY <2>1, Zenon DEF TypeInv, FlagType
  <2>3. CoroType' /\ FieldType'
    BY <1>0, <2>1 DEF TypeInv, CoroType, FieldType
  <2>4. PeerType'
    <3>1. /\ child' = [child EXCEPT ![on[m]] = "closed"]
          /\ active' = [active EXCEPT ![on[m]] = {}]
          /\ reqQ' = [reqQ EXCEPT ![on[m]] = <<>>]
          /\ wire' = [wire EXCEPT ![on[m]] = <<>>]
          /\ inited' = inited
      BY <2>1 DEF Close
    <3>2. <<>> \in Seq(Asked) /\ <<>> \in Seq(Line)
      OBVIOUS
    <3>3. reqQ' \in [Messages -> Seq(Asked)] /\ wire' \in [Messages -> Seq(Line)]
      BY <3>1, <3>2, Zenon DEF TypeInv, PeerType
    <3> QED BY <3>1, <3>3 DEF TypeInv, PeerType
  <2>6. HistoryType'
    BY <2>1 DEF TypeInv, HistoryType
  <2>5. StartedInv'
    BY <1>0, <2>1 DEF TypeInv, CoroType, PeerType, StartedInv, Close, RequestStages
  <2> QED BY <2>2, <2>3, <2>4, <2>5, <2>6 DEF TypeInv
<1> QED BY <1>1, <1>2, <1>5, <1>6, <1>7, <1>8, <1>9, <1>10, <1>11, <1>12, <1>13 DEF TurnStep

\* What the pipes and the processes of children may become.
LEMMA StartedStays ==
  ASSUME TypeInv, pc' = pc, on' = on, appServer' \in {0, appServer},
         \A g \in Messages : child[g] # "none" => child'[g] # "none"
  PROVE  StartedInv'
<1>1. \A m \in Messages : on[m] \in NoneOr
  BY DEF TypeInv, CoroType
<1>2. appServer \in NoneOr
  BY DEF TypeInv, FieldType
<1> QED BY <1>1, <1>2, Numbers DEF TypeInv, StartedInv

LEMMA CloseKeepsType ==
  ASSUME TypeInv, NEW g \in NoneOr, Close(g)
  PROVE  /\ child' \in [Messages -> {"none", "up", "hung", "dead", "closed"}]
         /\ active' \in [Messages -> SUBSET Messages]
         /\ reqQ' \in [Messages -> Seq(Asked)] /\ wire' \in [Messages -> Seq(Line)]
         /\ \A h \in Messages : child[h] # "none" => child'[h] # "none"
<1>1. <<>> \in Seq(Asked) /\ <<>> \in Seq(Line)
  OBVIOUS
<1>2. reqQ' \in [Messages -> Seq(Asked)] /\ wire' \in [Messages -> Seq(Line)]
  BY <1>1, Zenon DEF TypeInv, PeerType, Close
<1> QED BY <1>2 DEF TypeInv, PeerType, Close

\* cancel(), shutdown() and the reader of a child.
LEMMA OutsideType ==
  ASSUME TypeInv, \/ Cancel \/ Shutdown \/ ShutdownReturns
                  \/ \E g \in Messages : DispatchStep(g)
  PROVE  TypeInv'
<1> USE DEF executor, lock, turn, history, peers, coros
<1>1. CASE Cancel
  <2>1. /\ reqQ' = [reqQ EXCEPT ![appServer] = Append(@, Interrupt)]
        /\ UNCHANGED <<executor, lock, coros, turn, shut, child, inited, wire, active,
                       history>>
    BY <1>1 DEF Cancel
  <2>2. Interrupt \in Asked
    BY Numbers DEF Interrupt, Asked, Request, RequestStages, TypeInv, FieldType
  <2>3. reqQ' \in [Messages -> Seq(Asked)]
    <3>1. CASE appServer \in Messages
      BY <2>1, <2>2, <3>1 DEF TypeInv, PeerType
    <3>2. CASE appServer \notin Messages
      BY <2>1, <3>2 DEF TypeInv, PeerType
    <3> QED BY <3>1, <3>2
  <2>4. FlagType'
    BY <2>1, Zenon DEF TypeInv, FlagType
  <2>5. FieldType' /\ CoroType' /\ PeerType' /\ HistoryType'
    BY <2>1, <2>3 DEF TypeInv, FieldType, CoroType, PeerType, HistoryType
  <2>6. StartedInv'
    BY <2>1, StartedStays
  <2> QED BY <2>4, <2>5, <2>6 DEF TypeInv
<1>2. CASE Shutdown
  <2>1. /\ appServer' = 0 /\ threadId' = 0 /\ currentTurn' = 0
        /\ shut' = [pc |-> IF appServer = 0 THEN "done" ELSE "closing",
                    child |-> appServer, turn |-> holder]
        /\ UNCHANGED <<inventory, lock, coros, turn, peers, history>>
    BY <1>2 DEF Shutdown, ResetFields
  <2>2. FlagType'
    BY <2>1, Zenon DEF TypeInv, FlagType
  <2>3. FieldType' /\ CoroType' /\ PeerType' /\ HistoryType'
    BY <2>1, Numbers DEF TypeInv, FieldType, CoroType, PeerType, HistoryType
  <2>4. StartedInv'
    BY <2>1, StartedStays
  <2> QED BY <2>2, <2>3, <2>4 DEF TypeInv
<1>3. CASE ShutdownReturns
  <2>1. /\ Close(shut.child) /\ shut' = [shut EXCEPT !.pc = "done"]
        /\ shut.child \in NoneOr
        /\ UNCHANGED <<executor, lock, coros, turn, inited, history>>
    BY <1>3 DEF ShutdownReturns, TypeInv, FieldType
  <2>2. FlagType'
    BY <2>1, Zenon DEF TypeInv, FlagType
  <2>3. FieldType' /\ CoroType' /\ HistoryType'
    BY <2>1 DEF TypeInv, FieldType, CoroType, HistoryType
  <2>4. PeerType'
    BY <2>1, CloseKeepsType DEF TypeInv, PeerType
  <2>5. StartedInv'
    BY <2>1, CloseKeepsType, StartedStays
  <2> QED BY <2>2, <2>3, <2>4, <2>5 DEF TypeInv
<1>4. ASSUME NEW g \in Messages, DispatchResponse(g)
      PROVE  TypeInv'
  <2>1. wire[g] \in Seq(Line) /\ wire[g] # <<>> /\ wire' = [wire EXCEPT ![g] = Tail(@)]
    BY <1>4 DEF DispatchResponse, TypeInv, PeerType
  <2>2. Head(wire[g]) \in Line
    BY <2>1
  <2>3. wire' \in [Messages -> Seq(Line)]
    BY <2>1 DEF TypeInv, PeerType
  <2>4. FlagType'
    BY <1>4, Zenon DEF DispatchResponse, TypeInv, FlagType
  <2>5. CoroType'
    <3>1. Head(wire[g]).result \in Results
      BY <2>2 DEF Line
    <3> QED BY <1>4, <3>1 DEF DispatchResponse, TypeInv, CoroType
  <2>6. FieldType' /\ PeerType' /\ HistoryType'
    BY <1>4, <2>3 DEF DispatchResponse, TypeInv, FieldType, PeerType, HistoryType
  <2>7. StartedInv'
    BY <1>4, StartedStays DEF DispatchResponse
  <2> QED BY <2>4, <2>5, <2>6, <2>7 DEF TypeInv
<1>5. ASSUME NEW g \in Messages, DispatchNotification(g)
      PROVE  TypeInv'
  <2> DEFINE n == Head(wire[g])
  <2>1. wire[g] \in Seq(Line) /\ wire[g] # <<>> /\ wire' = [wire EXCEPT ![g] = Tail(@)]
    BY <1>5 DEF DispatchNotification, TypeInv, PeerType
  <2>2. n \in Line
    BY <2>1
  <2>3. wire' \in [Messages -> Seq(Line)]
    BY <2>1 DEF TypeInv, PeerType
  <2>4. seen' \in [Messages -> SUBSET Messages]
    <3>1. n.from \in Messages
      BY <2>2 DEF Line
    <3> QED BY <1>5, <3>1 DEF DispatchNotification, TypeInv, HistoryType
  <2>5. FlagType'
    <3>1. \A r \in StateType :
             [r EXCEPT !.completed = @ \/ n.kind # "delta",
                       !.error = @ \/ n.kind = "error"] \in StateType
      BY DEF StateType
    <3> QED BY <1>5, <3>1, Zenon DEF DispatchNotification, TypeInv, FlagType
  <2>6. FieldType' /\ CoroType' /\ PeerType' /\ HistoryType'
    BY <1>5, <2>3, <2>4
    DEF DispatchNotification, TypeInv, FieldType, CoroType, PeerType, HistoryType
  <2>7. StartedInv'
    BY <1>5, StartedStays DEF DispatchNotification
  <2> QED BY <2>5, <2>6, <2>7 DEF TypeInv
<1> QED BY <1>1, <1>2, <1>3, <1>4, <1>5 DEF DispatchStep

\* The child takes a request, and answers what it answers.
LEMMA HandlesType ==
  ASSUME TypeInv, NEW g \in Messages, NEW kind, Handles(g, kind)
  PROVE  /\ reqQ' \in [Messages -> Seq(Asked)]
         /\ Head(reqQ[g]) \in Asked /\ Head(reqQ[g]).kind = kind
         /\ \A result \in Results :
              kind \in RequestStages /\ Answers(g, result)
                => wire' \in [Messages -> Seq(Line)]
<1>1. reqQ[g] \in Seq(Asked) /\ reqQ[g] # <<>> /\ reqQ' = [reqQ EXCEPT ![g] = Tail(@)]
  BY DEF Handles, TypeInv, PeerType
<1>2. Head(reqQ[g]) \in Asked /\ Head(reqQ[g]).kind = kind
  BY <1>1 DEF Handles
<1>3. reqQ' \in [Messages -> Seq(Asked)]
  BY <1>1 DEF TypeInv, PeerType
<1>4. ASSUME NEW result \in Results, kind \in RequestStages, Answers(g, result)
      PROVE  wire' \in [Messages -> Seq(Line)]
  <2>1. Response(Head(reqQ[g]).from, Head(reqQ[g]).kind, result) \in Line
    BY <1>2, <1>4 DEF Asked, Response, Line
  <2> QED BY <1>4, <2>1 DEF Answers, TypeInv, PeerType
<1> QED BY <1>2, <1>3, <1>4

LEMMA ChildType ==
  ASSUME TypeInv, NEW g \in Messages, ChildStep(g)
  PROVE  TypeInv'
<1> USE DEF executor, lock, turn, coros
\* The executor is where it was.
<1>1. ASSUME UNCHANGED <<executor, lock, coros, turn, shut, seen, failed, late, reply>>,
             \A h \in Messages : child[h] # "none" => child'[h] # "none",
             PeerType', inputs' \in [Messages -> SUBSET Messages], order' \in Seq(Messages)
      PROVE  TypeInv'
  <2>1. FlagType'
    BY <1>1, Zenon DEF TypeInv, FlagType
  <2>2. FieldType' /\ CoroType' /\ HistoryType'
    BY <1>1 DEF TypeInv, FieldType, CoroType, HistoryType
  <2>3. StartedInv'
    BY <1>1, StartedStays
  <2> QED BY <1>1, <2>1, <2>2, <2>3 DEF TypeInv
<1>2. ASSUME NEW kind, Handles(g, kind), inited' \subseteq Messages,
             active' \in [Messages -> SUBSET Messages], wire' \in [Messages -> Seq(Line)],
             inputs' \in [Messages -> SUBSET Messages], order' \in Seq(Messages)
      PROVE  TypeInv'
  <2>1. reqQ' \in [Messages -> Seq(Asked)]
    BY <1>2, HandlesType
  <2>2. UNCHANGED <<executor, lock, coros, turn, shut, child, seen, failed, late, reply>>
    BY <1>2 DEF Handles
  <2>3. PeerType'
    BY <1>2, <2>1, <2>2 DEF TypeInv, PeerType
  <2> QED BY <1>1, <1>2, <2>2, <2>3
<1>3. /\ inited \subseteq Messages /\ active \in [Messages -> SUBSET Messages]
      /\ wire \in [Messages -> Seq(Line)] /\ inputs \in [Messages -> SUBSET Messages]
      /\ order \in Seq(Messages) /\ {"ok", "error", "noId"} \subseteq Results
      /\ {"init", "threading", "turnStart", "steering"} \subseteq RequestStages
  BY DEF TypeInv, PeerType, HistoryType, Results, RequestStages
<1>4. CASE HandlesInitialize(g)
  <2>1. PICK result \in {"ok", "error"} : Answers(g, result)
    BY <1>4 DEF HandlesInitialize
  <2>2. wire' \in [Messages -> Seq(Line)]
    BY <1>3, <1>4, <2>1, HandlesType DEF HandlesInitialize
  <2> QED BY <1>2, <1>3, <1>4, <2>2 DEF HandlesInitialize
<1>5. CASE HandlesInitialized(g)
  BY <1>2, <1>3, <1>5 DEF HandlesInitialized
<1>6. CASE HandlesThreadStart(g)
  <2>1. PICK result \in {"ok", "error", "noId"} : Answers(g, result)
    BY <1>6 DEF HandlesThreadStart, IdAnswers
  <2>2. wire' \in [Messages -> Seq(Line)]
    BY <1>3, <1>6, <2>1, HandlesType DEF HandlesThreadStart
  <2> QED BY <1>2, <1>3, <1>6, <2>2 DEF HandlesThreadStart
<1>7. CASE HandlesTurnStart(g)
  <2> DEFINE m == Head(reqQ[g]).from
  <2>1. m \in Messages
    <3>1. Head(reqQ[g]) \in Asked /\ Head(reqQ[g]).kind = "turnStart"
      BY <1>7, HandlesType DEF HandlesTurnStart
    <3> QED BY <1>3, <3>1 DEF Asked
  <2>2. \E result \in {"ok", "error", "noId"} : Answers(g, result)
    BY <1>7 DEF HandlesTurnStart, IdAnswers
  <2>3. wire' \in [Messages -> Seq(Line)]
    BY <1>3, <1>7, <2>2, HandlesType DEF HandlesTurnStart
  <2>4. /\ active' \in [Messages -> SUBSET Messages]
        /\ inputs' \in [Messages -> SUBSET Messages]
        /\ order' \in Seq(Messages)
    <3>1. CASE UNCHANGED <<active, inputs, order>>
      BY <1>3, <3>1
    <3>2. CASE /\ active' = [active EXCEPT ![g] = @ \cup {m}]
               /\ inputs' = [inputs EXCEPT ![m] = @ \cup {m}]
               /\ order' = Append(order, m)
      BY <1>3, <2>1, <3>2
    <3> QED BY <1>7, <3>1, <3>2, Zenon DEF HandlesTurnStart
  <2> QED BY <1>2, <1>3, <1>7, <2>3, <2>4 DEF HandlesTurnStart
<1>8. CASE HandlesSteer(g)
  <2> DEFINE r == Head(reqQ[g])
  <2>1. r.from \in Messages
    <3>1. Head(reqQ[g]) \in Asked /\ Head(reqQ[g]).kind = "steering"
      BY <1>8, HandlesType DEF HandlesSteer
    <3> QED BY <1>3, <3>1 DEF Asked
  <2>2. \E result \in {"ok", "error"} : Answers(g, result)
    BY <1>8 DEF HandlesSteer
  <2>3. wire' \in [Messages -> Seq(Line)]
    BY <1>3, <1>8, <2>2, HandlesType DEF HandlesSteer
  <2>4. inputs' \in [Messages -> SUBSET Messages] /\ order' \in Seq(Messages)
    <3>1. CASE UNCHANGED <<inputs, order>>
      BY <1>3, <3>1
    <3>2. CASE /\ inputs' = [inputs EXCEPT ![r.turn] = @ \cup {r.from}]
               /\ order' = Append(order, r.from)
      <4>1. order' \in Seq(Messages)
        BY <1>3, <2>1, <3>2
      <4>2. CASE r.turn \in Messages
        BY <1>3, <2>1, <3>2, <4>1, <4>2
      <4>3. CASE r.turn \notin Messages
        BY <1>3, <3>2, <4>1, <4>3
      <4> QED BY <4>2, <4>3
    <3> QED BY <1>8, <3>1, <3>2, Zenon DEF HandlesSteer
  <2> QED BY <1>2, <1>3, <1>8, <2>3, <2>4 DEF HandlesSteer
<1>9. CASE HandlesInterrupt(g)
  <2> DEFINE t == Head(reqQ[g]).turn
  <2>1. /\ active' \in [Messages -> SUBSET Messages]
        /\ wire' \in [Messages -> Seq(Line)]
    <3>1. CASE t \in active[g]
      <4>1. Note("end", t) \in Line
        BY <1>3, <3>1 DEF Note, Line, Results
      <4>2. /\ active' = [active EXCEPT ![g] = @ \ {t}]
            /\ wire' = [wire EXCEPT ![g] = Append(@, Note("end", t))]
        BY <1>9, <3>1 DEF HandlesInterrupt
      <4> HIDE DEF t
      <4> QED BY <1>3, <4>1, <4>2
    <3>2. CASE t \notin active[g]
      BY <1>3, <1>9, <3>2 DEF HandlesInterrupt
    <3> QED BY <3>1, <3>2
  <2> QED BY <1>2, <1>3, <1>9, <2>1 DEF HandlesInterrupt
<1>10. ASSUME NEW t \in Messages, NEW kind \in {"delta", "end", "error"},
              TurnReports(g, t, kind)
       PROVE  TypeInv'
  <2>1. Note(kind, t) \in Line /\ Note("end", t) \in Line
    BY DEF Note, Line, Results
  <2>2. wire' \in [Messages -> Seq(Line)]
    <3>1. wire[g] \in Seq(Line)
      BY <1>3
    <3>2. /\ wire[g] \o <<Note("end", t), Note("end", t)>> \in Seq(Line)
          /\ Append(wire[g], Note(kind, t)) \in Seq(Line)
      BY <2>1, <3>1
    <3> QED BY <1>3, <1>10, <3>2 DEF TurnReports
  <2>3. active' \in [Messages -> SUBSET Messages]
    BY <1>3, <1>10 DEF TurnReports
  <2>4. PeerType'
    BY <1>10, <2>2, <2>3 DEF TurnReports, TypeInv, PeerType
  <2> QED BY <1>1, <1>3, <1>10, <2>4 DEF TurnReports, history
<1>11. CASE ChildDies(g)
  <2>1. <<>> \in Seq(Asked)
    OBVIOUS
  <2>2. reqQ' \in [Messages -> Seq(Asked)]
    BY <1>11, <2>1, Zenon DEF ChildDies, TypeInv, PeerType
  <2>3. PeerType' /\ \A h \in Messages : child[h] # "none" => child'[h] # "none"
    BY <1>11, <2>2 DEF ChildDies, TypeInv, PeerType
  <2> QED BY <1>1, <1>3, <1>11, <2>3 DEF ChildDies, history
<1>12. CASE ChildHangs(g)
  <2>1. PeerType' /\ \A h \in Messages : child[h] # "none" => child'[h] # "none"
    BY <1>12 DEF ChildHangs, TypeInv, PeerType
  <2> QED BY <1>1, <1>3, <1>12, <2>1 DEF ChildHangs, history
<1> QED BY <1>4, <1>5, <1>6, <1>7, <1>8, <1>9, <1>10, <1>11, <1>12 DEF ChildStep

LEMMA NextType == TypeInv /\ [Next]_vars => TypeInv'
<1> SUFFICES ASSUME TypeInv, [Next]_vars PROVE TypeInv'
  OBVIOUS
<1>1. CASE UNCHANGED vars
  <2> USE DEF vars, executor, lock, coros, turn, peers, history
  <2>1. FlagType'
    BY <1>1, Zenon DEF TypeInv, FlagType
  <2> QED BY <1>1, <2>1 DEF TypeInv, FieldType, CoroType, PeerType, HistoryType, StartedInv
<1> QED BY <1>1, SteerType, TurnType, OutsideType, ChildType, Zenon DEF Next, ExecuteStep

\* Every field of the executor, of its children and of what is on its way between
\* them keeps its type, and a request is awaited only from a child that was started.
THEOREM TypeCorrect == Spec => []TypeOK
<1>1. Spec => []TypeInv
  BY InitType, NextType, PTL DEF Spec
<1> QED BY <1>1, TypeInvIsType, PTL

-----------------------------------------------------------------------------
(* Part 2: the lock, and what is cached under it.                          *)

\* _turn_lock: the message in _run_turn() is its holder; those that queue for it
\* stand in its queue once.
LockInv ==
    /\ \A m \in Messages : pc[m] \in TurnStages <=> holder = m
    /\ \A k \in 1 .. Len(lockQ) : pc[lockQ[k]] = "queued"
    /\ \A k, l \in 1 .. Len(lockQ) : lockQ[k] = lockQ[l] => k = l

Move(m, s) == pc' = [pc EXCEPT ![m] = s]

\* What a step of message m to stage s does to the lock.
LockMove(m, s) ==
    \/ /\ pc[m] \in TurnStages /\ s \in TurnStages \cup {"done"}
       /\ holder' = IF s = "done" THEN 0 ELSE holder
       /\ lockQ' = lockQ
    \/ /\ pc[m] \in {"idle", "steering"} /\ s \in {"steering", "done"}
       /\ UNCHANGED <<holder, lockQ>>
    \/ /\ pc[m] \in {"idle", "steering"} /\ s = "queued"
       /\ lockQ' = Append(lockQ, m) /\ holder' = holder
    \/ /\ pc[m] \in {"idle", "steering"} /\ s \in TurnStages
       /\ holder = 0 /\ lockQ = <<>> /\ holder' = m /\ lockQ' = lockQ
    \/ /\ s \in TurnStages
       /\ holder = 0 /\ lockQ # <<>> /\ Head(lockQ) = m
       /\ holder' = m /\ lockQ' = Tail(lockQ)

LEMMA InitLock == Init => LockInv
  BY Numbers DEF Init, LockInv, TurnStages

LEMMA LockKeeps ==
  ASSUME TypeInv, LockInv, NEW m \in Messages, NEW s \in Stages, Move(m, s), LockMove(m, s)
  PROVE  LockInv'
<1> DEFINE n == Len(lockQ)
<1>1. /\ pc \in [Messages -> Stages] /\ lockQ \in Seq(Messages) /\ n \in Nat
      /\ \A k \in 1 .. n : lockQ[k] \in Messages
      /\ m # 0 /\ "queued" \notin TurnStages
  BY Numbers DEF TypeInv, CoroType, FieldType, TurnStages
<1>2. \A k \in Messages : pc'[k] = IF k = m THEN s ELSE pc[k]
  BY <1>1 DEF Move
<1>3. ASSUME pc[m] # "queued", s # "queued", lockQ' = lockQ,
             \A k \in Messages : pc'[k] \in TurnStages <=> holder' = k
      PROVE  LockInv'
  BY <1>1, <1>2, <1>3 DEF LockInv
<1>4. CASE /\ pc[m] \in TurnStages /\ s \in TurnStages \cup {"done"}
           /\ holder' = IF s = "done" THEN 0 ELSE holder
           /\ lockQ' = lockQ
  <2>1. s # "queued" /\ pc[m] # "queued" /\ (s \in TurnStages <=> s # "done")
    BY <1>1, <1>4 DEF TurnStages
  <2>2. \A k \in Messages : pc'[k] \in TurnStages <=> holder' = k
    BY <1>2, <1>4, <2>1, Numbers DEF LockInv
  <2> QED BY <1>3, <1>4, <2>1, <2>2
<1>5. CASE /\ pc[m] \in {"idle", "steering"} /\ s \in {"steering", "done"}
           /\ UNCHANGED <<holder, lockQ>>
  <2>1. \A k \in Messages : pc'[k] \in TurnStages <=> holder' = k
    BY <1>2, <1>5 DEF LockInv, TurnStages
  <2> QED BY <1>3, <1>5, <2>1
<1>6. CASE /\ pc[m] \in {"idle", "steering"} /\ s = "queued"
           /\ lockQ' = Append(lockQ, m) /\ holder' = holder
  <2>1. \A k \in Messages : pc'[k] \in TurnStages <=> holder' = k
    BY <1>2, <1>6 DEF LockInv, TurnStages
  <2>2. /\ Len(lockQ') = n + 1 /\ lockQ'[n + 1] = m
        /\ \A k \in 1 .. n : lockQ'[k] = lockQ[k] /\ lockQ[k] # m
    BY <1>1, <1>6 DEF LockInv
  <2>3. \A k \in 1 .. n + 1 : k \in 1 .. n \/ k = n + 1
    BY <1>1
  <2>4. \A k \in 1 .. Len(lockQ') : pc'[lockQ'[k]] = "queued"
    BY <1>1, <1>2, <1>6, <2>2, <2>3 DEF LockInv
  <2>5. \A k, l \in 1 .. Len(lockQ') : lockQ'[k] = lockQ'[l] => k = l
    BY <1>1, <2>2, <2>3 DEF LockInv
  <2> QED BY <2>1, <2>4, <2>5 DEF LockInv
<1>7. CASE /\ pc[m] \in {"idle", "steering"} /\ s \in TurnStages
           /\ holder = 0 /\ lockQ = <<>> /\ holder' = m /\ lockQ' = lockQ
  <2>1. \A k \in Messages : pc'[k] \in TurnStages <=> holder' = k
    BY <1>2, <1>7, Numbers DEF LockInv
  <2> QED BY <1>1, <1>3, <1>7, <2>1
<1>8. CASE /\ s \in TurnStages
           /\ holder = 0 /\ lockQ # <<>> /\ Head(lockQ) = m
           /\ holder' = m /\ lockQ' = Tail(lockQ)
  <2>1. \A k \in Messages : pc'[k] \in TurnStages <=> holder' = k
    BY <1>2, <1>8, Numbers DEF LockInv
  <2>2. /\ Len(lockQ') = n - 1 /\ n > 0 /\ lockQ[1] = m
        /\ \A k \in 1 .. n - 1 : lockQ'[k] = lockQ[k + 1]
    BY <1>1, <1>8
  <2>3. \A k \in 1 .. n - 1 : k + 1 \in 1 .. n /\ k + 1 # 1 /\ 1 \in 1 .. n
    BY <1>1
  <2>4. \A k \in 1 .. n - 1 : lockQ[k + 1] # m /\ pc[lockQ[k + 1]] = "queued"
    BY <2>2, <2>3 DEF LockInv
  <2>5. \A k \in 1 .. Len(lockQ') : pc'[lockQ'[k]] = "queued"
    BY <1>1, <1>2, <2>2, <2>3, <2>4
  <2>6. \A k, l \in 1 .. Len(lockQ') : lockQ'[k] = lockQ'[l] => k = l
    <3> TAKE k \in 1 .. Len(lockQ')
    <3> TAKE l \in 1 .. Len(lockQ')
    <3>1. k \in 1 .. n - 1 /\ l \in 1 .. n - 1
      BY <2>2
    <3>2. lockQ'[k] = lockQ[k + 1] /\ lockQ'[l] = lockQ[l + 1]
      BY <2>2, <3>1
    <3>3. k + 1 \in 1 .. n /\ l + 1 \in 1 .. n
      BY <2>3, <3>1
    <3>4. lockQ[k + 1] = lockQ[l + 1] => k + 1 = l + 1
      BY <1>1, <3>3 DEF LockInv
    <3> QED BY <1>1, <3>1, <3>2, <3>4
  <2> QED BY <2>1, <2>5, <2>6 DEF LockInv
<1> QED BY <1>4, <1>5, <1>6, <1>7, <1>8 DEF LockMove

LEMMA MessageMoves ==
  ASSUME TypeInv, LockInv, NEW m \in Messages, Arrive(m) \/ ExecuteStep(m)
  PROVE  \E s \in Stages : Move(m, s) /\ LockMove(m, s)
<1> USE DEF lock
<1>0. /\ TurnStages \subseteq Stages /\ {"queued", "steering", "done"} \subseteq Stages
      /\ FirstStage \in TurnStages /\ StageAfterInit \in TurnStages
      /\ StageAfterThread \in TurnStages
  BY StageTypes DEF Stages, TurnStages
<1>1. ASSUME pc[m] \in {"idle", "steering"}, LockPath(m)
      PROVE  \E s \in Stages : Move(m, s) /\ LockMove(m, s)
  <2>1. CASE holder = 0 /\ lockQ = <<>>
    <3>1. Move(m, FirstStage) /\ LockMove(m, FirstStage)
      BY <1>0, <1>1, <2>1 DEF LockPath, Goto, Move, LockMove
    <3> QED BY <1>0, <3>1
  <2>2. CASE ~(holder = 0 /\ lockQ = <<>>)
    <3>1. Move(m, "queued") /\ LockMove(m, "queued")
      BY <1>1, <2>2 DEF LockPath, Goto, Move, LockMove
    <3> QED BY <1>0, <3>1
  <2> QED BY <2>1, <2>2
<1>2. ASSUME NEW s \in {"steering", "done"}, pc[m] \in {"idle", "steering"}, Move(m, s),
             UNCHANGED lock
      PROVE  \E t \in Stages : Move(m, t) /\ LockMove(m, t)
  <2>1. LockMove(m, s)
    BY <1>2 DEF LockMove
  <2> QED BY <1>0, <1>2, <2>1
<1>3. ASSUME NEW s \in TurnStages, pc[m] \in TurnStages, Move(m, s), UNCHANGED lock
      PROVE  \E t \in Stages : Move(m, t) /\ LockMove(m, t)
  <2>1. LockMove(m, s)
    BY <1>3 DEF LockMove, TurnStages
  <2> QED BY <1>0, <1>3, <2>1
<1>4. ASSUME pc[m] \in TurnStages, Move(m, "done"), Release
      PROVE  \E t \in Stages : Move(m, t) /\ LockMove(m, t)
  <2>1. LockMove(m, "done")
    BY <1>4 DEF LockMove, Release
  <2> QED BY <1>0, <1>4, <2>1
<1>5. CASE Arrive(m)
  <2>1. CASE CanSteer
    BY <1>2, <1>5, <2>1 DEF Arrive, Goto, Move
  <2>2. CASE ~CanSteer
    BY <1>1, <1>5, <2>2 DEF Arrive
  <2> QED BY <2>1, <2>2
<1>6. CASE SteerRefused(m) \/ SteerTimesOut(m)
  BY <1>1, <1>6 DEF SteerRefused, SteerTimesOut
<1>7. CASE SteerAccepted(m) \/ SteerLosesChild(m)
  BY <1>2, <1>7 DEF SteerAccepted, SteerLosesChild, End, Move
<1>8. CASE LockGranted(m)
  <2>1. Move(m, FirstStage) /\ LockMove(m, FirstStage)
    BY <1>0, <1>8 DEF LockGranted, Goto, Move, LockMove
  <2> QED BY <1>0, <2>1
<1>9. CASE ChildStarted(m) \/ TurnStarted(m)
  BY <1>3, <1>9 DEF ChildStarted, TurnStarted, Goto, Move, TurnStages
<1>10. CASE StartFails(m) \/ TurnCompletes(m) \/ Closed(m) \/ TurnRefused(m)
  BY <1>4, <1>10 DEF StartFails, TurnCompletes, Closed, TurnRefused, End, Move, TurnStages
<1>11. CASE Initialized(m)
  <2>1. pc[m] \in TurnStages
    BY <1>11 DEF Initialized, TurnStages
  <2>2. \/ Move(m, StageAfterInit) /\ UNCHANGED lock
        \/ Move(m, "done") /\ Release
    BY <1>11 DEF Initialized, Move
  <2> QED BY <1>0, <1>3, <1>4, <2>1, <2>2
<1>12. CASE ThreadStarted(m) \/ Enumerated(m)
  <2>1. pc[m] \in TurnStages /\ "turnStart" \in TurnStages
    BY <1>12 DEF ThreadStarted, Enumerated, TurnStages
  <2>2. \/ \E s \in {StageAfterThread, "turnStart"} : Move(m, s) /\ UNCHANGED lock
        \/ Move(m, "done") /\ Release
    BY <1>12 DEF ThreadStarted, Enumerated, Goto, End, Move
  <2> QED BY <1>0, <1>3, <1>4, <2>1, <2>2
<1>13. CASE TurnFails(m)
  <2>1. pc[m] \in TurnStages /\ "closing" \in TurnStages
    BY <1>13 DEF TurnFails, TurnStages
  <2>2. \/ Move(m, "closing") /\ UNCHANGED lock
        \/ Move(m, "done") /\ Release
    BY <1>13 DEF TurnFails, Goto, End, Move
  <2> QED BY <1>3, <1>4, <2>1, <2>2
<1> QED BY <1>5, <1>6, <1>7, <1>8, <1>9, <1>10, <1>11, <1>12, <1>13, Zenon
        DEF ExecuteStep, SteerStep, TurnStep

\* What is neither a step of execute() nor shutdown().
OtherStep ==
    \/ Cancel \/ ShutdownReturns
    \/ \E g \in Messages : DispatchStep(g) \/ ChildStep(g)
    \/ UNCHANGED vars

LEMMA OthersStay ==
  ASSUME OtherStep \/ Shutdown
  PROVE  /\ UNCHANGED <<pc, on, holder, lockQ>>
         /\ OtherStep => UNCHANGED <<executor, failed>>
<1> USE DEF lock, coros, executor, history
<1>0. ASSUME Shutdown
      PROVE  UNCHANGED <<pc, on, holder, lockQ>>
  BY <1>0 DEF Shutdown
<1>1. ASSUME Cancel \/ ShutdownReturns
      PROVE  UNCHANGED <<pc, on, holder, lockQ, executor, failed>>
  BY <1>1, Zenon DEF Cancel, ShutdownReturns
<1>2. ASSUME NEW g \in Messages, DispatchStep(g)
      PROVE  UNCHANGED <<pc, on, holder, lockQ, executor, failed>>
  BY <1>2, Zenon DEF DispatchStep, DispatchResponse, DispatchNotification
<1>3. ASSUME NEW g \in Messages, ChildStep(g)
      PROVE  UNCHANGED <<pc, on, holder, lockQ, executor, failed>>
  BY <1>3, Zenon DEF ChildStep, HandlesInitialize, HandlesInitialized, HandlesThreadStart,
     HandlesTurnStart, HandlesSteer, HandlesInterrupt, Handles, TurnReports, ChildHangs,
     ChildDies
<1>4. ASSUME UNCHANGED vars
      PROVE  UNCHANGED <<pc, on, holder, lockQ, executor, failed>>
  BY <1>4, Zenon DEF vars
<1>5. OtherStep => UNCHANGED <<pc, on, holder, lockQ, executor, failed>>
  BY <1>1, <1>2, <1>3, <1>4, Zenon DEF OtherStep
<1>6. (OtherStep => UNCHANGED <<pc, on, holder, lockQ>>)
      /\ (Shutdown => UNCHANGED <<pc, on, holder, lockQ>>)
  BY <1>0, <1>5
<1> QED BY <1>5, <1>6

LEMMA NextLock == TypeInv /\ LockInv /\ [Next]_vars => LockInv'
<1> SUFFICES ASSUME TypeInv, LockInv, [Next]_vars PROVE LockInv'
  OBVIOUS
<1>1. ASSUME NEW m \in Messages, Arrive(m) \/ ExecuteStep(m)
      PROVE  LockInv'
  BY <1>1, MessageMoves, LockKeeps
<1>2. CASE OtherStep \/ Shutdown
  BY <1>2, OthersStay DEF LockInv
<1> QED BY <1>1, <1>2, Zenon DEF Next, OtherStep

\* Without shutdown(), which takes no lock.
Calm == "shutdown" \notin Quirks

\* The holder of the lock talks to the cached child, once there is one, and the
\* thread and the turn are those of that child.
TargetInv ==
    /\ \A m \in Messages :
          pc[m] \in {"init", "threading", "mcp", "turnStart", "turn"} =>
              appServer # 0 /\ on[m] = appServer
    /\ \A m \in Messages : pc[m] \in {"starting", "closing"} => appServer = 0
    /\ \A m \in Messages : pc[m] \in {"init", "threading"} => threadId = 0
    /\ \A m \in Messages : pc[m] \in {"mcp", "turnStart", "turn"} => threadId # 0
    /\ threadId # 0 => threadId = appServer
    /\ currentTurn # 0 => holder = currentTurn /\ pc[holder] = "turn"

LEMMA InitTarget == Init => TargetInv
  BY DEF Init, TargetInv

\* Only the holder can be in a stage that the invariant speaks of.
LEMMA HolderMoves ==
  ASSUME TypeInv, LockInv', NEW m \in Messages, NEW s \in TurnStages, Move(m, s),
         s \in {"init", "threading", "mcp", "turnStart", "turn"} =>
             appServer' # 0 /\ on'[m] = appServer',
         s \in {"starting", "closing"} => appServer' = 0,
         s \in {"init", "threading"} => threadId' = 0,
         s \in {"mcp", "turnStart", "turn"} => threadId' # 0,
         threadId' # 0 => threadId' = appServer',
         currentTurn' # 0 => currentTurn' = m /\ s = "turn"
  PROVE  TargetInv'
<1>1. pc'[m] = s
  BY DEF Move, TypeInv, CoroType
<1>2. \A k \in Messages : pc'[k] \in TurnStages => k = m
  BY <1>1 DEF LockInv
<1>3. holder' = m
  BY <1>1 DEF LockInv
<1> QED BY <1>1, <1>2, <1>3 DEF TargetInv, TurnStages

LEMMA HolderLeaves ==
  ASSUME TypeInv, LockInv', holder' = 0,
         threadId' # 0 => threadId' = appServer', currentTurn' = 0
  PROVE  TargetInv'
<1>1. \A k \in Messages : pc'[k] \notin TurnStages
  BY Numbers DEF LockInv
<1> QED BY <1>1 DEF TargetInv, TurnStages

\* A message that is not in _run_turn() waits or ends outside it.
LEMMA BystanderMoves ==
  ASSUME TypeInv, LockInv, TargetInv, NEW m \in Messages,
         NEW s \in {"steering", "queued", "done"},
         pc[m] \in {"idle", "steering"}, Move(m, s),
         UNCHANGED <<executor, holder>>, \A k \in Messages : k # m => on'[k] = on[k]
  PROVE  TargetInv'
<1>1. \A k \in Messages : pc'[k] = IF k = m THEN s ELSE pc[k]
  BY DEF Move, TypeInv, CoroType
<1>2. currentTurn # 0 => currentTurn \in Messages /\ currentTurn # m
  BY Numbers DEF TypeInv, FieldType, TargetInv
<1> QED BY <1>1, <1>2 DEF TargetInv, executor

LEMMA MessageTarget ==
  ASSUME TypeInv, LockInv, LockInv', TargetInv, NEW m \in Messages,
         Arrive(m) \/ ExecuteStep(m)
  PROVE  TargetInv'
<1> USE DEF executor, lock
<1>0. /\ appServer \in NoneOr /\ m # 0
      /\ \A s, g : Goto(m, s, g) => Move(m, s) /\ on'[m] = g
                                     /\ \A k \in Messages : k # m => on'[k] = on[k]
      /\ \A how : End(m, how) => Move(m, "done") /\ on' = on
      /\ pc[m] \in TurnStages => \A k \in Messages : pc[k] \in TurnStages => k = m
  BY Numbers DEF TypeInv, FieldType, CoroType, Goto, End, Move, LockInv
\* The lock is free: nothing of a turn is left.
<1>1. ASSUME holder = 0
      PROVE  currentTurn = 0
  BY <1>1, Numbers DEF TargetInv, TypeInv, FieldType
<1>2. ASSUME holder = 0, Goto(m, FirstStage, appServer), UNCHANGED executor
      PROVE  TargetInv'
  <2>1. FirstStage \in TurnStages /\ Move(m, FirstStage) /\ on'[m] = appServer
    BY <1>0, <1>2, StageTypes DEF TurnStages
  <2>2. /\ FirstStage = "starting" => appServer = 0
        /\ FirstStage # "starting" => appServer # 0
        /\ FirstStage = "threading" => threadId = 0
        /\ FirstStage \in {"mcp", "turnStart"} => threadId # 0
        /\ FirstStage \in {"starting", "threading", "mcp", "turnStart"}
    BY StageTypes DEF FirstStage, StageAfterInit, StageAfterThread
  <2> HIDE DEF FirstStage
  <2>3. threadId' # 0 => threadId' = appServer'
    BY <1>2 DEF TargetInv
  <2>4. currentTurn' = 0
    BY <1>1, <1>2
  <2> QED BY <1>2, <2>1, <2>2, <2>3, <2>4, HolderMoves
<1>3. ASSUME pc[m] \in {"idle", "steering"}, LockPath(m), UNCHANGED executor
      PROVE  TargetInv'
  <2>1. CASE holder = 0 /\ lockQ = <<>>
    BY <1>2, <1>3, <2>1 DEF LockPath
  <2>2. CASE ~(holder = 0 /\ lockQ = <<>>)
    <3>1. Goto(m, "queued", 0) /\ holder' = holder
      BY <1>3, <2>2 DEF LockPath
    <3> QED BY <1>0, <1>3, <3>1, BystanderMoves
  <2> QED BY <2>1, <2>2
<1>4. CASE Arrive(m)
  <2>1. CASE CanSteer
    BY <1>0, <1>4, <2>1, BystanderMoves DEF Arrive
  <2>2. CASE ~CanSteer
    BY <1>3, <1>4, <2>2 DEF Arrive
  <2> QED BY <2>1, <2>2
<1>5. CASE SteerRefused(m) \/ SteerTimesOut(m)
  BY <1>3, <1>5 DEF SteerRefused, SteerTimesOut
<1>6. CASE SteerAccepted(m) \/ SteerLosesChild(m)
  BY <1>0, <1>6, BystanderMoves DEF SteerAccepted, SteerLosesChild
<1>7. CASE LockGranted(m)
  BY <1>2, <1>7 DEF LockGranted
\* Within _run_turn(): what is cached when a stage begins.
<1>8. ASSUME pc[m] \in TurnStages \ {"turn"}
      PROVE  currentTurn = 0
  <2>1. holder = m
    BY <1>8 DEF LockInv
  <2> QED BY <1>8, <2>1 DEF TargetInv
<1>9. CASE ChildStarted(m)
  <2>1. /\ Goto(m, "init", m) /\ appServer' = m /\ pc[m] = "starting"
        /\ UNCHANGED <<threadId, currentTurn>>
    BY <1>9 DEF ChildStarted
  <2>2. threadId = 0 /\ currentTurn = 0
    BY <1>8, <2>1 DEF TargetInv, TurnStages
  <2>3. "init" \in TurnStages
    BY DEF TurnStages
  <2> QED BY <1>0, <2>1, <2>2, <2>3, HolderMoves
<1>10. CASE StartFails(m) \/ TurnCompletes(m) \/ TurnRefused(m) \/ Closed(m)
  <2>1. /\ holder' = 0 /\ UNCHANGED <<appServer, threadId>>
        /\ currentTurn' \in {0, currentTurn}
    BY <1>10 DEF StartFails, TurnCompletes, TurnRefused, Closed, Release, Unsubscribed
  <2>2. currentTurn' = 0
    <3>1. CASE TurnCompletes(m)
      BY <3>1 DEF TurnCompletes, Unsubscribed
    <3>2. CASE StartFails(m) \/ TurnRefused(m) \/ Closed(m)
      BY <1>8, <2>1, <3>2 DEF StartFails, TurnRefused, Closed, TurnStages
    <3> QED BY <1>10, <3>1, <3>2
  <2> QED BY <2>1, <2>2, HolderLeaves DEF TargetInv
<1>11. CASE Initialized(m)
  <2>1. /\ pc[m] = "init" /\ UNCHANGED <<executor, on>>
        /\ appServer # 0 /\ on[m] = appServer /\ threadId = 0 /\ currentTurn = 0
    BY <1>8, <1>11 DEF Initialized, TargetInv, TurnStages
  <2>2. Move(m, "threading") /\ "threading" \in TurnStages
    BY <1>11, <2>1 DEF Initialized, StageAfterInit, Move, TurnStages
  <2> QED BY <2>1, <2>2, HolderMoves
<1>12. CASE ThreadStarted(m)
  <2>1. /\ pc[m] = "threading" /\ threadId' = on[m]
        /\ UNCHANGED <<appServer, currentTurn>>
        /\ appServer # 0 /\ on[m] = appServer /\ currentTurn = 0
    BY <1>8, <1>12 DEF ThreadStarted, TargetInv, TurnStages
  <2>2. Goto(m, StageAfterThread, on[m])
    BY <1>12, <2>1 DEF ThreadStarted
  <2>3. StageAfterThread \in TurnStages /\ StageAfterThread \in {"turnStart", "mcp"}
    BY StageTypes DEF TurnStages
  <2> QED BY <1>0, <2>1, <2>2, <2>3, HolderMoves
<1>13. CASE Enumerated(m)
  <2>1. /\ pc[m] = "mcp" /\ UNCHANGED <<appServer, threadId, currentTurn>>
        /\ appServer # 0 /\ threadId # 0 /\ threadId = appServer /\ currentTurn = 0
    BY <1>8, <1>13 DEF Enumerated, TargetInv, TurnStages
  <2>2. Goto(m, "turnStart", appServer) /\ "turnStart" \in TurnStages
    BY <1>13, <2>1 DEF Enumerated, TurnStages
  <2> QED BY <1>0, <2>1, <2>2, HolderMoves
<1>14. CASE TurnStarted(m)
  <2>1. /\ pc[m] = "turnStart" /\ currentTurn' = m /\ UNCHANGED <<appServer, threadId, on>>
        /\ Move(m, "turn") /\ "turn" \in TurnStages
        /\ appServer # 0 /\ threadId # 0 /\ threadId = appServer /\ on[m] = appServer
    BY <1>14 DEF TurnStarted, TargetInv, TurnStages, Move
  <2> QED BY <2>1, HolderMoves
<1>15. CASE TurnFails(m)
  <2>1. appServer' = 0 /\ threadId' = 0 /\ currentTurn' = 0
    BY <1>15 DEF TurnFails, ResetFields
  <2>2. CASE appServer # 0
    <3>1. Goto(m, "closing", appServer) /\ "closing" \in TurnStages
      BY <1>15, <2>2 DEF TurnFails, TurnStages
    <3> QED BY <1>0, <2>1, <3>1, HolderMoves
  <2>3. CASE appServer = 0
    BY <1>15, <2>1, <2>3, HolderLeaves DEF TurnFails, Release
  <2> QED BY <2>2, <2>3
<1> QED BY <1>4, <1>5, <1>6, <1>7, <1>9, <1>10, <1>11, <1>12, <1>13, <1>14, <1>15, Zenon
        DEF ExecuteStep, SteerStep, TurnStep

LEMMA NextTarget ==
  ASSUME Calm, TypeInv, LockInv, TargetInv, [Next]_vars
  PROVE  TargetInv'
<1>1. LockInv'
  BY NextLock
<1>2. ASSUME NEW m \in Messages, Arrive(m) \/ ExecuteStep(m)
      PROVE  TargetInv'
  BY <1>1, <1>2, MessageTarget
<1>3. CASE OtherStep
  BY <1>3, OthersStay DEF TargetInv, executor
<1>4. ~Shutdown
  BY DEF Calm, Shutdown
<1> QED BY <1>2, <1>3, <1>4, Zenon DEF Next, OtherStep

HeldInv == TypeInv /\ LockInv /\ TargetInv

LEMMA Held ==
  ASSUME Calm
  PROVE  Spec => []HeldInv
<1>1. Init => HeldInv
  BY InitType, InitLock, InitTarget DEF HeldInv
<1>2. HeldInv /\ [Next]_vars => HeldInv'
  BY NextType, NextLock, NextTarget DEF HeldInv
<1> QED BY <1>1, <1>2, PTL DEF Spec

\* The cached child, thread and turn fit together: no turn starts on a thread of
\* a child that was reset, and cancel() and turn/steer aim at the holder's turn.
THEOREM TargetsFit ==
  ASSUME Calm
  PROVE  Spec => []SteerTarget
<1>1. ASSUME HeldInv
      PROVE  SteerTarget
  <2>1. currentTurn # 0 => currentTurn \in Messages
    BY <1>1, Numbers DEF HeldInv, TypeInv, FieldType
  <2> QED BY <1>1, <2>1 DEF HeldInv, TargetInv, SteerTarget
<1>2. HeldInv => SteerTarget
  BY <1>1
<1> QED BY <1>2, Held, PTL

\* A failed child is not the cached one, and no other child takes its number.
FreshInv ==
    /\ shut.pc = "idle"
    /\ \A g \in failed : g # appServer /\ child[g] # "none"
    /\ \A m \in Messages :
          child[m] # "none" => pc[m] \notin {"idle", "queued", "steering", "starting"}
    /\ \A m \in Messages : pc[m] = "closing" => on[m] \in failed

NoNew == \A g \in failed : NoNewRequest(g)

LEMMA InitFresh == Init => FreshInv
  BY DEF Init, FreshInv

LEMMA GotoFresh ==
  ASSUME TypeInv, NEW m, NEW s, NEW h \in NoneOr, h \notin failed, Goto(m, s, h)
  PROVE  NoNew
<1>1. failed \subseteq Messages /\ \A g \in Messages : Len(reqQ[g]) \in Nat
  BY DEF TypeInv, HistoryType, PeerType
<1>2. \A g \in failed : reqQ'[g] = reqQ[g]
  BY <1>1 DEF Goto, TypeInv, PeerType
<1> QED BY <1>1, <1>2 DEF NoNew, NoNewRequest

\* Message m moves on, and no child is started.
LEMMA FreshMoves ==
  ASSUME TypeInv, FreshInv, NEW m \in Messages, NEW s, Move(m, s),
         \A k \in Messages : k # m => on'[k] = on[k],
         \A g \in Messages : child'[g] # "none" => child[g] # "none",
         \A g \in Messages : child[g] # "none" => child'[g] # "none",
         pc[m] \in {"idle", "queued", "steering", "starting"} \/
             s \notin {"idle", "queued", "steering", "starting"},
         s = "closing" => on'[m] \in failed',
         shut' = shut, failed \subseteq failed', failed' \subseteq Messages,
         \A g \in failed' : g # appServer' /\ child'[g] # "none"
  PROVE  FreshInv'
<1>1. \A k \in Messages : pc'[k] = IF k = m THEN s ELSE pc[k]
  BY DEF Move, TypeInv, CoroType
<1> QED BY <1>1 DEF FreshInv

LEMMA MessageFresh ==
  ASSUME TypeInv, LockInv, TargetInv, FreshInv, NEW m \in Messages,
         Arrive(m) \/ ExecuteStep(m)
  PROVE  FreshInv' /\ NoNew
<1> USE DEF executor, lock, history
<1>0. /\ \A s, g : Goto(m, s, g) => Move(m, s) /\ on'[m] = g
                                     /\ \A k \in Messages : k # m => on'[k] = on[k]
      /\ \A how : End(m, how) => Move(m, "done") /\ on' = on /\ reqQ' = reqQ
      /\ failed \subseteq Messages /\ appServer \in NoneOr /\ 0 \notin failed
      /\ appServer \notin failed /\ \A g \in Messages : Len(reqQ[g]) \in Nat
      /\ on[m] \in NoneOr
  BY Numbers DEF TypeInv, FieldType, CoroType, HistoryType, PeerType, Goto, End, Move, FreshInv
<1>1. reqQ' = reqQ => NoNew
  BY <1>0 DEF NoNew, NoNewRequest
\* m was in none of the stages that a child of its number could follow.
<1>2. ASSUME NEW s, s # "closing", pc[m] \in {"idle", "queued", "steering", "starting"} \/
                 s \notin {"idle", "queued", "steering", "starting"},
             NEW g \in NoneOr, g \notin failed, Goto(m, s, g),
             UNCHANGED <<child, shut, failed, appServer>>
      PROVE  FreshInv' /\ NoNew
  <2>1. FreshInv'
    BY <1>0, <1>2, FreshMoves DEF FreshInv
  <2> QED BY <1>2, <2>1, GotoFresh
<1>3. ASSUME NEW how, End(m, how), UNCHANGED <<child, shut, failed, appServer>>
      PROVE  FreshInv' /\ NoNew
  <2>1. FreshInv'
    BY <1>0, <1>3, FreshMoves DEF FreshInv
  <2> QED BY <1>0, <1>1, <1>3, <2>1
<1>4. FirstStage # "closing" /\ StageAfterThread # "closing"
      /\ StageAfterThread \notin {"idle", "queued", "steering", "starting"}
  BY StageTypes
<1>5. ASSUME pc[m] \in {"idle", "steering"}, LockPath(m),
             UNCHANGED <<child, shut, failed, appServer>>
      PROVE  FreshInv' /\ NoNew
  <2>1. CASE holder = 0 /\ lockQ = <<>>
    BY <1>0, <1>2, <1>4, <1>5, <2>1 DEF LockPath
  <2>2. CASE ~(holder = 0 /\ lockQ = <<>>)
    BY <1>0, <1>2, <1>5, <2>2, Numbers DEF LockPath
  <2> QED BY <2>1, <2>2
<1>6. CASE Arrive(m)
  <2>1. CASE CanSteer
    BY <1>0, <1>2, <1>6, <2>1 DEF Arrive
  <2>2. CASE ~CanSteer
    BY <1>5, <1>6, <2>2 DEF Arrive
  <2> QED BY <2>1, <2>2
<1>7. CASE SteerRefused(m) \/ SteerTimesOut(m)
  BY <1>5, <1>7 DEF SteerRefused, SteerTimesOut
<1>8. CASE SteerAccepted(m) \/ SteerLosesChild(m)
  BY <1>3, <1>8 DEF SteerAccepted, SteerLosesChild
<1>9. CASE LockGranted(m)
  <2>1. pc[m] = "queued"
    <3>1. lockQ \in Seq(Messages) /\ lockQ # <<>> /\ Head(lockQ) = m
      BY <1>9 DEF LockGranted, TypeInv, FieldType
    <3>2. 1 \in 1 .. Len(lockQ) /\ lockQ[1] = m
      BY <3>1
    <3> QED BY <3>2 DEF LockInv
  <2> QED BY <1>0, <1>2, <1>4, <1>9, <2>1 DEF LockGranted
<1>10. CASE ChildStarted(m)
  <2>1. /\ pc[m] = "starting" /\ child' = [child EXCEPT ![m] = "up"] /\ appServer' = m
        /\ Goto(m, "init", m) /\ UNCHANGED <<shut, failed>>
    BY <1>10 DEF ChildStarted
  <2>2. child[m] = "none" /\ m \notin failed /\ m \in NoneOr
    BY <2>1, Numbers DEF FreshInv
  <2>3. \A k \in Messages : pc'[k] = IF k = m THEN "init" ELSE pc[k]
    BY <1>0, <2>1 DEF Move, TypeInv, CoroType
  <2>4. \A k \in Messages : child'[k] = IF k = m THEN "up" ELSE child[k]
    BY <2>1 DEF TypeInv, PeerType
  <2>5. FreshInv'
    BY <1>0, <2>1, <2>2, <2>3, <2>4 DEF FreshInv
  <2> QED BY <2>1, <2>2, <2>5, GotoFresh
<1>11. CASE StartFails(m) \/ TurnCompletes(m) \/ TurnRefused(m)
  BY <1>3, <1>11 DEF StartFails, TurnCompletes, TurnRefused
<1>12. CASE Initialized(m)
  <2>1. /\ pc[m] = "init" /\ on[m] = appServer /\ appServer # 0 /\ appServer \notin failed
        /\ UNCHANGED <<on, child, shut, failed, appServer>>
    BY <1>0, <1>12 DEF Initialized, TargetInv
  <2>2. Move(m, StageAfterInit) /\ StageAfterInit \in {"threading", "turnStart", "mcp"}
    BY <1>12, <2>1, StageTypes DEF Initialized, Move
  <2>3. FreshInv'
    BY <1>0, <2>1, <2>2, FreshMoves DEF FreshInv
  <2>4. \A g \in failed : reqQ'[g] = reqQ[g]
    BY <1>0, <1>12, <2>1 DEF Initialized, TypeInv, PeerType
  <2> QED BY <1>0, <2>3, <2>4 DEF NoNew, NoNewRequest
<1>13. CASE ThreadStarted(m)
  <2>1. pc[m] = "threading" /\ on[m] = appServer /\ appServer # 0
    BY <1>13 DEF ThreadStarted, TargetInv
  <2> QED BY <1>0, <1>2, <1>4, <1>13, <2>1 DEF ThreadStarted
<1>14. CASE Enumerated(m)
  <2>1. appServer # 0
    BY <1>14 DEF Enumerated, TargetInv
  <2> QED BY <1>0, <1>2, <1>14, <2>1 DEF Enumerated
<1>15. CASE TurnStarted(m)
  <2>1. /\ Move(m, "turn") /\ UNCHANGED <<on, child, shut, failed, appServer, reqQ>>
    BY <1>15 DEF TurnStarted, Move, peers
  <2>2. FreshInv'
    BY <1>0, <2>1, FreshMoves DEF FreshInv
  <2> QED BY <1>1, <2>1, <2>2
<1>16. CASE TurnFails(m)
  <2>1. /\ appServer # 0 /\ on[m] = appServer /\ child[appServer] # "none"
        /\ appServer' = 0 /\ failed' = failed \cup {appServer} /\ appServer \in Messages
        /\ Goto(m, "closing", appServer) /\ UNCHANGED <<child, shut>>
    BY <1>0, <1>16, Numbers DEF TurnFails, ResetFields, TargetInv, TypeInv, StartedInv
  <2>2. FreshInv'
    BY <1>0, <2>1, FreshMoves DEF FreshInv
  <2> QED BY <1>0, <2>1, <2>2, GotoFresh
<1>17. CASE Closed(m)
  <2>1. /\ pc[m] = "closing" /\ Close(on[m]) /\ Move(m, "done")
        /\ UNCHANGED <<on, appServer, shut, failed>>
    BY <1>17 DEF Closed, Move
  <2>2. on[m] \in failed /\ child[on[m]] # "none" /\ on[m] \in Messages
    BY <1>0, <2>1 DEF FreshInv
  <2>3. \A g \in Messages : child'[g] # "none" <=> child[g] # "none"
    BY <2>1, <2>2 DEF Close, TypeInv, PeerType
  <2>4. FreshInv'
    BY <1>0, <2>1, <2>3, FreshMoves DEF FreshInv
  <2>5. \A g \in Messages : reqQ'[g] = reqQ[g] \/ reqQ'[g] = <<>>
    BY <2>1 DEF Close, TypeInv, PeerType
  <2> QED BY <1>0, <2>4, <2>5 DEF NoNew, NoNewRequest
<1> QED BY <1>6, <1>7, <1>8, <1>9, <1>10, <1>11, <1>12, <1>13, <1>14, <1>15, <1>16, <1>17,
           Zenon DEF ExecuteStep, SteerStep, TurnStep

LEMMA OtherFresh ==
  ASSUME Calm, TypeInv, FreshInv, OtherStep
  PROVE  FreshInv' /\ NoNew
<1> USE DEF executor, lock, coros, history
<1>0. /\ failed \subseteq Messages /\ appServer \in NoneOr /\ 0 \notin failed
      /\ appServer \notin failed
      /\ \A g \in Messages : reqQ[g] \in Seq(Asked) /\ Len(reqQ[g]) \in Nat
  BY Numbers DEF TypeInv, FieldType, HistoryType, PeerType, FreshInv
<1>1. UNCHANGED <<pc, on, appServer, failed>>
  BY OthersStay
<1>2. ASSUME shut' = shut, \A g \in Messages : child'[g] # "none" <=> child[g] # "none",
             \A g \in Messages : g # appServer => Len(reqQ'[g]) <= Len(reqQ[g])
      PROVE  FreshInv' /\ NoNew
  <2>1. FreshInv'
    BY <1>0, <1>1, <1>2 DEF FreshInv
  <2> QED BY <1>0, <1>2, <2>1 DEF NoNew, NoNewRequest
<1>3. CASE Cancel
  <2>1. \A g \in Messages : g # appServer => reqQ'[g] = reqQ[g]
    BY <1>3 DEF Cancel, TypeInv, PeerType
  <2> QED BY <1>0, <1>2, <1>3, <2>1 DEF Cancel
<1>4. CASE ShutdownReturns
  BY <1>4 DEF ShutdownReturns, FreshInv
<1>5. ASSUME NEW g \in Messages, DispatchStep(g)
      PROVE  FreshInv' /\ NoNew
  BY <1>0, <1>2, <1>5 DEF DispatchStep, DispatchResponse, DispatchNotification
<1>6. ASSUME NEW g \in Messages, NEW kind, Handles(g, kind)
      PROVE  FreshInv' /\ NoNew
  <2>1. /\ reqQ' = [reqQ EXCEPT ![g] = Tail(@)] /\ reqQ[g] # <<>>
        /\ UNCHANGED <<child, shut>>
    BY <1>6 DEF Handles
  <2>2. Len(Tail(reqQ[g])) = Len(reqQ[g]) - 1
    BY <1>0, <2>1
  <2>3. \A h \in Messages : Len(reqQ'[h]) <= Len(reqQ[h])
    BY <1>0, <2>1, <2>2 DEF TypeInv, PeerType
  <2> QED BY <1>2, <2>1, <2>3
<1>7. ASSUME NEW g \in Messages, ChildStep(g)
      PROVE  FreshInv' /\ NoNew
  <2>1. CASE ChildDies(g)
    <3>1. /\ child' = [child EXCEPT ![g] = "dead"] /\ child[g] # "none" /\ shut' = shut
          /\ reqQ' = [reqQ EXCEPT ![g] = <<>>]
      BY <2>1 DEF ChildDies
    <3>2. \A h \in Messages : reqQ'[h] = reqQ[h] \/ reqQ'[h] = <<>>
      BY <3>1 DEF TypeInv, PeerType
    <3>3. \A h \in Messages : child'[h] # "none" <=> child[h] # "none"
      BY <3>1 DEF TypeInv, PeerType
    <3> QED BY <1>0, <1>2, <3>1, <3>2, <3>3
  <2>2. ASSUME NEW t \in Messages, NEW kind \in {"delta", "end", "error"},
               TurnReports(g, t, kind)
        PROVE  FreshInv' /\ NoNew
    BY <1>0, <1>2, <2>2 DEF TurnReports
  <2>3. CASE ChildHangs(g)
    <3>1. /\ child' = [child EXCEPT ![g] = "hung"] /\ child[g] # "none"
          /\ UNCHANGED <<reqQ, shut>>
      BY <2>3 DEF ChildHangs
    <3>2. \A h \in Messages : child'[h] # "none" <=> child[h] # "none"
      BY <3>1 DEF TypeInv, PeerType
    <3> QED BY <1>0, <1>2, <3>1, <3>2
  <2>4. ChildHangs(g) \/ ChildDies(g) \/ (\E kind : Handles(g, kind))
        \/ \E t \in Messages, kind \in {"delta", "end", "error"} : TurnReports(g, t, kind)
    BY <1>7, Zenon DEF ChildStep, HandlesInitialize, HandlesInitialized, HandlesThreadStart,
       HandlesTurnStart, HandlesSteer, HandlesInterrupt
  <2> QED BY <1>6, <2>1, <2>2, <2>3, <2>4
<1>8. CASE UNCHANGED vars
  BY <1>0, <1>2, <1>8 DEF vars, peers
<1> QED BY <1>3, <1>4, <1>5, <1>7, <1>8, Zenon DEF OtherStep

LEMMA NextFresh ==
  ASSUME Calm, HeldInv, FreshInv, [Next]_vars
  PROVE  FreshInv' /\ NoNew
<1>1. ~Shutdown
  BY DEF Calm, Shutdown
<1> QED BY <1>1, MessageFresh, OtherFresh, Zenon DEF Next, OtherStep, HeldInv

\* A child on which a turn timed out or was lost gets no further request, so the
\* next turn starts on a fresh one (_reset_app_server()).
THEOREM FailedChildIsLeft ==
  ASSUME Calm
  PROVE  Spec => FreshAfterFailure
<1>1. Init => FreshInv
  BY InitFresh
<1>2. HeldInv /\ FreshInv /\ [Next]_vars => FreshInv' /\ [NoNew]_vars
  BY NextFresh
<1> QED BY <1>1, <1>2, Held, PTL DEF Spec, FreshAfterFailure, NoNew

-----------------------------------------------------------------------------
(* Part 3: the turns on a child are kept apart.                            *)

\* The protocol without a second report of a turn's end, without an error that is
\* not final, and without a turn that runs although its start was not acknowledged.
Plain == Quirks \cap {"shutdown", "noId", "errorThenEnd", "dualEnd"} = {}

IsNote(l)   == l.kind \in {"delta", "end", "error"}
IsFinal(l)  == l.kind \in {"end", "error"}
IsAnswer(l) == l.kind = "response" /\ l.stage = "turnStart"
IsRefusal(l) == IsAnswer(l) /\ l.result = "error"
IsAsk(r)    == r.kind = "turnStart"

HasNote(w)   == \E k \in 1 .. Len(w) : IsNote(w[k])
HasFinal(w)  == \E k \in 1 .. Len(w) : IsFinal(w[k])
HasAnswer(w) == \E k \in 1 .. Len(w) : IsAnswer(w[k])
Refused(w)   == \E k \in 1 .. Len(w) : IsRefusal(w[k])
HasAsk(q)    == \E k \in 1 .. Len(q) : IsAsk(q[k])

\* What is on its way to the client is about the turn of m: one answer to its
\* turn/start, notifications of it, and nothing behind the one of its end.
WireOf(w, m) ==
    /\ \A k \in 1 .. Len(w) : IsNote(w[k]) \/ IsAnswer(w[k]) => w[k].from = m
    /\ \A k \in 1 .. Len(w) : IsAnswer(w[k]) => w[k].result # "noId"
    /\ \A k, l \in 1 .. Len(w) : IsFinal(w[k]) /\ IsNote(w[l]) => l <= k
    /\ \A k, l \in 1 .. Len(w) : IsAnswer(w[k]) /\ IsAnswer(w[l]) => k = l

\* On its way to the child is no turn/start but the one of m.
AsksOf(q, m) ==
    /\ \A k \in 1 .. Len(q) : IsAsk(q[k]) => q[k].from = m
    /\ \A k, l \in 1 .. Len(q) : IsAsk(q[k]) /\ IsAsk(q[l]) => k = l

LEMMA AppendFacts ==
  ASSUME NEW S, NEW q \in Seq(S), NEW x \in S
  PROVE  /\ Len(Append(q, x)) = Len(q) + 1 /\ Len(q) \in Nat
         /\ \A k \in 1 .. Len(q) : Append(q, x)[k] = q[k] /\ k \in 1 .. Len(q) + 1
         /\ Append(q, x)[Len(q) + 1] = x
         /\ \A k \in 1 .. Len(q) + 1 : k \in 1 .. Len(q) \/ k = Len(q) + 1
  OBVIOUS

LEMMA TailFacts ==
  ASSUME NEW S, NEW q \in Seq(S), q # <<>>
  PROVE  /\ Len(Tail(q)) = Len(q) - 1 /\ Len(q) \in Nat
         /\ Head(q) = q[1] /\ 1 \in 1 .. Len(q)
         /\ \A k \in 1 .. Len(Tail(q)) :
              /\ Tail(q)[k] = q[k + 1]
              /\ k + 1 \in 1 .. Len(q) /\ k + 1 # 1 /\ k + 1 > 1
         /\ \A k \in 1 .. Len(q) : k = 1 \/ (k - 1 \in 1 .. Len(Tail(q)) /\ (k - 1) + 1 = k)
  OBVIOUS

LEMMA WireAppended ==
  ASSUME NEW w \in Seq(Line), NEW x \in Line
  PROVE  /\ HasNote(Append(w, x)) <=> HasNote(w) \/ IsNote(x)
         /\ HasFinal(Append(w, x)) <=> HasFinal(w) \/ IsFinal(x)
         /\ HasAnswer(Append(w, x)) <=> HasAnswer(w) \/ IsAnswer(x)
         /\ Refused(Append(w, x)) <=> Refused(w) \/ IsRefusal(x)
<1> DEFINE a == Append(w, x)
           n == Len(w)
<1>1. /\ Len(a) = n + 1 /\ n \in Nat
      /\ \A k \in 1 .. n : a[k] = w[k] /\ k \in 1 .. n + 1
      /\ a[n + 1] = x /\ n + 1 \in 1 .. n + 1
      /\ \A k \in 1 .. n + 1 : k \in 1 .. n \/ k = n + 1
  BY AppendFacts
<1> HIDE DEF a, n
<1>2. HasNote(a) <=> HasNote(w) \/ IsNote(x)
  BY <1>1 DEF HasNote, n
<1>3. HasFinal(a) <=> HasFinal(w) \/ IsFinal(x)
  BY <1>1 DEF HasFinal, n
<1>4. HasAnswer(a) <=> HasAnswer(w) \/ IsAnswer(x)
  BY <1>1 DEF HasAnswer, n
<1>5. Refused(a) <=> Refused(w) \/ IsRefusal(x)
  BY <1>1 DEF Refused, n
<1> QED BY <1>2, <1>3, <1>4, <1>5 DEF a

LEMMA WireGrows ==
  ASSUME NEW w \in Seq(Line), NEW x \in Line, NEW m, WireOf(w, m),
         IsNote(x) => x.from = m /\ ~HasFinal(w),
         IsAnswer(x) => x.from = m /\ x.result # "noId" /\ ~HasAnswer(w)
  PROVE  WireOf(Append(w, x), m)
<1> DEFINE a == Append(w, x)
           n == Len(w)
<1>1. /\ Len(a) = n + 1 /\ n \in Nat
      /\ \A k \in 1 .. n : a[k] = w[k] /\ k \in 1 .. n + 1
      /\ a[n + 1] = x /\ n + 1 \in 1 .. n + 1
      /\ \A k \in 1 .. n + 1 : k \in 1 .. n \/ k = n + 1
  BY AppendFacts
<1> HIDE DEF a, n
<1>2. \A k \in 1 .. Len(a) : IsNote(a[k]) \/ IsAnswer(a[k]) => a[k].from = m
  BY <1>1 DEF WireOf, n
<1>3. \A k \in 1 .. Len(a) : IsAnswer(a[k]) => a[k].result # "noId"
  BY <1>1 DEF WireOf, n
<1>4. \A k, l \in 1 .. Len(a) : IsFinal(a[k]) /\ IsNote(a[l]) => l <= k
  <2> TAKE k \in 1 .. Len(a)
  <2> TAKE l \in 1 .. Len(a)
  <2>1. CASE k = n + 1
    BY <1>1, <2>1
  <2>2. CASE k \in 1 .. n /\ l \in 1 .. n
    BY <1>1, <2>2 DEF WireOf, n
  <2>3. CASE k \in 1 .. n /\ l = n + 1
    BY <1>1, <2>3 DEF HasFinal, n
  <2> QED BY <1>1, <2>1, <2>2, <2>3
<1>5. \A k, l \in 1 .. Len(a) : IsAnswer(a[k]) /\ IsAnswer(a[l]) => k = l
  <2> TAKE k \in 1 .. Len(a)
  <2> TAKE l \in 1 .. Len(a)
  <2>1. CASE k \in 1 .. n /\ l \in 1 .. n
    BY <1>1, <2>1 DEF WireOf, n
  <2>2. CASE ~(k \in 1 .. n /\ l \in 1 .. n)
    BY <1>1, <2>2 DEF HasAnswer, n
  <2> QED BY <2>1, <2>2
<1> QED BY <1>2, <1>3, <1>4, <1>5 DEF WireOf, a

LEMMA WireTaken ==
  ASSUME NEW w \in Seq(Line), w # <<>>, NEW m, WireOf(w, m)
  PROVE  /\ WireOf(Tail(w), m)
         /\ HasNote(Tail(w)) => HasNote(w)
         /\ HasFinal(Tail(w)) => HasFinal(w)
         /\ HasAnswer(Tail(w)) => HasAnswer(w)
         /\ Refused(Tail(w)) => Refused(w)
         /\ IsNote(Head(w)) => HasNote(w) /\ Head(w).from = m
         /\ IsFinal(Head(w)) => HasFinal(w) /\ ~HasNote(Tail(w))
         /\ IsAnswer(Head(w)) => HasAnswer(w) /\ ~HasAnswer(Tail(w)) /\ Head(w).from = m
                                   /\ Head(w).result # "noId"
         /\ IsRefusal(Head(w)) => Refused(w)
<1> DEFINE t == Tail(w)
           n == Len(w)
           h == Head(w)
<1>1. /\ Len(t) = n - 1 /\ n \in Nat /\ h = w[1] /\ 1 \in 1 .. n
      /\ \A k \in 1 .. Len(t) : t[k] = w[k + 1] /\ k + 1 \in 1 .. n /\ k + 1 # 1 /\ k + 1 > 1
  BY TailFacts
<1> HIDE DEF t, h, n
<1>2. \A k, l \in 1 .. Len(t) : (k + 1 <= l + 1 => k <= l) /\ (k + 1 = l + 1 => k = l)
  BY <1>1
<1>3. WireOf(t, m)
  <2>1. \A k \in 1 .. Len(t) : IsNote(t[k]) \/ IsAnswer(t[k]) => t[k].from = m
    BY <1>1 DEF WireOf, n
  <2>2. \A k \in 1 .. Len(t) : IsAnswer(t[k]) => t[k].result # "noId"
    BY <1>1 DEF WireOf, n
  <2>3. \A k, l \in 1 .. Len(t) : IsFinal(t[k]) /\ IsNote(t[l]) => l + 1 <= k + 1
    BY <1>1 DEF WireOf, n
  <2>4. \A k, l \in 1 .. Len(t) : IsAnswer(t[k]) /\ IsAnswer(t[l]) => k + 1 = l + 1
    BY <1>1 DEF WireOf, n
  <2> QED BY <1>2, <2>1, <2>2, <2>3, <2>4 DEF WireOf
<1>4. /\ HasNote(t) => HasNote(w)
      /\ HasFinal(t) => HasFinal(w)
      /\ HasAnswer(t) => HasAnswer(w)
      /\ Refused(t) => Refused(w)
  BY <1>1 DEF HasNote, HasFinal, HasAnswer, Refused, n
<1>5. /\ IsNote(h) => HasNote(w) /\ h.from = m
      /\ IsAnswer(h) => HasAnswer(w) /\ h.from = m /\ h.result # "noId"
      /\ IsFinal(h) => HasFinal(w)
      /\ IsRefusal(h) => Refused(w)
  BY <1>1 DEF WireOf, HasNote, HasAnswer, HasFinal, Refused, n
<1>6. ASSUME IsFinal(h)
      PROVE  ~HasNote(t)
  <2>1. \A k \in 1 .. Len(t) : IsNote(t[k]) => k + 1 <= 1
    BY <1>1, <1>6 DEF WireOf, n
  <2> QED BY <1>1, <2>1 DEF HasNote
<1>7. ASSUME IsAnswer(h)
      PROVE  ~HasAnswer(t)
  <2>1. \A k \in 1 .. Len(t) : IsAnswer(t[k]) => k + 1 = 1
    BY <1>1, <1>7 DEF WireOf, n
  <2> QED BY <1>1, <2>1 DEF HasAnswer
<1> QED BY <1>3, <1>4, <1>5, <1>6, <1>7 DEF t, h

LEMMA WireOfNobody ==
  ASSUME NEW w, NEW m, ~HasNote(w), ~HasAnswer(w)
  PROVE  WireOf(w, m)
  BY DEF WireOf, HasNote, HasAnswer, IsFinal, IsNote

LEMMA AskAppended ==
  ASSUME NEW q \in Seq(Asked), NEW r \in Asked, NEW m, AsksOf(q, m)
  PROVE  /\ HasAsk(Append(q, r)) <=> HasAsk(q) \/ IsAsk(r)
         /\ ~IsAsk(r) \/ (r.from = m /\ ~HasAsk(q)) => AsksOf(Append(q, r), m)
<1> DEFINE a == Append(q, r)
           n == Len(q)
<1>1. /\ Len(a) = n + 1 /\ n \in Nat
      /\ \A k \in 1 .. n : a[k] = q[k] /\ k \in 1 .. n + 1
      /\ a[n + 1] = r /\ n + 1 \in 1 .. n + 1
      /\ \A k \in 1 .. n + 1 : k \in 1 .. n \/ k = n + 1
  BY AppendFacts
<1> HIDE DEF a, n
<1>2. HasAsk(a) <=> HasAsk(q) \/ IsAsk(r)
  BY <1>1 DEF HasAsk, n
<1>3. ASSUME ~IsAsk(r) \/ (r.from = m /\ ~HasAsk(q))
      PROVE  AsksOf(a, m)
  <2>1. \A k \in 1 .. Len(a) : IsAsk(a[k]) => a[k].from = m
    BY <1>1, <1>3 DEF AsksOf, n
  <2>2. \A k, l \in 1 .. Len(a) : IsAsk(a[k]) /\ IsAsk(a[l]) => k = l
    BY <1>1, <1>3 DEF AsksOf, HasAsk, n
  <2> QED BY <2>1, <2>2 DEF AsksOf
<1> QED BY <1>2, <1>3 DEF a

LEMMA AskTaken ==
  ASSUME NEW q \in Seq(Asked), q # <<>>, NEW m, AsksOf(q, m)
  PROVE  /\ AsksOf(Tail(q), m)
         /\ HasAsk(Tail(q)) => HasAsk(q)
         /\ IsAsk(Head(q)) => HasAsk(q) /\ ~HasAsk(Tail(q)) /\ Head(q).from = m
<1> DEFINE t == Tail(q)
           n == Len(q)
           h == Head(q)
<1>1. /\ Len(t) = n - 1 /\ n \in Nat /\ h = q[1] /\ 1 \in 1 .. n
      /\ \A k \in 1 .. Len(t) : t[k] = q[k + 1] /\ k + 1 \in 1 .. n /\ k + 1 # 1
  BY TailFacts
<1> HIDE DEF t, h, n
<1>2. \A k, l \in 1 .. Len(t) : k + 1 = l + 1 => k = l
  BY <1>1
<1>3. \A k, l \in 1 .. Len(t) : IsAsk(t[k]) /\ IsAsk(t[l]) => k + 1 = l + 1
  BY <1>1 DEF AsksOf, n
<1>4. AsksOf(t, m)
  BY <1>1, <1>2, <1>3 DEF AsksOf, n
<1>5. HasAsk(t) => HasAsk(q)
  BY <1>1 DEF HasAsk, n
<1>6. IsAsk(h) => HasAsk(q) /\ h.from = m
  BY <1>1 DEF HasAsk, AsksOf, n
<1>7. ASSUME IsAsk(h)
      PROVE  ~HasAsk(t)
  BY <1>1, <1>7 DEF HasAsk, AsksOf, n
<1> QED BY <1>4, <1>5, <1>6, <1>7 DEF t, h

LEMMA AsksOfNobody ==
  ASSUME NEW q, NEW m, ~HasAsk(q)
  PROVE  AsksOf(q, m)
  BY DEF AsksOf, HasAsk

\* A turn of child g's thread is started, runs, or was given up, by the holder.
Runs(g) ==
    /\ holder # 0 /\ on[holder] = g
    /\ pc[holder] \in {"turnStart", "turn", "closing"}

Follows(g) == Runs(g) /\ pc[holder] # "closing"

\* The holder has not had the answer to its turn/start.
Unanswered ==
    /\ pc[holder] \in {"turnStart", "closing"}
    /\ pc[holder] = "turnStart" => got[holder] = "none"

Still(g) == active[g] = {} /\ ~HasNote(wire[g])

\* The child runs no turn but the holder's; a turn that has ended, or whose end
\* the _TurnState has recorded, reports nothing any more.
ActiveInv(g) ==
    /\ active[g] # {} => Runs(g) /\ active[g] \subseteq {holder}
    /\ HasFinal(wire[g]) => active[g] = {}
    /\ sub = g <=> Follows(g)
    /\ sub = g /\ state.completed => Still(g)

\* A turn that was refused does not run.
WireInv(g) ==
    /\ WireOf(wire[g], holder)
    /\ HasNote(wire[g]) \/ HasAnswer(wire[g]) => Runs(g)
    /\ HasAnswer(wire[g]) => Unanswered
    /\ Refused(wire[g]) => Still(g)
    /\ Runs(g) /\ pc[holder] = "turnStart" =>
          got[holder] # "noId" /\ (got[holder] = "error" => Still(g))

\* A turn that the child has not been told to start does not run.
AskInv(g) ==
    /\ AsksOf(reqQ[g], holder)
    /\ HasAsk(reqQ[g]) =>
          /\ Runs(g) /\ Unanswered /\ Still(g) /\ ~HasAnswer(wire[g])
          /\ sub = g => ~state.completed

ChildInv(g) == ActiveInv(g) /\ WireInv(g) /\ AskInv(g)

ApartInv ==
    /\ \A g \in Messages : ChildInv(g)
    /\ \A m \in Messages : seen[m] \subseteq {m}

\* No turn of g's thread is left, nor anything on its way about one.
Quiet(g) ==
    /\ Still(g) /\ ~HasFinal(wire[g]) /\ ~HasAnswer(wire[g]) /\ ~Refused(wire[g])
    /\ ~HasAsk(reqQ[g])

LEMMA NothingOf ==
  /\ ~HasNote(<<>>) /\ ~HasFinal(<<>>) /\ ~HasAnswer(<<>>) /\ ~Refused(<<>>)
  /\ ~HasAsk(<<>>)
  BY DEF HasNote, HasFinal, HasAnswer, Refused, HasAsk

\* What is final is a notification, and what is a refusal is an answer.
LEMMA Kinds ==
  ASSUME NEW w
  PROVE  (HasFinal(w) => HasNote(w)) /\ (Refused(w) => HasAnswer(w))
  BY DEF HasFinal, HasNote, IsFinal, IsNote, Refused, HasAnswer, IsRefusal

LEMMA QuietBefore ==
  ASSUME NEW g \in Messages, ChildInv(g), ~Runs(g)
  PROVE  Quiet(g) /\ sub # g
  BY Kinds DEF ChildInv, ActiveInv, WireInv, AskInv, Quiet, Still, Follows

LEMMA QuietAfter ==
  ASSUME NEW g \in Messages, Quiet(g)', ~Follows(g)', sub' # g
  PROVE  ChildInv(g)'
<1>1. ~HasNote(wire'[g]) /\ ~HasAnswer(wire'[g]) /\ ~HasAsk(reqQ'[g])
  BY DEF Quiet, Still
<1>2. WireOf(wire'[g], holder') /\ AsksOf(reqQ'[g], holder')
  BY <1>1, WireOfNobody, AsksOfNobody
<1> QED BY <1>1, <1>2, Kinds
        DEF Quiet, Still, Follows, Runs, ChildInv, ActiveInv, WireInv, AskInv

LEMMA InitApart == Init => ApartInv
<1> SUFFICES ASSUME Init PROVE ApartInv
  OBVIOUS
<1>1. \A m \in Messages : seen[m] \subseteq {m}
  BY DEF Init
<1>2. ASSUME NEW g \in Messages
      PROVE  ChildInv(g)
  <2>1. /\ active[g] = {} /\ wire[g] = <<>> /\ reqQ[g] = <<>> /\ sub = 0 /\ holder = 0
        /\ g # 0
    BY Numbers DEF Init
  <2>2. WireOf(<<>>, holder) /\ AsksOf(<<>>, holder)
    BY NothingOf, WireOfNobody, AsksOfNobody
  <2> QED BY <2>1, <2>2, NothingOf
          DEF ChildInv, ActiveInv, WireInv, AskInv, Still, Follows, Runs
<1> QED BY <1>1, <1>2 DEF ApartInv

\* The child, the reader or a message outside _run_turn() moves: what there is about
\* the holder's turn on child g stays, or some of it is taken.
LEMMA LessOf ==
  ASSUME NEW g \in Messages, ChildInv(g), active'[g] \subseteq active[g],
         WireOf(wire'[g], holder), AsksOf(reqQ'[g], holder),
         HasNote(wire'[g]) => HasNote(wire[g]),
         HasFinal(wire'[g]) => HasFinal(wire[g]),
         HasAnswer(wire'[g]) => HasAnswer(wire[g]),
         Refused(wire'[g]) => Refused(wire[g]),
         HasAsk(reqQ'[g]) => HasAsk(reqQ[g]),
         holder' = holder, sub' = sub, sub = g => state' = state,
         holder # 0 => UNCHANGED <<pc[holder], on[holder]>>,
         Runs(g) => got'[holder] = got[holder]
  PROVE  ChildInv(g)'
<1>1. (Runs(g)' <=> Runs(g)) /\ (Follows(g)' <=> Follows(g))
  BY DEF Runs, Follows
<1>2. Runs(g) => (Unanswered' <=> Unanswered)
  BY DEF Runs, Unanswered
<1>3. Still(g) => Still(g)'
  BY DEF Still
<1>4. ActiveInv(g)'
  BY <1>1, <1>3 DEF ChildInv, ActiveInv
<1>5. WireInv(g)'
  BY <1>1, <1>2, <1>3 DEF ChildInv, WireInv, Runs
<1>6. AskInv(g)'
  BY <1>1, <1>2, <1>3 DEF ChildInv, AskInv
<1> QED BY <1>4, <1>5, <1>6 DEF ChildInv

\* A request other than turn/start changes nothing about the turns asked for.
LEMMA OtherAsked ==
  ASSUME TypeInv, NEW g \in Messages, NEW k, NEW r \in Asked, ~IsAsk(r), AsksOf(reqQ[g], k),
         reqQ'[g] \in {reqQ[g], Append(reqQ[g], r)}
  PROVE  AsksOf(reqQ'[g], k) /\ (HasAsk(reqQ'[g]) => HasAsk(reqQ[g]))
<1>1. reqQ[g] \in Seq(Asked)
  BY DEF TypeInv, PeerType
<1> QED BY <1>1, AskAppended

LEMMA GotoOther ==
  ASSUME TypeInv, NEW m \in Messages, NEW s \in Stages \ {"turnStart"}, NEW h \in NoneOr,
         Goto(m, s, h), NEW g \in Messages, NEW k, AsksOf(reqQ[g], k)
  PROVE  AsksOf(reqQ'[g], k) /\ (HasAsk(reqQ'[g]) => HasAsk(reqQ[g]))
<1>1. CASE s \in RequestStages
  <2>1. RequestOf(m, s, h) \in Asked /\ ~IsAsk(RequestOf(m, s, h))
    BY <1>1, Fields DEF IsAsk, RequestOf
  <2>2. reqQ'[g] \in {reqQ[g], Append(reqQ[g], RequestOf(m, s, h))}
    BY <1>1 DEF Goto, TypeInv, PeerType
  <2> QED BY <2>1, <2>2, OtherAsked
<1>2. CASE s \notin RequestStages
  BY <1>2 DEF Goto
<1> QED BY <1>1, <1>2

\* While no child has a turn, the holder goes on to a stage without one, or leaves.
LEMMA IdleMoves ==
  ASSUME \A g \in Messages : Quiet(g), UNCHANGED <<wire, active>>,
         \A g \in Messages : ~HasAsk(reqQ'[g]),
         holder' = 0 \/ pc'[holder'] \notin {"turnStart", "turn"},
         sub' \notin Messages, seen' = seen, ApartInv
  PROVE  ApartInv'
<1>1. ASSUME NEW g \in Messages
      PROVE  ChildInv(g)'
  <2>1. Quiet(g)'
    BY DEF Quiet, Still
  <2>2. ~Follows(g)'
    BY DEF Follows, Runs
  <2> QED BY <2>1, <2>2, QuietAfter
<1> QED BY <1>1 DEF ApartInv

\* While no child has a turn, the holder subscribes and sends its turn/start.
LEMMA TurnBegins ==
  ASSUME TypeInv, ApartInv, NEW m \in Messages, NEW h \in Messages,
         \A g \in Messages : Quiet(g),
         Goto(m, "turnStart", h), Subscribed("turnStart", h), holder' = m,
         UNCHANGED <<wire, active, seen>>
  PROVE  ApartInv'
<1> DEFINE r == RequestOf(m, "turnStart", h)
<1>0. sub' = h /\ ~state'.completed
  <2>1. ~NewState.completed
    BY DEF NewState
  <2> QED BY <2>1, Zenon DEF Subscribed
<1>1. /\ pc'[m] = "turnStart" /\ on'[m] = h /\ got'[m] = "none" /\ m # 0
      /\ r \in Asked /\ r.from = m
      /\ \A g \in Messages : reqQ'[g] = IF g = h THEN Append(reqQ[g], r) ELSE reqQ[g]
      /\ reqQ[h] \in Seq(Asked)
  <2>1. r \in Asked /\ r.from = m /\ m # 0
    BY Fields, Numbers DEF RequestStages, RequestOf
  <2> HIDE DEF r
  <2>2. reqQ' = [reqQ EXCEPT ![h] = Append(@, r)]
    BY DEF Goto, RequestStages, r
  <2> QED BY <2>1, <2>2 DEF Goto, TypeInv, CoroType, PeerType
<1> HIDE DEF r
<1>2. ASSUME NEW g \in Messages, g # h
      PROVE  ChildInv(g)'
  BY <1>0, <1>1, <1>2, QuietAfter DEF Quiet, Still, Follows, Runs
<1>3. ChildInv(h)'
  <2>1. Runs(h)' /\ Follows(h)' /\ Unanswered'
    BY <1>1 DEF Runs, Follows, Unanswered
  <2>2. /\ ~HasNote(wire'[h]) /\ ~HasAnswer(wire'[h])
        /\ ~HasFinal(wire'[h]) /\ ~Refused(wire'[h])
        /\ Still(h)'
    BY DEF Quiet, Still
  <2>3. ActiveInv(h)'
    BY <1>0, <2>1, <2>2 DEF ActiveInv, Still
  <2>4. WireInv(h)'
    BY <1>1, <2>1, <2>2, WireOfNobody DEF WireInv
  <2>5. AsksOf(reqQ'[h], m)
    <3>1. ~HasAsk(reqQ[h]) /\ AsksOf(reqQ[h], m)
      BY AsksOfNobody DEF Quiet
    <3> QED BY <1>1, <3>1, AskAppended
  <2>6. AskInv(h)'
    BY <1>0, <2>1, <2>2, <2>5 DEF AskInv
  <2> QED BY <2>3, <2>4, <2>6 DEF ChildInv
<1> QED BY <1>2, <1>3 DEF ApartInv

\* Nobody is past turn/start.
LEMMA AllQuiet ==
  ASSUME ApartInv, holder = 0 \/ pc[holder] \notin {"turnStart", "turn", "closing"}
  PROVE  /\ \A g \in Messages : Quiet(g)
         /\ sub \notin Messages
<1>1. \A g \in Messages : ChildInv(g) /\ ~Runs(g)
  BY DEF ApartInv, Runs
<1> QED BY <1>1, QuietBefore

\* The holder reaches one of the stages up to turn/start.
LEMMA StageBegins ==
  ASSUME TypeInv, ApartInv, NEW m \in Messages,
         holder = 0 \/ pc[holder] \notin {"turnStart", "turn", "closing"},
         NEW s \in {"starting", "init", "threading", "mcp", "turnStart"}, NEW h \in NoneOr,
         s = "turnStart" => h # 0,
         Goto(m, s, h), Subscribed(s, h), holder' = m, UNCHANGED <<wire, active, seen>>
  PROVE  ApartInv'
<1>1. /\ \A g \in Messages : Quiet(g)
      /\ sub \notin Messages
  BY AllQuiet
<1>2. CASE s = "turnStart"
  BY <1>1, <1>2, Numbers, TurnBegins
<1>3. CASE s # "turnStart"
  <2>1. s \in Stages \ {"turnStart"}
    BY <1>3 DEF Stages, TurnStages
  <2>2. \A g \in Messages : ~HasAsk(reqQ'[g])
    BY <1>1, <2>1, AsksOfNobody, GotoOther DEF Quiet
  <2>3. sub' \notin Messages
    BY <1>1, <1>3 DEF Subscribed, turn
  <2>4. pc'[holder'] \notin {"turnStart", "turn"}
    BY <1>3 DEF Goto, TypeInv, CoroType
  <2> QED BY <1>1, <2>2, <2>3, <2>4, IdleMoves
<1> QED BY <1>2, <1>3

\* A message outside _run_turn() moves, or only the channel does.
LEMMA BystanderApart ==
  ASSUME TypeInv, ApartInv, UNCHANGED <<holder, sub, state, wire, active, seen>>,
         holder # 0 => UNCHANGED <<pc[holder], on[holder], got[holder]>>,
         \A g \in Messages, k \in NoneOr : AsksOf(reqQ[g], k) =>
             AsksOf(reqQ'[g], k) /\ (HasAsk(reqQ'[g]) => HasAsk(reqQ[g]))
  PROVE  ApartInv'
<1>1. ASSUME NEW g \in Messages
      PROVE  ChildInv(g)'
  <2>1. /\ ChildInv(g) /\ WireOf(wire[g], holder) /\ AsksOf(reqQ[g], holder)
        /\ holder \in NoneOr
    BY DEF ApartInv, ChildInv, WireInv, AskInv, TypeInv, FieldType
  <2>2. AsksOf(reqQ'[g], holder) /\ (HasAsk(reqQ'[g]) => HasAsk(reqQ[g]))
    BY <2>1
  <2>3. /\ WireOf(wire'[g], holder) /\ active'[g] \subseteq active[g]
        /\ wire'[g] = wire[g]
    BY <2>1
  <2>4. Runs(g) => got'[holder] = got[holder]
    BY DEF Runs
  <2> QED BY <2>1, <2>2, <2>3, <2>4, LessOf
<1> QED BY <1>1 DEF ApartInv

\* Arrival, turn/steer, the lock.
LEMMA ArrivalApart ==
  ASSUME TypeInv, LockInv, ApartInv, NEW m \in Messages,
         Arrive(m) \/ SteerStep(m) \/ LockGranted(m)
  PROVE  ApartInv'
<1> USE DEF executor, lock, turn, history
<1>0. /\ appServer \in NoneOr /\ 0 \in NoneOr /\ m # 0
      /\ {"steering", "queued", "done"} \subseteq Stages \ {"turnStart"}
  BY Numbers DEF TypeInv, FieldType, Stages, TurnStages
<1>1. ASSUME pc[m] \in {"idle", "steering"}
      PROVE  holder # m
  BY <1>1 DEF LockInv, TurnStages
<1>2. ASSUME pc[m] \in {"idle", "steering"}, UNCHANGED <<holder, sub, state>>,
             UNCHANGED <<wire, active, seen>>,
             NEW s \in {"steering", "queued"}, NEW h \in NoneOr, Goto(m, s, h)
      PROVE  ApartInv'
  <2>1. holder # 0 => UNCHANGED <<pc[holder], on[holder], got[holder]>>
    BY <1>1, <1>2 DEF Goto, TypeInv, CoroType, FieldType
  <2>2. \A g \in Messages, k \in NoneOr : AsksOf(reqQ[g], k) =>
           AsksOf(reqQ'[g], k) /\ (HasAsk(reqQ'[g]) => HasAsk(reqQ[g]))
    BY <1>0, <1>2, GotoOther
  <2> QED BY <1>2, <2>1, <2>2, BystanderApart
<1>3. ASSUME pc[m] \in {"idle", "steering"}, UNCHANGED <<holder, sub, state>>,
             UNCHANGED <<wire, active, seen>>, NEW how, End(m, how)
      PROVE  ApartInv'
  <2>1. holder # 0 => UNCHANGED <<pc[holder], on[holder], got[holder]>>
    BY <1>1, <1>3 DEF End, TypeInv, CoroType, FieldType
  <2>2. reqQ' = reqQ
    BY <1>3 DEF End
  <2> QED BY <1>3, <2>1, <2>2, BystanderApart
<1>4. ASSUME holder = 0, holder' = m, UNCHANGED <<wire, active, seen>>,
             Goto(m, FirstStage, appServer), Subscribed(FirstStage, appServer)
      PROVE  ApartInv'
  <2>1. /\ FirstStage \in {"starting", "init", "threading", "mcp", "turnStart"}
        /\ FirstStage = "turnStart" => appServer # 0
    BY StageTypes
  <2> HIDE DEF FirstStage
  <2> QED BY <1>0, <1>4, <2>1, StageBegins
<1>5. ASSUME pc[m] \in {"idle", "steering"}, LockPath(m), UNCHANGED <<wire, active, seen>>
      PROVE  ApartInv'
  <2>1. CASE holder = 0 /\ lockQ = <<>>
    BY <1>4, <1>5, <2>1 DEF LockPath
  <2>2. CASE ~(holder = 0 /\ lockQ = <<>>)
    BY <1>0, <1>2, <1>5, <2>2, Zenon DEF LockPath
  <2> QED BY <2>1, <2>2
<1>6. CASE Arrive(m)
  <2>1. CASE CanSteer
    BY <1>0, <1>2, <1>6, <2>1, Zenon DEF Arrive
  <2>2. CASE ~CanSteer
    BY <1>5, <1>6, <2>2, Zenon DEF Arrive
  <2> QED BY <2>1, <2>2
<1>7. CASE SteerRefused(m) \/ SteerTimesOut(m)
  BY <1>5, <1>7, Zenon DEF SteerRefused, SteerTimesOut
<1>8. CASE SteerAccepted(m) \/ SteerLosesChild(m)
  BY <1>3, <1>8, Zenon DEF SteerAccepted, SteerLosesChild
<1>9. CASE LockGranted(m)
  BY <1>4, <1>9, Zenon DEF LockGranted
<1> QED BY <1>6, <1>7, <1>8, <1>9 DEF SteerStep

\* What the holder of the lock leaves behind, or goes on with.
LEMMA HolderOnly ==
  ASSUME TypeInv, LockInv, ApartInv, NEW m \in Messages, pc[m] \in TurnStages
  PROVE  /\ holder = m /\ m # 0 /\ on[m] \in NoneOr
         /\ \A g \in Messages : g # on[m] => Quiet(g) /\ sub # g
<1>1. holder = m /\ m # 0 /\ on[m] \in NoneOr
  BY Numbers DEF LockInv, TypeInv, CoroType
<1>2. \A g \in Messages : ChildInv(g) /\ (g # on[m] => ~Runs(g))
  BY <1>1 DEF ApartInv, Runs
<1> QED BY <1>1, <1>2, QuietBefore

\* TurnCompletes and TurnRefused: nothing of the turn is left when the lock is released.
LEMMA TurnLeaves ==
  ASSUME TypeInv, LockInv, ApartInv, NEW m \in Messages, pc[m] \in {"turnStart", "turn"},
         \A g \in Messages : g = on[m] => Quiet(g),
         holder' = 0, sub' = 0, UNCHANGED <<reqQ, wire, active, seen>>
  PROVE  ApartInv'
<1>1. \A g \in Messages : Quiet(g)
  BY HolderOnly DEF TurnStages
<1>2. \A g \in Messages : ~HasAsk(reqQ'[g])
  BY <1>1 DEF Quiet
<1> QED BY <1>1, <1>2, Numbers, IdleMoves

LEMMA CompletesApart ==
  ASSUME TypeInv, LockInv, TargetInv, ApartInv, NEW m \in Messages, TurnCompletes(m)
  PROVE  ApartInv'
<1>1. /\ pc[m] = "turn" /\ holder' = 0 /\ sub' = 0 /\ state.completed
      /\ UNCHANGED <<reqQ, wire, active, seen>> /\ holder = m /\ m # 0
  BY HolderOnly DEF TurnCompletes, Unsubscribed, Release, End, TurnStages
<1>2. ASSUME NEW g \in Messages, g = on[m]
      PROVE  Quiet(g)
  <2>1. ChildInv(g) /\ Follows(g)
    BY <1>1, <1>2 DEF ApartInv, Follows, Runs
  <2>2. sub = g /\ Still(g) /\ ~Unanswered
    BY <1>1, <2>1 DEF ChildInv, ActiveInv, Unanswered
  <2> QED BY <2>1, <2>2, Kinds DEF ChildInv, WireInv, AskInv, Quiet, Still
<1> QED BY <1>1, <1>2, TurnLeaves

LEMMA RefusedApart ==
  ASSUME TypeInv, LockInv, TargetInv, ApartInv, NEW m \in Messages, TurnRefused(m)
  PROVE  ApartInv'
<1>1. /\ pc[m] \in {"init", "threading", "turnStart"} /\ holder' = 0
      /\ UNCHANGED <<reqQ, wire, active, seen>> /\ holder = m /\ m # 0
  BY HolderOnly DEF TurnRefused, Release, End, TurnStages
<1>2. CASE pc[m] = "turnStart"
  <2>1. sub' = 0 /\ got[m] \in {"error", "noId"}
    BY <1>2 DEF TurnRefused, Unsubscribed
  <2>2. ASSUME NEW g \in Messages, g = on[m]
        PROVE  Quiet(g)
    <3>1. ChildInv(g) /\ Runs(g) /\ ~Unanswered
      BY <1>1, <1>2, <2>1, <2>2 DEF ApartInv, Runs, Unanswered
    <3>2. Still(g)
      BY <1>1, <1>2, <2>1, <3>1 DEF ChildInv, WireInv
    <3> QED BY <3>1, <3>2, Kinds DEF ChildInv, WireInv, AskInv, Quiet, Still
  <2> QED BY <1>1, <1>2, <2>1, <2>2, TurnLeaves
<1>3. CASE pc[m] # "turnStart"
  <2>1. sub' = sub
    BY <1>3 DEF TurnRefused, turn
  <2>2. (\A g \in Messages : Quiet(g)) /\ sub \notin Messages
    BY <1>1, <1>3, AllQuiet
  <2>3. \A g \in Messages : ~HasAsk(reqQ'[g])
    BY <1>1, <2>2 DEF Quiet
  <2> QED BY <1>1, <2>1, <2>2, <2>3, IdleMoves
<1> QED BY <1>2, <1>3

\* The answer has arrived: nothing more is asked for, and no other answer comes.
LEMMA StartedApart ==
  ASSUME TypeInv, LockInv, TargetInv, ApartInv, NEW m \in Messages, TurnStarted(m)
  PROVE  ApartInv'
<1>1. /\ pc[m] = "turnStart" /\ got[m] = "ok" /\ holder = m /\ m # 0
      /\ pc'[m] = "turn" /\ got'[m] = "none"
      /\ UNCHANGED <<holder, on, sub, reqQ, wire, active, seen>>
  BY HolderOnly DEF TurnStarted, TypeInv, CoroType, lock, peers, history, TurnStages
<1>2. state'.completed = state.completed
  <2>1. \A r \in StateType : [r EXCEPT !.turn = m].completed = r.completed
    BY DEF StateType
  <2>2. state \in StateType /\ state' = [state EXCEPT !.turn = m]
    BY Zenon DEF TypeInv, FlagType, TurnStarted
  <2> QED BY <2>1, <2>2
<1>3. ASSUME NEW g \in Messages
      PROVE  ChildInv(g)'
  <2>1. ChildInv(g) /\ ~Unanswered
    BY <1>1 DEF ApartInv, Unanswered
  <2>2. ~HasAnswer(wire[g]) /\ ~Refused(wire[g]) /\ ~HasAsk(reqQ[g])
    BY <2>1, Kinds DEF ChildInv, WireInv, AskInv
  <2>3. (Runs(g)' <=> Runs(g)) /\ (Follows(g)' <=> Follows(g)) /\ (Still(g)' <=> Still(g))
    BY <1>1 DEF Runs, Follows, Still
  <2>4. ActiveInv(g)'
    BY <1>1, <1>2, <2>1, <2>3 DEF ChildInv, ActiveInv
  <2>5. WireInv(g)'
    BY <1>1, <2>1, <2>2, <2>3 DEF ChildInv, WireInv
  <2>6. AskInv(g)'
    BY <1>1, <2>1, <2>2 DEF ChildInv, AskInv
  <2> QED BY <2>4, <2>5, <2>6 DEF ChildInv
<1> QED BY <1>1, <1>3 DEF ApartInv

\* A turn that timed out or was lost is given up; its child is about to be closed.
LEMMA FailsApart ==
  ASSUME TypeInv, LockInv, TargetInv, ApartInv, NEW m \in Messages, TurnFails(m)
  PROVE  ApartInv'
<1>1. /\ pc[m] \in {"init", "threading", "turnStart", "turn"}
      /\ appServer # 0 /\ on[m] = appServer /\ appServer \in NoneOr
      /\ holder = m /\ m # 0
  BY HolderOnly DEF TurnFails, TargetInv, TurnStages, TypeInv, FieldType
<1>2. /\ Goto(m, "closing", appServer) /\ holder' = m
      /\ UNCHANGED <<state, wire, active, seen>>
  BY <1>1 DEF TurnFails, lock
<1>3. pc'[m] = "closing" /\ on'[m] = on[m] /\ reqQ' = reqQ
  BY <1>1, <1>2 DEF Goto, RequestStages, TypeInv, CoroType
<1>4. CASE pc[m] \in {"init", "threading"}
  <2>1. (\A g \in Messages : Quiet(g)) /\ sub \notin Messages
    BY <1>1, <1>4, AllQuiet
  <2>2. \A g \in Messages : ~HasAsk(reqQ'[g])
    BY <1>3, <2>1 DEF Quiet
  <2>3. sub' = sub
    BY <1>4 DEF TurnFails
  <2> QED BY <1>2, <1>3, <2>1, <2>2, <2>3, IdleMoves
<1>5. CASE pc[m] \in {"turnStart", "turn"}
  <2>1. sub' = 0
    BY <1>5 DEF TurnFails
  <2>2. ASSUME NEW g \in Messages
        PROVE  ChildInv(g)'
    <3>1. ChildInv(g) /\ (Runs(g)' <=> Runs(g)) /\ Unanswered' /\ ~Follows(g)' /\ g # 0
          /\ (Still(g)' <=> Still(g))
      BY <1>1, <1>2, <1>3, <1>5, Numbers DEF ApartInv, Runs, Unanswered, Follows, Still
    <3>2. ActiveInv(g)'
      BY <1>1, <1>2, <2>1, <3>1 DEF ChildInv, ActiveInv
    <3>3. WireInv(g)'
      BY <1>1, <1>2, <1>3, <3>1 DEF ChildInv, WireInv
    <3>4. AskInv(g)'
      BY <1>1, <1>2, <1>3, <2>1, <3>1 DEF ChildInv, AskInv
    <3> QED BY <3>2, <3>3, <3>4 DEF ChildInv
  <2> QED BY <1>2, <2>2 DEF ApartInv
<1> QED BY <1>1, <1>4, <1>5

LEMMA ClosedApart ==
  ASSUME TypeInv, LockInv, ApartInv, NEW m \in Messages, Closed(m)
  PROVE  ApartInv'
<1>1. /\ pc[m] = "closing" /\ Close(on[m]) /\ holder' = 0 /\ holder = m
      /\ UNCHANGED <<sub, seen>>
      /\ \A g \in Messages : g # on[m] => Quiet(g)
  BY HolderOnly DEF Closed, Release, turn, TurnStages
<1>2. ASSUME NEW g \in Messages
      PROVE  ChildInv(g)'
  <2>1. Quiet(g)'
    <3>1. CASE g = on[m]
      <4>1. active'[g] = {} /\ wire'[g] = <<>> /\ reqQ'[g] = <<>>
        BY <1>1, <3>1 DEF Close, TypeInv, PeerType
      <4> QED BY <4>1, NothingOf DEF Quiet, Still
    <3>2. CASE g # on[m]
      <4>1. active'[g] = active[g] /\ wire'[g] = wire[g] /\ reqQ'[g] = reqQ[g]
        BY <1>1, <3>2 DEF Close, TypeInv, PeerType
      <4> QED BY <1>1, <3>2, <4>1 DEF Quiet, Still
    <3> QED BY <3>1, <3>2
  <2>2. ~Follows(g) /\ ~Follows(g)'
    BY <1>1 DEF Follows, Runs
  <2>3. sub' # g
    BY <1>1, <2>2 DEF ApartInv, ChildInv, ActiveInv
  <2> QED BY <2>1, <2>2, <2>3, QuietAfter
<1> QED BY <1>1, <1>2 DEF ApartInv

LEMMA InitializedApart ==
  ASSUME TypeInv, LockInv, TargetInv, ApartInv, NEW m \in Messages, Initialized(m)
  PROVE  ApartInv'
<1>1. /\ pc[m] = "init" /\ appServer # 0 /\ threadId = 0 /\ holder = m
  BY HolderOnly DEF Initialized, TargetInv, TurnStages
<1> DEFINE r == RequestOf(m, "threading", on[m])
<1>2. /\ pc'[m] = "threading" /\ UNCHANGED <<holder, wire, active, seen, sub>>
      /\ reqQ' = [reqQ EXCEPT ![on[m]] = @ \o <<InitializedNote>> \o <<r>>]
  BY <1>1 DEF Initialized, StageAfterInit, Subscribed, RequestStages, lock, turn, TypeInv,
     CoroType
<1>3. (\A g \in Messages : Quiet(g)) /\ sub \notin Messages
  BY <1>1, AllQuiet
<1>4. /\ InitializedNote \in Asked /\ ~IsAsk(InitializedNote)
      /\ r \in Asked /\ ~IsAsk(r)
  <2>1. on[m] \in NoneOr
    BY DEF TypeInv, CoroType
  <2>2. r \in Asked
    BY <2>1, Fields DEF RequestStages
  <2>3. ~IsAsk(r) /\ ~IsAsk(InitializedNote)
    BY DEF IsAsk, RequestOf, InitializedNote
  <2>4. InitializedNote \in Asked
    BY Numbers DEF InitializedNote, Asked, Request, RequestStages
  <2> QED BY <2>2, <2>3, <2>4
<1> HIDE DEF r
<1>5. ASSUME NEW g \in Messages
      PROVE  ~HasAsk(reqQ'[g])
  <2>1. reqQ[g] \in Seq(Asked) /\ AsksOf(reqQ[g], m) /\ ~HasAsk(reqQ[g])
    BY <1>3, AsksOfNobody DEF Quiet, TypeInv, PeerType
  <2> DEFINE a == Append(reqQ[g], InitializedNote)
  <2>2. a \in Seq(Asked) /\ AsksOf(a, m) /\ ~HasAsk(a)
    BY <1>4, <2>1, AskAppended
  <2> HIDE DEF a
  <2>3. ~HasAsk(Append(a, r))
    BY <1>4, <2>2, AskAppended
  <2>4. reqQ[g] \o <<InitializedNote>> \o <<r>> = Append(a, r)
    BY <1>4, <2>1 DEF a
  <2>5. reqQ'[g] = reqQ[g] \/ reqQ'[g] = Append(a, r)
    BY <1>2, <2>4 DEF TypeInv, PeerType
  <2> QED BY <2>1, <2>3, <2>5
<1> QED BY <1>1, <1>2, <1>3, <1>5, IdleMoves

\* The steps of _run_turn().
LEMMA TurnApart ==
  ASSUME TypeInv, LockInv, TargetInv, ApartInv, NEW m \in Messages, TurnStep(m)
  PROVE  ApartInv'
<1> USE DEF executor, lock, history
<1>1. CASE ChildStarted(m)
  <2>1. /\ pc[m] = "starting" /\ holder = m /\ m \in NoneOr
        /\ Goto(m, "init", m) /\ Subscribed("init", m) /\ holder' = m
        /\ UNCHANGED <<wire, active, seen>>
    BY <1>1, HolderOnly, Numbers DEF ChildStarted, Subscribed, TurnStages
  <2> QED BY <2>1, StageBegins
<1>2. CASE StartFails(m)
  <2>1. /\ pc[m] = "starting" /\ holder = m /\ holder' = 0
        /\ UNCHANGED <<reqQ, wire, active, seen, sub>>
    BY <1>2, HolderOnly DEF StartFails, End, Release, turn, TurnStages
  <2>2. (\A g \in Messages : Quiet(g)) /\ sub \notin Messages
    BY <2>1, AllQuiet
  <2>3. \A g \in Messages : ~HasAsk(reqQ'[g])
    BY <2>1, <2>2 DEF Quiet
  <2> QED BY <2>1, <2>2, <2>3, IdleMoves
<1>3. CASE ThreadStarted(m)
  <2>1. /\ pc[m] = "threading" /\ holder = m /\ on[m] \in NoneOr /\ on[m] # 0
        /\ Goto(m, StageAfterThread, on[m]) /\ Subscribed(StageAfterThread, on[m])
        /\ holder' = m /\ UNCHANGED <<wire, active, seen>>
    BY <1>3, HolderOnly DEF ThreadStarted, TargetInv, TurnStages
  <2>2. StageAfterThread \in {"starting", "init", "threading", "mcp", "turnStart"}
    BY StageTypes
  <2> HIDE DEF StageAfterThread
  <2> QED BY <2>1, <2>2, StageBegins
<1>4. CASE Enumerated(m)
  <2>1. /\ pc[m] = "mcp" /\ holder = m /\ appServer # 0 /\ appServer \in NoneOr
        /\ Goto(m, "turnStart", appServer) /\ Subscribed("turnStart", appServer)
        /\ holder' = m /\ UNCHANGED <<wire, active, seen>>
    BY <1>4, HolderOnly DEF Enumerated, TargetInv, TurnStages, TypeInv, FieldType
  <2> QED BY <2>1, StageBegins
<1> QED BY <1>1, <1>2, <1>3, <1>4, CompletesApart, RefusedApart, StartedApart, FailsApart,
           ClosedApart, InitializedApart DEF TurnStep

-----------------------------------------------------------------------------
(* The reader of a child, and the child.                                   *)

LEMMA CancelApart ==
  ASSUME TypeInv, ApartInv, Cancel
  PROVE  ApartInv'
<1>1. Interrupt \in Asked /\ ~IsAsk(Interrupt)
  <2>1. Interrupt \in Asked
    BY Numbers DEF Interrupt, Asked, Request, RequestStages, TypeInv, FieldType
  <2> QED BY <2>1 DEF Interrupt, IsAsk
<1>2. \A g \in Messages : reqQ'[g] \in {reqQ[g], Append(reqQ[g], Interrupt)}
  BY DEF Cancel, TypeInv, PeerType
<1>3. UNCHANGED <<holder, sub, state, wire, active, seen, pc, on, got>>
  BY Zenon DEF Cancel, lock, turn, history, coros
<1>4. holder # 0 => UNCHANGED <<pc[holder], on[holder], got[holder]>>
  BY <1>3
<1> QED BY <1>1, <1>2, <1>3, <1>4, OtherAsked, BystanderApart

LEMMA ResponseApart ==
  ASSUME TypeInv, ApartInv, NEW g \in Messages, DispatchResponse(g)
  PROVE  ApartInv'
<1> DEFINE w == wire[g]
           r == Head(w)
<1>1. /\ w \in Seq(Line) /\ w # <<>> /\ r \in Line /\ r.kind = "response"
      /\ \A h \in Messages : wire'[h] = IF h = g THEN Tail(w) ELSE wire[h]
      /\ got' = IF Awaits(r.from, g, r.stage) THEN [got EXCEPT ![r.from] = r.result]
                ELSE got
      /\ UNCHANGED <<holder, lockQ, pc, on, sub, reqQ, active, seen>>
  <2>1. w \in Seq(Line) /\ w # <<>> /\ wire' = [wire EXCEPT ![g] = Tail(w)]
    BY DEF DispatchResponse, TypeInv, PeerType
  <2>2. \A h \in Messages : wire'[h] = IF h = g THEN Tail(w) ELSE wire[h]
    BY <2>1 DEF TypeInv, PeerType
  <2>3. r \in Line
    BY <2>1
  <2> QED BY <2>1, <2>2, <2>3 DEF DispatchResponse, lock, turn, history
<1>2. state' = state
  BY Zenon DEF DispatchResponse, turn
<1> HIDE DEF r, w
<1>3. /\ r.stage \in RequestStages \cup {"none"} /\ r.from \in Messages
      /\ got \in [Messages -> Results]
  BY <1>1 DEF Line, TypeInv, CoroType
\* What is answered is not the turn/start of the turn on h.
<1>4. ASSUME NEW h \in Messages,
             h # g \/ ~IsAnswer(r) \/ (Runs(g) /\ pc[holder] = "closing")
      PROVE  ChildInv(h)'
  <2>1. ChildInv(h) /\ WireOf(wire[h], holder) /\ AsksOf(reqQ[h], holder)
    BY DEF ApartInv, ChildInv, WireInv, AskInv
  <2>2. Runs(h) => got'[holder] = got[holder]
    <3>1. ASSUME Runs(h), Awaits(r.from, g, r.stage), r.from = holder
          PROVE  FALSE
      BY <1>1, <1>3, <1>4, <3>1 DEF Runs, Awaits, IsAnswer, RequestStages
    <3> QED BY <1>1, <1>3, <3>1
  <2>3. /\ WireOf(wire'[h], holder)
        /\ HasNote(wire'[h]) => HasNote(wire[h])
        /\ HasFinal(wire'[h]) => HasFinal(wire[h])
        /\ HasAnswer(wire'[h]) => HasAnswer(wire[h])
        /\ Refused(wire'[h]) => Refused(wire[h])
    <3>1. CASE h = g
      BY <1>1, <2>1, <3>1, WireTaken DEF w
    <3>2. CASE h # g
      BY <1>1, <2>1, <3>2
    <3> QED BY <3>1, <3>2
  <2> QED BY <1>1, <1>2, <2>1, <2>2, <2>3, LessOf
\* It is.
<1>5. ASSUME IsAnswer(r), ~(Runs(g) /\ pc[holder] = "closing")
      PROVE  ChildInv(g)'
  <2>1. ChildInv(g) /\ WireOf(w, holder)
    BY DEF ApartInv, ChildInv, WireInv, w
  <2>2. /\ WireOf(Tail(w), holder) /\ ~HasAnswer(Tail(w)) /\ HasAnswer(w)
        /\ r.from = holder /\ r.result # "noId"
        /\ HasNote(Tail(w)) => HasNote(w)
        /\ HasFinal(Tail(w)) => HasFinal(w)
        /\ IsRefusal(r) => Refused(w)
    BY <1>1, <1>5, <2>1, WireTaken DEF r
  <2>3. ~Refused(Tail(w))
    BY <2>2, Kinds
  <2>4. Runs(g) /\ Unanswered /\ pc[holder] = "turnStart" /\ got[holder] = "none"
    BY <1>5, <2>1, <2>2 DEF ChildInv, WireInv, Unanswered, w
  <2>5. got'[holder] = r.result
    BY <1>1, <1>3, <1>5, <2>2, <2>4 DEF Awaits, Runs, IsAnswer
  <2>6. r.result = "error" => Still(g)
    BY <1>5, <2>1, <2>2 DEF IsRefusal, ChildInv, WireInv, w
  <2>7. ~HasAsk(reqQ[g])
    BY <2>1, <2>2 DEF ChildInv, AskInv, w
  <2>8. /\ (Runs(g)' <=> Runs(g)) /\ (Follows(g)' <=> Follows(g)) /\ (Still(g) => Still(g)')
        /\ wire'[g] = Tail(w)
    BY <1>1, <2>2 DEF Runs, Follows, Still, w
  <2>9. ActiveInv(g)'
    BY <1>1, <1>2, <2>1, <2>2, <2>8 DEF ChildInv, ActiveInv, w
  <2>10. WireInv(g)'
    BY <1>1, <2>1, <2>2, <2>3, <2>4, <2>5, <2>6, <2>8 DEF ChildInv, WireInv, w
  <2>11. AskInv(g)'
    BY <1>1, <2>1, <2>7 DEF ChildInv, AskInv
  <2> QED BY <2>9, <2>10, <2>11 DEF ChildInv
<1> QED BY <1>1, <1>4, <1>5 DEF ApartInv

LEMMA NotificationApart ==
  ASSUME TypeInv, ApartInv, NEW g \in Messages, DispatchNotification(g)
  PROVE  ApartInv'
<1> DEFINE w == wire[g]
           n == Head(w)
<1>1. /\ w \in Seq(Line) /\ w # <<>> /\ IsNote(n) /\ ~IsAnswer(n)
      /\ \A h \in Messages : wire'[h] = IF h = g THEN Tail(w) ELSE wire[h]
      /\ UNCHANGED <<holder, pc, on, got, sub, reqQ, active>>
  <2>1. w \in Seq(Line) /\ w # <<>> /\ wire' = [wire EXCEPT ![g] = Tail(w)]
    BY DEF DispatchNotification, TypeInv, PeerType
  <2>2. \A h \in Messages : wire'[h] = IF h = g THEN Tail(w) ELSE wire[h]
    BY <2>1 DEF TypeInv, PeerType
  <2> QED BY <2>1, <2>2 DEF DispatchNotification, lock, coros, IsNote, IsAnswer
<1>2. /\ sub # g => state' = state /\ seen' = seen
      /\ sub = g => seen' = [seen EXCEPT ![holder] = @ \cup {n.from}]
  BY Zenon DEF DispatchNotification, Concerns
<1>3. ASSUME sub = g
      PROVE  state'.completed <=> state.completed \/ n.kind # "delta"
  <2>1. \A r \in StateType :
           [r EXCEPT !.completed = @ \/ n.kind # "delta",
                     !.error = @ \/ n.kind = "error"].completed
             <=> r.completed \/ n.kind # "delta"
    BY DEF StateType
  <2>2. /\ state \in StateType
        /\ state' = [state EXCEPT !.completed = @ \/ n.kind # "delta",
                                 !.error = @ \/ n.kind = "error"]
    BY <1>3, Zenon DEF TypeInv, FlagType, DispatchNotification, Concerns
  <2>3. [state EXCEPT !.completed = @ \/ n.kind # "delta",
                      !.error = @ \/ n.kind = "error"].completed
          <=> state.completed \/ n.kind # "delta"
    BY <2>1, <2>2, Zenon
  <2> QED BY <2>2, <2>3, Zenon
<1> HIDE DEF n, w
<1>4. /\ \A h \in Messages : ChildInv(h) /\ WireOf(wire[h], holder)
                               /\ AsksOf(reqQ[h], holder)
      /\ WireOf(w, holder)
  BY DEF ApartInv, ChildInv, WireInv, AskInv, w
<1>5. /\ WireOf(Tail(w), holder) /\ n.from = holder /\ HasNote(w)
      /\ HasNote(Tail(w)) => HasNote(w)
      /\ HasFinal(Tail(w)) => HasFinal(w)
      /\ HasAnswer(Tail(w)) => HasAnswer(w)
      /\ Refused(Tail(w)) => Refused(w)
      /\ IsFinal(n) => HasFinal(w) /\ ~HasNote(Tail(w))
  BY <1>1, <1>4, WireTaken DEF n
<1>6. ASSUME NEW h \in Messages, h # g \/ sub # g
      PROVE  ChildInv(h)'
  <2>1. /\ WireOf(wire'[h], holder)
        /\ HasNote(wire'[h]) => HasNote(wire[h])
        /\ HasFinal(wire'[h]) => HasFinal(wire[h])
        /\ HasAnswer(wire'[h]) => HasAnswer(wire[h])
        /\ Refused(wire'[h]) => Refused(wire[h])
    BY <1>1, <1>4, <1>5 DEF w
  <2>2. sub = h => state' = state
    BY <1>2, <1>6
  <2> QED BY <1>1, <1>4, <2>1, <2>2, LessOf
<1>7. ASSUME sub = g
      PROVE  ChildInv(g)' /\ \A m \in Messages : seen'[m] \subseteq {m}
  <2>1. Follows(g) /\ Runs(g) /\ ~Still(g) /\ ~state.completed
    BY <1>4, <1>5, <1>7 DEF ChildInv, ActiveInv, Follows, Still, w
  <2>2. ~HasAsk(reqQ[g]) /\ ~Refused(wire[g])
    BY <1>4, <2>1 DEF ChildInv, WireInv, AskInv
  <2>3. (Runs(g)' <=> Runs(g)) /\ (Follows(g)' <=> Follows(g)) /\ wire'[g] = Tail(w)
    BY <1>1 DEF Runs, Follows
  <2>4. state'.completed => Still(g)'
    <3>1. state'.completed => IsFinal(n)
      BY <1>1, <1>3, <1>7, <2>1 DEF IsNote, IsFinal
    <3>2. IsFinal(n) => active[g] = {}
      BY <1>4, <1>5 DEF ChildInv, ActiveInv, w
    <3> QED BY <1>1, <1>5, <2>3, <3>1, <3>2 DEF Still
  <2>5. ActiveInv(g)'
    BY <1>1, <1>4, <1>5, <2>3, <2>4 DEF ChildInv, ActiveInv, w
  <2>6. WireInv(g)'
    <3>1. Unanswered' <=> Unanswered
      BY <1>1 DEF Unanswered
    <3>2. Runs(g) /\ pc[holder] = "turnStart" => got[holder] # "noId" /\ got[holder] # "error"
      BY <1>4, <2>1 DEF ChildInv, WireInv
    <3> QED BY <1>1, <1>4, <1>5, <2>1, <2>2, <2>3, <3>1, <3>2 DEF ChildInv, WireInv, w
  <2>7. AskInv(g)'
    BY <1>1, <1>4, <2>2 DEF ChildInv, AskInv
  <2>8. \A m \in Messages : seen'[m] \subseteq {m}
    BY <1>2, <1>5, <1>7 DEF ApartInv, TypeInv, HistoryType
  <2> QED BY <2>5, <2>6, <2>7, <2>8 DEF ChildInv
<1>8. \A m \in Messages : seen'[m] \subseteq {m}
  BY <1>2, <1>7 DEF ApartInv
<1> QED BY <1>6, <1>7, <1>8 DEF ApartInv

\* A turn in progress on child g reports.
LEMMA TurnReportsOf ==
  ASSUME TypeInv, NEW g \in Messages, ChildInv(g), NEW t \in active[g],
         NEW kind \in {"delta", "end", "error"},
         wire'[g] = Append(wire[g], Note(kind, t)),
         active'[g] = IF kind = "delta" THEN active[g] ELSE active[g] \ {t},
         AsksOf(reqQ'[g], holder), HasAsk(reqQ'[g]) => HasAsk(reqQ[g]),
         UNCHANGED <<holder, pc, on, got, sub, state>>
  PROVE  ChildInv(g)'
<1> DEFINE x == Note(kind, t)
<1>1. /\ Runs(g) /\ t = holder /\ active[g] = {t} /\ ~HasFinal(wire[g]) /\ ~Still(g)
  BY DEF ChildInv, ActiveInv, Still
<1>2. /\ ~Refused(wire[g]) /\ ~HasAsk(reqQ[g]) /\ WireOf(wire[g], holder)
      /\ sub = g => ~state.completed
      /\ pc[holder] = "turnStart" => got[holder] # "noId" /\ got[holder] # "error"
  BY <1>1 DEF ChildInv, ActiveInv, WireInv, AskInv
<1>3. /\ x \in Line /\ IsNote(x) /\ x.from = holder /\ ~IsAnswer(x) /\ ~IsRefusal(x)
      /\ IsFinal(x) <=> kind # "delta"
      /\ wire[g] \in Seq(Line)
  <2>1. t \in Messages /\ wire[g] \in Seq(Line)
    BY DEF TypeInv, PeerType
  <2>2. x \in Line
    BY <2>1 DEF Note, Line, Results
  <2> QED BY <1>1, <2>1, <2>2 DEF Note, IsNote, IsAnswer, IsRefusal, IsFinal
<1> HIDE DEF x
<1>4. /\ WireOf(wire'[g], holder)
      /\ HasFinal(wire'[g]) <=> kind # "delta"
      /\ HasAnswer(wire'[g]) <=> HasAnswer(wire[g])
      /\ ~Refused(wire'[g])
  <2>1. wire'[g] = Append(wire[g], x)
    BY DEF x
  <2> QED BY <1>1, <1>2, <1>3, <2>1, WireGrows, WireAppended
<1>5. (Runs(g)' <=> Runs(g)) /\ (Follows(g)' <=> Follows(g)) /\ (Unanswered' <=> Unanswered)
  BY DEF Runs, Follows, Unanswered
<1>6. ActiveInv(g)'
  BY <1>1, <1>2, <1>4, <1>5 DEF ChildInv, ActiveInv
<1>7. WireInv(g)'
  BY <1>1, <1>2, <1>4, <1>5 DEF ChildInv, WireInv
<1>8. AskInv(g)'
  BY <1>2 DEF AskInv
<1> QED BY <1>6, <1>7, <1>8 DEF ChildInv

\* The child takes a request off its stdin.
LEMMA AskHandled ==
  ASSUME TypeInv, ApartInv, NEW g \in Messages, NEW kind, Handles(g, kind)
  PROVE  /\ UNCHANGED <<holder, pc, on, got, sub, state, seen>>
         /\ Head(reqQ[g]) \in Asked /\ Head(reqQ[g]).kind = kind
         /\ \A h \in Messages : h # g => reqQ'[h] = reqQ[h]
         /\ \A h \in Messages : AsksOf(reqQ'[h], holder)
                                  /\ (HasAsk(reqQ'[h]) => HasAsk(reqQ[h]))
         /\ kind = "turnStart" =>
               HasAsk(reqQ[g]) /\ ~HasAsk(reqQ'[g]) /\ Head(reqQ[g]).from = holder
<1>1. /\ reqQ[g] \in Seq(Asked) /\ reqQ[g] # <<>>
      /\ reqQ' = [reqQ EXCEPT ![g] = Tail(@)]
      /\ UNCHANGED <<holder, pc, on, got, sub, state, seen>>
  BY DEF Handles, lock, coros, turn, TypeInv, PeerType
<1>2. Head(reqQ[g]) \in Asked /\ Head(reqQ[g]).kind = kind
  BY HandlesType
<1>3. \A h \in Messages : AsksOf(reqQ[h], holder)
  BY DEF ApartInv, ChildInv, AskInv
<1>4. \A h \in Messages : reqQ'[h] = IF h = g THEN Tail(reqQ[g]) ELSE reqQ[h]
  BY <1>1 DEF TypeInv, PeerType
<1>5. /\ AsksOf(Tail(reqQ[g]), holder)
      /\ HasAsk(Tail(reqQ[g])) => HasAsk(reqQ[g])
      /\ IsAsk(Head(reqQ[g])) => /\ HasAsk(reqQ[g]) /\ ~HasAsk(Tail(reqQ[g]))
                                 /\ Head(reqQ[g]).from = holder
  BY <1>1, <1>3, AskTaken
<1> QED BY <1>1, <1>2, <1>3, <1>4, <1>5 DEF IsAsk

LEMMA HandlesOther ==
  ASSUME TypeInv, ApartInv, NEW g \in Messages, NEW kind, kind # "turnStart",
         Handles(g, kind), active' = active,
         \/ wire' = wire
         \/ kind \in RequestStages /\ \E result \in Results : Answers(g, result)
  PROVE  ApartInv'
<1>1. ASSUME NEW h \in Messages
      PROVE  /\ WireOf(wire'[h], holder)
             /\ HasNote(wire'[h]) => HasNote(wire[h])
             /\ HasFinal(wire'[h]) => HasFinal(wire[h])
             /\ HasAnswer(wire'[h]) => HasAnswer(wire[h])
             /\ Refused(wire'[h]) => Refused(wire[h])
  <2>1. WireOf(wire[h], holder) /\ wire[h] \in Seq(Line)
    BY DEF ApartInv, ChildInv, WireInv, TypeInv, PeerType
  <2>2. ASSUME kind \in RequestStages, NEW result \in Results, Answers(g, result)
        PROVE  \E x \in Line : /\ ~IsNote(x) /\ ~IsAnswer(x)
                               /\ wire'[h] \in {wire[h], Append(wire[h], x)}
    <3> DEFINE x == Response(Head(reqQ[g]).from, kind, result)
    <3>1. Head(reqQ[g]) \in Asked /\ Head(reqQ[g]).kind = kind
      BY HandlesType
    <3>2. x \in Line
      BY <2>2, <3>1 DEF Asked, Response, Line
    <3>3. ~IsNote(x) /\ ~IsAnswer(x)
      BY DEF Response, IsNote, IsAnswer
    <3>4. wire' = [wire EXCEPT ![g] = Append(@, x)]
      BY <2>2, <3>1 DEF Answers
    <3>5. wire'[h] \in {wire[h], Append(wire[h], x)}
      BY <3>4 DEF TypeInv, PeerType
    <3> HIDE DEF x
    <3> QED BY <3>2, <3>3, <3>5
  <2>3. CASE wire' = wire
    BY <2>1, <2>3
  <2>4. CASE wire' # wire
    <3>1. PICK x \in Line : /\ ~IsNote(x) /\ ~IsAnswer(x)
                            /\ wire'[h] \in {wire[h], Append(wire[h], x)}
      BY <2>2, <2>4
    <3>2. ~IsFinal(x) /\ ~IsRefusal(x)
      BY <3>1 DEF IsNote, IsFinal, IsRefusal
    <3> DEFINE a == Append(wire[h], x)
    <3>3. WireOf(a, holder)
      BY <2>1, <3>1, WireGrows
    <3>4. /\ HasNote(a) <=> HasNote(wire[h])
          /\ HasFinal(a) <=> HasFinal(wire[h])
          /\ HasAnswer(a) <=> HasAnswer(wire[h])
          /\ Refused(a) <=> Refused(wire[h])
      BY <2>1, <3>1, <3>2, WireAppended
    <3> QED BY <2>1, <3>1, <3>3, <3>4
  <2> QED BY <2>3, <2>4
<1>2. ASSUME NEW h \in Messages
      PROVE  ChildInv(h)'
  <2>1. ChildInv(h)
    BY DEF ApartInv
  <2> QED BY <1>1, <2>1, AskHandled, LessOf
<1> QED BY <1>2, AskHandled DEF ApartInv

\* What happens on child g leaves the other ones alone.
LEMMA OtherChild ==
  ASSUME ApartInv, NEW h \in Messages, UNCHANGED <<holder, pc, on, got, sub, state>>,
         wire'[h] = wire[h], reqQ'[h] = reqQ[h], active'[h] = active[h]
  PROVE  ChildInv(h)'
<1>1. ChildInv(h) /\ WireOf(wire[h], holder) /\ AsksOf(reqQ[h], holder)
  BY DEF ApartInv, ChildInv, WireInv, AskInv
<1> QED BY <1>1, LessOf

LEMMA TurnStartApart ==
  ASSUME Plain, TypeInv, ApartInv, NEW g \in Messages, HandlesTurnStart(g)
  PROVE  ApartInv'
<1>1. /\ UNCHANGED <<holder, pc, on, got, sub, state, seen>>
      /\ HasAsk(reqQ[g]) /\ ~HasAsk(reqQ'[g]) /\ AsksOf(reqQ'[g], holder)
      /\ Head(reqQ[g]).from = holder /\ Head(reqQ[g]) \in Asked
      /\ Head(reqQ[g]).kind = "turnStart"
      /\ \A h \in Messages : h # g => reqQ'[h] = reqQ[h]
  BY AskHandled DEF HandlesTurnStart
<1>2. /\ ChildInv(g) /\ Runs(g) /\ Unanswered /\ Still(g) /\ ~HasAnswer(wire[g])
      /\ sub = g => ~state.completed
      /\ WireOf(wire[g], holder) /\ wire[g] \in Seq(Line)
  BY <1>1 DEF ApartInv, ChildInv, AskInv, WireInv, TypeInv, PeerType
<1>3. ~HasNote(wire[g]) /\ ~HasFinal(wire[g]) /\ ~Refused(wire[g]) /\ active[g] = {}
  BY <1>2, Kinds DEF Still
<1>4. PICK result \in {"ok", "error"} :
         /\ Answers(g, result)
         /\ IF result = "error" THEN active' = active
            ELSE active' = [active EXCEPT ![g] = @ \cup {holder}]
  BY <1>1 DEF HandlesTurnStart, IdAnswers, Plain
<1> DEFINE x == Response(holder, "turnStart", result)
<1>5. /\ x \in Line /\ IsAnswer(x) /\ ~IsNote(x) /\ ~IsFinal(x)
      /\ x.from = holder /\ x.result # "noId"
      /\ IsRefusal(x) <=> result = "error"
  <2>1. holder \in Messages
    BY <1>1 DEF Asked, RequestStages
  <2>2. x \in Line
    BY <2>1 DEF Response, Line, RequestStages, Results
  <2> QED BY <2>2 DEF Response, IsAnswer, IsNote, IsFinal, IsRefusal
<1>6. /\ wire'[g] = Append(wire[g], x)
      /\ active'[g] = IF result = "error" THEN {} ELSE {holder}
      /\ \A h \in Messages : h # g => wire'[h] = wire[h] /\ active'[h] = active[h]
  <2>1. /\ wire'[g] = Append(wire[g], x)
        /\ \A h \in Messages : h # g => wire'[h] = wire[h]
    <3>1. wire' = [wire EXCEPT ![g] = Append(@, x)]
      BY <1>1, <1>4 DEF Answers
    <3> HIDE DEF x
    <3> QED BY <3>1 DEF TypeInv, PeerType
  <2>2. /\ active'[g] = IF result = "error" THEN {} ELSE {holder}
        /\ \A h \in Messages : h # g => active'[h] = active[h]
    BY <1>3, <1>4 DEF TypeInv, PeerType
  <2> QED BY <2>1, <2>2
<1> HIDE DEF x
<1>7. /\ WireOf(wire'[g], holder) /\ ~HasNote(wire'[g]) /\ ~HasFinal(wire'[g])
      /\ Refused(wire'[g]) <=> result = "error"
  BY <1>2, <1>3, <1>5, <1>6, WireGrows, WireAppended
<1>8. /\ (Runs(g)' <=> Runs(g)) /\ (Follows(g)' <=> Follows(g))
      /\ (Unanswered' <=> Unanswered)
  BY <1>1 DEF Runs, Follows, Unanswered
<1>9. ChildInv(g)'
  <2>1. ActiveInv(g)'
    BY <1>1, <1>2, <1>6, <1>7, <1>8 DEF ChildInv, ActiveInv
  <2>2. Refused(wire'[g]) => Still(g)'
    BY <1>6, <1>7 DEF Still
  <2>3. WireInv(g)'
    BY <1>1, <1>2, <1>7, <1>8, <2>2 DEF WireInv, Unanswered
  <2>4. AskInv(g)'
    BY <1>1 DEF AskInv
  <2> QED BY <2>1, <2>3, <2>4 DEF ChildInv
<1> QED BY <1>1, <1>6, <1>9, OtherChild DEF ApartInv

LEMMA InterruptApart ==
  ASSUME TypeInv, ApartInv, NEW g \in Messages, HandlesInterrupt(g)
  PROVE  ApartInv'
<1> DEFINE t == Head(reqQ[g]).turn
<1>1. CASE t \in active[g]
  <2>1. /\ active' = [active EXCEPT ![g] = @ \ {t}]
        /\ wire' = [wire EXCEPT ![g] = Append(@, Note("end", t))]
    BY <1>1 DEF HandlesInterrupt
  <2>2. /\ UNCHANGED <<holder, pc, on, got, sub, state, seen>>
        /\ AsksOf(reqQ'[g], holder) /\ (HasAsk(reqQ'[g]) => HasAsk(reqQ[g]))
        /\ \A h \in Messages : h # g => reqQ'[h] = reqQ[h]
    BY AskHandled DEF HandlesInterrupt
  <2> HIDE DEF t
  <2>3. /\ wire'[g] = Append(wire[g], Note("end", t)) /\ active'[g] = active[g] \ {t}
        /\ \A h \in Messages : h # g => wire'[h] = wire[h] /\ active'[h] = active[h]
    BY <2>1 DEF TypeInv, PeerType
  <2>4. ChildInv(g)
    BY DEF ApartInv
  <2>5. ChildInv(g)'
    BY <1>1, <2>2, <2>3, <2>4, TurnReportsOf
  <2> QED BY <2>2, <2>3, <2>5, OtherChild DEF ApartInv
<1>2. CASE t \notin active[g]
  <2>1. Handles(g, "interrupt") /\ active' = active /\ wire' = wire
    BY <1>2 DEF HandlesInterrupt
  <2> QED BY <2>1, HandlesOther
<1> QED BY <1>1, <1>2

LEMMA ReportsApart ==
  ASSUME Plain, TypeInv, ApartInv, NEW g \in Messages, NEW t \in Messages,
         NEW kind \in {"delta", "end", "error"}, TurnReports(g, t, kind)
  PROVE  ApartInv'
<1>1. /\ t \in active[g]
      /\ wire' = [wire EXCEPT ![g] = Append(@, Note(kind, t))]
      /\ active' = IF kind = "delta" THEN active ELSE [active EXCEPT ![g] = @ \ {t}]
      /\ UNCHANGED <<holder, pc, on, got, sub, state, seen, reqQ>>
  <2>1. "dualEnd" \notin Quirks /\ "errorThenEnd" \notin Quirks
    BY DEF Plain
  <2>2. t \in active[g] /\ wire' = [wire EXCEPT ![g] = Append(@, Note(kind, t))]
    BY <2>1, Zenon DEF TurnReports
  <2>3. active' = IF kind = "delta" THEN active ELSE [active EXCEPT ![g] = @ \ {t}]
    BY <2>1 DEF TurnReports
  <2>4. UNCHANGED <<holder, pc, on, got, sub, state, seen, reqQ>>
    BY Zenon DEF TurnReports, lock, coros, turn, history
  <2> QED BY <2>2, <2>3, <2>4
<1>2. /\ wire'[g] = Append(wire[g], Note(kind, t))
      /\ active'[g] = IF kind = "delta" THEN active[g] ELSE active[g] \ {t}
      /\ \A h \in Messages : h # g => wire'[h] = wire[h] /\ active'[h] = active[h]
  BY <1>1 DEF TypeInv, PeerType
<1>3. ChildInv(g) /\ AsksOf(reqQ'[g], holder)
  BY <1>1 DEF ApartInv, ChildInv, AskInv
<1>4. ChildInv(g)'
  BY <1>1, <1>2, <1>3, TurnReportsOf
<1> QED BY <1>1, <1>2, <1>4, OtherChild DEF ApartInv

LEMMA DiesApart ==
  ASSUME TypeInv, ApartInv, NEW g \in Messages, ChildDies(g)
  PROVE  ApartInv'
<1>1. /\ UNCHANGED <<holder, pc, on, got, sub, state, seen, wire>>
      /\ \A h \in Messages : reqQ'[h] \in {<<>>, reqQ[h]} /\ active'[h] \subseteq active[h]
  <2>1. UNCHANGED <<holder, pc, on, got, sub, state, seen, wire>>
    BY Zenon DEF ChildDies, lock, coros, turn, history
  <2>2. \A h \in Messages : reqQ'[h] \in {<<>>, reqQ[h]} /\ active'[h] \subseteq active[h]
    BY DEF ChildDies, TypeInv, PeerType
  <2> QED BY <2>1, <2>2
<1>2. ASSUME NEW h \in Messages
      PROVE  ChildInv(h)'
  <2>1. ChildInv(h) /\ WireOf(wire[h], holder) /\ AsksOf(reqQ[h], holder)
    BY DEF ApartInv, ChildInv, WireInv, AskInv
  <2>2. AsksOf(reqQ'[h], holder) /\ (HasAsk(reqQ'[h]) => HasAsk(reqQ[h]))
    BY <1>1, <2>1, NothingOf, AsksOfNobody
  <2> QED BY <1>1, <2>1, <2>2, LessOf
<1> QED BY <1>1, <1>2 DEF ApartInv

LEMMA ChildApart ==
  ASSUME Plain, TypeInv, ApartInv, NEW g \in Messages, ChildStep(g)
  PROVE  ApartInv'
<1>1. {"ok", "error", "noId"} \subseteq Results
  BY DEF Results
<1>2. CASE HandlesInitialize(g)
  <2>1. /\ Handles(g, "init") /\ active' = active /\ "init" \in RequestStages
        /\ \E result \in {"ok", "error"} : Answers(g, result)
    BY <1>2 DEF HandlesInitialize, RequestStages
  <2> QED BY <1>1, <2>1, HandlesOther
<1>3. CASE HandlesInitialized(g)
  <2>1. Handles(g, "initialized") /\ active' = active /\ wire' = wire
    BY <1>3 DEF HandlesInitialized
  <2> QED BY <2>1, HandlesOther
<1>4. CASE HandlesThreadStart(g)
  <2>1. /\ Handles(g, "threading") /\ active' = active /\ "threading" \in RequestStages
        /\ \E result \in {"ok", "error", "noId"} : Answers(g, result)
    BY <1>4 DEF HandlesThreadStart, IdAnswers, RequestStages
  <2> QED BY <1>1, <2>1, HandlesOther
<1>5. CASE HandlesSteer(g)
  <2>1. /\ Handles(g, "steering") /\ active' = active /\ "steering" \in RequestStages
        /\ \E result \in {"ok", "error"} : Answers(g, result)
    BY <1>5 DEF HandlesSteer, RequestStages
  <2> QED BY <1>1, <2>1, HandlesOther
<1>6. CASE \E t \in Messages, kind \in {"delta", "end", "error"} : TurnReports(g, t, kind)
  BY <1>6, ReportsApart
<1>7. CASE ChildHangs(g)
  <2>1. UNCHANGED <<holder, sub, state, wire, active, seen, pc, on, got, reqQ>>
    BY <1>7, Zenon DEF ChildHangs, lock, turn, history, coros
  <2> QED BY <2>1, BystanderApart
<1> QED BY <1>2, <1>3, <1>4, <1>5, <1>6, <1>7, TurnStartApart, InterruptApart, DiesApart
        DEF ChildStep

LEMMA NextApart ==
  ASSUME Plain, HeldInv, FreshInv, ApartInv, [Next]_vars
  PROVE  ApartInv'
<1> USE DEF HeldInv
<1>1. ASSUME NEW m \in Messages, Arrive(m) \/ ExecuteStep(m)
      PROVE  ApartInv'
  BY <1>1, ArrivalApart, TurnApart DEF ExecuteStep
<1>2. ASSUME NEW g \in Messages, DispatchStep(g) \/ ChildStep(g)
      PROVE  ApartInv'
  BY <1>2, ResponseApart, NotificationApart, ChildApart DEF DispatchStep
<1>3. ~Shutdown /\ ~ShutdownReturns
  BY DEF Plain, Shutdown, ShutdownReturns, FreshInv
<1>4. CASE UNCHANGED vars
  <2>1. UNCHANGED <<holder, sub, state, wire, active, seen, pc, on, got, reqQ>>
    BY <1>4, Zenon DEF vars, lock, turn, peers, history, coros
  <2> QED BY <2>1, BystanderApart
<1> QED BY <1>1, <1>2, <1>3, <1>4, CancelApart, Zenon DEF Next

LEMMA Apart ==
  ASSUME Plain
  PROVE  Spec => []ApartInv
<1>1. Calm
  BY DEF Plain, Calm
<1>2. Init => FreshInv /\ ApartInv
  BY InitFresh, InitApart
<1>3. HeldInv /\ FreshInv /\ ApartInv /\ [Next]_vars => FreshInv' /\ ApartInv'
  BY <1>1, NextFresh, NextApart
<1>4. Spec => []HeldInv
  BY <1>1, Held
<1> QED BY <1>2, <1>3, <1>4, PTL DEF Spec

\* The child never runs two turns at once: _turn_lock, and the reset of a child on
\* which a turn timed out, keep them apart.
THEOREM TurnsKeptApart ==
  ASSUME Plain
  PROVE  Spec => []TurnExclusive
<1>1. ASSUME ApartInv, NEW g \in Messages
      PROVE  Cardinality(active[g]) <= 1
  <2>1. active[g] \subseteq {holder}
    BY <1>1 DEF ApartInv, ChildInv, ActiveInv
  <2>2. active[g] = {} \/ active[g] = {holder}
    BY <2>1
  <2>3. Cardinality({}) = 0 /\ Cardinality({holder}) = 1
    BY FS_EmptySet, FS_Singleton
  <2> QED BY <2>2, <2>3
<1>2. ApartInv => TurnExclusive
  BY <1>1 DEF TurnExclusive
<1> QED BY <1>2, Apart, PTL

\* A reply is put together from the notifications of its own turn alone, although
\* on_notification looks at no turn id.
THEOREM RepliesKeptApart ==
  ASSUME Plain
  PROVE  Spec => []OwnTurnOnly
<1>1. ApartInv => OwnTurnOnly
  BY DEF ApartInv, OwnTurnOnly
<1> QED BY <1>1, Apart, PTL

-----------------------------------------------------------------------------
(* Part 4: a child is used only once it is initialized.                    *)

\* Without shutdown(), and with a child that accepts initialize().
Greeted == Quirks \cap {"shutdown", "initRejected"} = {}

\* What is on its way to child g comes behind its `initialized`, if it has to.
Known(q, g, s) ==
    \A k \in 1 .. Len(q) : q[k].kind \in Uses =>
        g \in s \/ \E j \in 1 .. k : q[j].kind = "initialized"

\* The handshake is accepted, and thread/start answered by an initialized child.
GreetLine(l, g, s) ==
    l.kind = "response" =>
        /\ l.stage = "init" => l.result = "ok"
        /\ l.stage = "threading" => g \in s

Greets(w, g, s) == \A k \in 1 .. Len(w) : GreetLine(w[k], g, s)

\* No thread is cached but an initialized child's, and a child that is cached without
\* one is initialized, unless it is being set up.
GreetInv ==
    /\ \A g \in Messages : Known(reqQ[g], g, inited) /\ Greets(wire[g], g, inited)
    /\ \A m \in Messages :
          /\ pc[m] = "init" => got[m] \in {"none", "ok"}
          /\ pc[m] = "threading" /\ got[m] # "none" => on[m] \in inited
    /\ threadId # 0 => threadId \in inited
    /\ appServer # 0 /\ threadId = 0 =>
          appServer \in inited \/ (holder # 0 /\ pc[holder] \in {"init", "threading"})

LEMMA InitGreet == Init => GreetInv
  BY DEF Init, GreetInv, Known, Greets

LEMMA KnownAppended ==
  ASSUME NEW q \in Seq(Asked), NEW r \in Asked, NEW g, NEW s, Known(q, g, s),
         r.kind \in Uses => g \in s \/ \E j \in 1 .. Len(q) : q[j].kind = "initialized"
  PROVE  Known(Append(q, r), g, s)
<1> DEFINE a == Append(q, r)
           n == Len(q)
<1>1. /\ Len(a) = n + 1 /\ n \in Nat
      /\ \A k \in 1 .. n : a[k] = q[k] /\ k \in 1 .. n + 1
      /\ a[n + 1] = r
      /\ \A k \in 1 .. n + 1 : k \in 1 .. n \/ k = n + 1
  BY AppendFacts
<1> HIDE DEF a, n
<1>2. \A k \in 1 .. n : \A j \in 1 .. k : j \in 1 .. n
  BY <1>1
<1>3. ASSUME NEW k \in 1 .. n + 1, a[k].kind \in Uses, g \notin s
      PROVE  \E j \in 1 .. k : a[j].kind = "initialized"
  <2>1. CASE k \in 1 .. n
    <3>1. PICK j \in 1 .. k : q[j].kind = "initialized"
      BY <1>1, <1>3, <2>1 DEF Known, n
    <3> QED BY <1>1, <1>2, <2>1, <3>1
  <2>2. CASE k = n + 1
    <3>1. PICK j \in 1 .. n : q[j].kind = "initialized"
      BY <1>1, <1>3, <2>2 DEF n
    <3> QED BY <1>1, <2>2, <3>1
  <2> QED BY <1>1, <1>3, <2>1, <2>2
<1> QED BY <1>1, <1>3 DEF Known, a

LEMMA KnownTaken ==
  ASSUME NEW q \in Seq(Asked), q # <<>>, NEW g, NEW s, NEW t, Known(q, g, s),
         s \subseteq t, Head(q).kind = "initialized" => g \in t
  PROVE  Known(Tail(q), g, t) /\ (Head(q).kind \in Uses => g \in s)
<1> DEFINE r == Tail(q)
           n == Len(q)
           h == Head(q)
<1>1. /\ Len(r) = n - 1 /\ n \in Nat /\ h = q[1] /\ 1 \in 1 .. n
      /\ \A k \in 1 .. Len(r) : r[k] = q[k + 1] /\ k + 1 \in 1 .. n
  BY TailFacts
<1> HIDE DEF r, h, n
<1>2. h.kind \in Uses => g \in s
  <2>1. h.kind \in Uses => g \in s \/ \E j \in 1 .. 1 : q[j].kind = "initialized"
    BY <1>1 DEF Known, n
  <2>2. \A j \in 1 .. 1 : j = 1
    OBVIOUS
  <2> QED BY <1>1, <2>1, <2>2 DEF Uses
<1>3. ASSUME NEW k \in 1 .. Len(r), r[k].kind \in Uses, g \notin t
      PROVE  \E j \in 1 .. k : r[j].kind = "initialized"
  <2>1. PICK j \in 1 .. k + 1 : q[j].kind = "initialized"
    BY <1>1, <1>3 DEF Known, n
  <2>2. j # 1
    BY <1>1, <1>3, <2>1 DEF h
  <2>3. j - 1 \in 1 .. k /\ (j - 1) + 1 = j /\ j - 1 \in 1 .. Len(r)
    BY <1>1, <2>2
  <2> QED BY <1>1, <2>1, <2>3
<1> QED BY <1>2, <1>3 DEF Known, r, h

LEMMA GreetsAppended ==
  ASSUME NEW w \in Seq(Line), NEW x \in Line, NEW g, NEW s, Greets(w, g, s),
         GreetLine(x, g, s)
  PROVE  Greets(Append(w, x), g, s)
<1> DEFINE a == Append(w, x)
           n == Len(w)
<1>1. /\ Len(a) = n + 1 /\ \A k \in 1 .. n : a[k] = w[k]
      /\ a[n + 1] = x
      /\ \A k \in 1 .. n + 1 : k \in 1 .. n \/ k = n + 1
  BY AppendFacts
<1> HIDE DEF a, n
<1>2. \A k \in 1 .. n + 1 : GreetLine(a[k], g, s)
  BY <1>1 DEF Greets, n
<1> QED BY <1>1, <1>2 DEF Greets, a

LEMMA GreetsTaken ==
  ASSUME NEW w \in Seq(Line), w # <<>>, NEW g, NEW s, Greets(w, g, s)
  PROVE  Greets(Tail(w), g, s) /\ GreetLine(Head(w), g, s)
<1> DEFINE t == Tail(w)
           n == Len(w)
           h == Head(w)
<1>1. /\ Len(t) = n - 1 /\ h = w[1] /\ 1 \in 1 .. n
      /\ \A k \in 1 .. Len(t) : t[k] = w[k + 1] /\ k + 1 \in 1 .. n
  BY TailFacts
<1> HIDE DEF t, h, n
<1>2. Greets(t, g, s)
  BY <1>1 DEF Greets, n
<1>3. GreetLine(h, g, s)
  BY <1>1 DEF Greets, n
<1> QED BY <1>2, <1>3 DEF t, h

LEMMA NothingKnown ==
  ASSUME NEW g, NEW s
  PROVE  Known(<<>>, g, s) /\ Greets(<<>>, g, s)
  BY DEF Known, Greets

LEMMA GotoKnown ==
  ASSUME TypeInv, GreetInv, NEW m \in Messages, NEW s \in Stages, NEW h \in NoneOr,
         Goto(m, s, h), s \in {"threading", "turnStart", "steering"} => h \in inited
  PROVE  \A g \in Messages : Known(reqQ'[g], g, inited)
<1> TAKE g \in Messages
<1>1. Known(reqQ[g], g, inited) /\ reqQ[g] \in Seq(Asked)
  BY DEF GreetInv, TypeInv, PeerType
<1>2. CASE s \in RequestStages /\ g = h
  <2> DEFINE r == RequestOf(m, s, h)
  <2>1. r \in Asked /\ r.kind = s
    BY <1>2, Fields DEF RequestOf
  <2>2. reqQ'[g] = Append(reqQ[g], r)
    BY <1>2 DEF Goto, TypeInv, PeerType
  <2> HIDE DEF r
  <2>3. r.kind \in Uses => g \in inited
    BY <1>2, <2>1 DEF Uses, RequestStages
  <2> QED BY <1>1, <2>1, <2>2, <2>3, KnownAppended
<1>3. CASE ~(s \in RequestStages /\ g = h)
  <2>1. reqQ'[g] = reqQ[g]
    BY <1>3 DEF Goto, TypeInv, PeerType
  <2> QED BY <1>1, <2>1
<1> QED BY <1>2, <1>3

\* Message m moves to stage s.
LEMMA GreetMoves ==
  ASSUME TypeInv, GreetInv, NEW m \in Messages, NEW s, Move(m, s), inited' = inited,
         \A k \in Messages : k # m => on'[k] = on[k] /\ got'[k] = got[k],
         \A g \in Messages : Known(reqQ'[g], g, inited) /\ wire'[g] \in {wire[g], <<>>},
         s \in {"init", "threading"} => got'[m] = "none",
         threadId' # 0 => threadId' \in inited,
         appServer' # 0 /\ threadId' = 0 =>
             \/ appServer' \in inited
             \/ holder' # 0 /\ pc'[holder'] \in {"init", "threading"}
  PROVE  GreetInv'
<1>1. \A k \in Messages : pc'[k] = IF k = m THEN s ELSE pc[k]
  BY DEF Move, TypeInv, CoroType
<1>2. \A g \in Messages : Greets(wire'[g], g, inited')
  BY NothingKnown DEF GreetInv
<1> QED BY <1>1, <1>2 DEF GreetInv

\* Arrival, turn/steer, the lock.
LEMMA ArrivalGreet ==
  ASSUME TypeInv, LockInv, TargetInv, GreetInv, NEW m \in Messages,
         Arrive(m) \/ SteerStep(m) \/ LockGranted(m)
  PROVE  GreetInv'
<1> USE DEF executor, lock, history
<1>0. /\ appServer \in NoneOr /\ 0 \in NoneOr /\ holder \in NoneOr
      /\ {"steering", "queued"} \subseteq Stages /\ FirstStage \in Stages
      /\ threadId # 0 => threadId = appServer /\ threadId \in inited
      /\ \A s, g : Goto(m, s, g) =>
            /\ Move(m, s) /\ pc'[m] = s /\ got'[m] = "none"
            /\ \A k \in Messages : k # m => /\ on'[k] = on[k] /\ got'[k] = got[k]
                                             /\ pc'[k] = pc[k]
      /\ \A how : End(m, how) =>
            /\ Move(m, "done") /\ reqQ' = reqQ
            /\ \A k \in Messages : k # m => /\ on'[k] = on[k] /\ got'[k] = got[k]
                                             /\ pc'[k] = pc[k]
  BY Numbers, StageTypes
  DEF TypeInv, FieldType, CoroType, Stages, TurnStages, Goto, End, Move, TargetInv, GreetInv
<1>1. ASSUME pc[m] \in {"idle", "steering"}
      PROVE  holder # m
  BY <1>1 DEF LockInv, TurnStages
<1>2. ASSUME pc[m] \in {"idle", "steering"}, UNCHANGED <<executor, holder, wire, inited>>,
             \A k \in Messages : k # m => pc'[k] = pc[k]
      PROVE  /\ \A g \in Messages : wire'[g] = wire[g]
             /\ appServer' # 0 /\ threadId' = 0 =>
                  \/ appServer' \in inited
                  \/ holder' # 0 /\ pc'[holder'] \in {"init", "threading"}
  BY <1>0, <1>1, <1>2, Numbers DEF GreetInv
<1>3. ASSUME pc[m] \in {"idle", "steering"}, UNCHANGED <<executor, holder, wire, inited>>,
             NEW s \in {"steering", "queued"}, NEW h \in NoneOr, Goto(m, s, h),
             s = "steering" => h \in inited
      PROVE  GreetInv'
  <2>1. \A g \in Messages : Known(reqQ'[g], g, inited)
    BY <1>0, <1>3, GotoKnown
  <2> QED BY <1>0, <1>2, <1>3, <2>1, GreetMoves
<1>4. ASSUME pc[m] \in {"idle", "steering"}, UNCHANGED <<executor, holder, wire, inited>>,
             NEW how, End(m, how)
      PROVE  GreetInv'
  <2>1. \A g \in Messages : Known(reqQ'[g], g, inited)
    BY <1>0, <1>4 DEF GreetInv
  <2> QED BY <1>0, <1>2, <1>4, <2>1, GreetMoves
<1>5. ASSUME holder = 0, holder' = m, UNCHANGED <<executor, wire, inited>>,
             Goto(m, FirstStage, appServer)
      PROVE  GreetInv'
  <2>1. appServer # 0 => appServer \in inited
    BY <1>0, <1>5 DEF GreetInv
  <2>2. /\ FirstStage \in {"starting", "threading", "mcp", "turnStart"}
        /\ FirstStage \in {"threading", "turnStart"} => appServer \in inited
    BY <1>0, <2>1 DEF FirstStage, StageAfterInit, StageAfterThread
  <2> HIDE DEF FirstStage
  <2>3. \A g \in Messages : Known(reqQ'[g], g, inited)
    BY <1>0, <1>5, <2>2, GotoKnown
  <2> QED BY <1>0, <1>5, <2>1, <2>2, <2>3, GreetMoves
<1>6. ASSUME pc[m] \in {"idle", "steering"}, LockPath(m), UNCHANGED <<executor, wire, inited>>
      PROVE  GreetInv'
  <2>1. CASE holder = 0 /\ lockQ = <<>>
    BY <1>5, <1>6, <2>1 DEF LockPath
  <2>2. CASE ~(holder = 0 /\ lockQ = <<>>)
    <3>1. Goto(m, "queued", 0) /\ holder' = holder
      BY <1>6, <2>2 DEF LockPath
    <3> QED BY <1>0, <1>3, <1>6, <3>1
  <2> QED BY <2>1, <2>2
<1>7. CASE Arrive(m)
  <2>1. CASE CanSteer
    <3>1. /\ Goto(m, "steering", appServer) /\ appServer \in inited
          /\ pc[m] = "idle" /\ UNCHANGED <<executor, holder, wire, inited>>
      BY <1>0, <1>7, <2>1 DEF Arrive, CanSteer
    <3> QED BY <1>0, <1>3, <3>1
  <2>2. CASE ~CanSteer
    BY <1>6, <1>7, <2>2 DEF Arrive
  <2> QED BY <2>1, <2>2
<1>8. CASE SteerRefused(m) \/ SteerTimesOut(m)
  BY <1>6, <1>8 DEF SteerRefused, SteerTimesOut
<1>9. CASE SteerAccepted(m) \/ SteerLosesChild(m)
  BY <1>4, <1>9 DEF SteerAccepted, SteerLosesChild
<1>10. CASE LockGranted(m)
  BY <1>5, <1>10 DEF LockGranted
<1> QED BY <1>7, <1>8, <1>9, <1>10 DEF SteerStep

LEMMA InitializedGreet ==
  ASSUME TypeInv, LockInv, TargetInv, GreetInv, NEW m \in Messages, Initialized(m)
  PROVE  GreetInv'
<1>1. /\ pc[m] = "init" /\ appServer # 0 /\ threadId = 0 /\ holder = m /\ m # 0
  BY Numbers DEF Initialized, TargetInv, TurnStages, LockInv
<1> DEFINE r == RequestOf(m, "threading", on[m])
<1>2. /\ Move(m, "threading") /\ pc'[m] = "threading"
      /\ got' = [got EXCEPT ![m] = "none"]
      /\ UNCHANGED <<holder, wire, on, inited, appServer, threadId>>
      /\ reqQ' = [reqQ EXCEPT ![on[m]] = @ \o <<InitializedNote>> \o <<r>>]
  BY <1>1 DEF Initialized, StageAfterInit, RequestStages, lock, executor, TypeInv,
     CoroType, Move
<1>3. InitializedNote \in Asked /\ r \in Asked /\ InitializedNote.kind = "initialized"
  <2>1. on[m] \in NoneOr
    BY DEF TypeInv, CoroType
  <2>2. r \in Asked
    BY <2>1, Fields DEF RequestStages
  <2>3. InitializedNote \in Asked /\ InitializedNote.kind = "initialized"
    BY Numbers DEF InitializedNote, Asked, Request, RequestStages
  <2> QED BY <2>2, <2>3
<1> HIDE DEF r
<1>4. ASSUME NEW g \in Messages
      PROVE  Known(reqQ'[g], g, inited)
  <2>1. reqQ[g] \in Seq(Asked) /\ Known(reqQ[g], g, inited)
    BY DEF TypeInv, PeerType, GreetInv
  <2> DEFINE a == Append(reqQ[g], InitializedNote)
             n == Len(reqQ[g])
  <2>2. /\ a \in Seq(Asked) /\ Len(a) = n + 1 /\ n + 1 \in 1 .. Len(a)
        /\ a[n + 1].kind = "initialized"
    BY <1>3, <2>1
  <2>3. Known(a, g, inited)
    BY <1>3, <2>1, KnownAppended DEF Uses
  <2> HIDE DEF a, n
  <2>4. Known(Append(a, r), g, inited)
    <3>1. \E j \in 1 .. Len(a) : a[j].kind = "initialized"
      BY <2>2
    <3> QED BY <1>3, <2>2, <2>3, <3>1, KnownAppended
  <2>5. reqQ[g] \o <<InitializedNote>> \o <<r>> = Append(a, r)
    BY <1>3, <2>1 DEF a
  <2>6. reqQ'[g] = reqQ[g] \/ reqQ'[g] = Append(a, r)
    BY <1>2, <2>5 DEF TypeInv, PeerType
  <2> QED BY <2>1, <2>4, <2>6
<1>5. \A k \in Messages : got'[k] = IF k = m THEN "none" ELSE got[k]
  BY <1>2 DEF TypeInv, CoroType
<1>6. threadId' = 0 /\ holder' # 0 /\ pc'[holder'] = "threading"
  BY <1>1, <1>2
<1> QED BY <1>2, <1>4, <1>5, <1>6, GreetMoves

\* The steps of _run_turn().
LEMMA TurnGreet ==
  ASSUME TypeInv, LockInv, TargetInv, GreetInv, NEW m \in Messages, TurnStep(m)
  PROVE  GreetInv'
<1> USE DEF executor, lock, history, peers
<1>0. /\ appServer \in NoneOr /\ m \in NoneOr /\ m # 0 /\ on[m] \in NoneOr
      /\ {"init", "mcp", "turnStart", "closing"} \subseteq Stages
      /\ threadId # 0 => threadId = appServer /\ threadId \in inited
      /\ pc[m] \in TurnStages => holder = m
      /\ \A s, g : Goto(m, s, g) =>
            /\ Move(m, s) /\ pc'[m] = s /\ got'[m] = "none"
            /\ \A k \in Messages : k # m => on'[k] = on[k] /\ got'[k] = got[k]
      /\ \A how : End(m, how) =>
            /\ Move(m, "done") /\ reqQ' = reqQ
            /\ \A k \in Messages : k # m => on'[k] = on[k] /\ got'[k] = got[k]
      /\ \A g \in Messages : Known(reqQ[g], g, inited)
  BY Numbers
  DEF TypeInv, FieldType, CoroType, Stages, TurnStages, Goto, End, Move, TargetInv, GreetInv,
      LockInv
\* The turn is over and the child, if there is one, has a thread or is initialized.
<1>1. ASSUME NEW how, End(m, how), UNCHANGED <<wire, inited, appServer, threadId>>,
             appServer # 0 => threadId # 0 \/ appServer \in inited
      PROVE  GreetInv'
  <2>1. \A g \in Messages : Known(reqQ'[g], g, inited) /\ wire'[g] = wire[g]
    BY <1>0, <1>1
  <2> QED BY <1>0, <1>1, <2>1, GreetMoves
\* It goes on, and what it sends a thread is that of an initialized child.
<1>2. ASSUME NEW s \in {"init", "mcp", "turnStart", "closing"}, NEW h \in NoneOr,
             Goto(m, s, h), s = "turnStart" => h \in inited, UNCHANGED <<wire, inited>>,
             threadId' # 0 => threadId' \in inited,
             appServer' # 0 /\ threadId' = 0 => holder' = m /\ s = "init"
      PROVE  GreetInv'
  <2>1. \A g \in Messages : Known(reqQ'[g], g, inited) /\ wire'[g] = wire[g]
    BY <1>0, <1>2, GotoKnown
  <2> QED BY <1>0, <1>2, <2>1, GreetMoves
<1>3. CASE ChildStarted(m)
  <2>1. /\ Goto(m, "init", m) /\ UNCHANGED <<threadId, holder, wire, inited>>
        /\ pc[m] \in TurnStages
    BY <1>3 DEF ChildStarted, TurnStages
  <2> QED BY <1>0, <1>2, <2>1
<1>4. CASE StartFails(m)
  <2>1. /\ End(m, "raised") /\ UNCHANGED <<wire, inited, appServer, threadId>>
        /\ appServer = 0
    BY <1>4 DEF StartFails, TargetInv
  <2> QED BY <1>1, <2>1
<1>5. CASE ThreadStarted(m)
  <2>1. /\ appServer # 0 /\ on[m] \in inited /\ threadId' = on[m] /\ on[m] = appServer
        /\ UNCHANGED <<appServer, wire, inited>>
        /\ Goto(m, StageAfterThread, on[m])
    BY <1>5 DEF ThreadStarted, TargetInv, GreetInv
  <2>2. StageAfterThread \in {"init", "mcp", "turnStart", "closing"}
    BY StageTypes
  <2> HIDE DEF StageAfterThread
  <2> QED BY <1>0, <1>2, <2>1, <2>2
<1>6. CASE Enumerated(m)
  <2>1. /\ appServer # 0 /\ threadId # 0 /\ appServer \in inited
        /\ UNCHANGED <<appServer, threadId, wire, inited>>
        /\ Goto(m, "turnStart", appServer)
    BY <1>0, <1>6 DEF Enumerated, TargetInv
  <2> QED BY <1>0, <1>2, <2>1
<1>7. CASE TurnStarted(m)
  <2>1. /\ Move(m, "turn") /\ threadId # 0
        /\ UNCHANGED <<on, reqQ, wire, inited, appServer, threadId>>
        /\ \A k \in Messages : k # m => got'[k] = got[k]
    BY <1>7 DEF TurnStarted, Move, TargetInv, TypeInv, CoroType
  <2>2. \A g \in Messages : Known(reqQ'[g], g, inited) /\ wire'[g] = wire[g]
    BY <1>0, <2>1
  <2> QED BY <1>0, <2>1, <2>2, GreetMoves
<1>8. CASE TurnCompletes(m)
  <2>1. /\ \E how : End(m, how)
        /\ threadId # 0 /\ UNCHANGED <<wire, inited, appServer, threadId>>
    BY <1>8 DEF TurnCompletes, TargetInv
  <2> QED BY <1>1, <2>1
<1>9. CASE TurnRefused(m)
  <2>1. pc[m] = "turnStart" \/ (pc[m] = "threading" /\ on[m] \in inited)
    BY <1>9 DEF TurnRefused, GreetInv
  <2>2. /\ End(m, "error") /\ (appServer # 0 => threadId # 0 \/ appServer \in inited)
        /\ UNCHANGED <<wire, inited, appServer, threadId>>
    BY <1>9, <2>1 DEF TurnRefused, TargetInv
  <2> QED BY <1>1, <2>2
<1>10. CASE TurnFails(m)
  <2>1. appServer # 0
    BY <1>10 DEF TurnFails, TargetInv
  <2>2. /\ Goto(m, "closing", appServer) /\ appServer' = 0 /\ threadId' = 0
        /\ UNCHANGED <<wire, inited>>
    BY <1>10, <2>1 DEF TurnFails, ResetFields
  <2> QED BY <1>0, <1>2, <2>2
<1>11. CASE Closed(m)
  <2>1. /\ Move(m, "done") /\ Close(on[m]) /\ appServer = 0
        /\ UNCHANGED <<on, got, inited, appServer, threadId>>
    BY <1>11 DEF Closed, Move, TargetInv
  <2>2. ASSUME NEW g \in Messages
        PROVE  Known(reqQ'[g], g, inited) /\ wire'[g] \in {wire[g], <<>>}
    <3>1. /\ reqQ'[g] \in {reqQ[g], <<>>} /\ wire'[g] \in {wire[g], <<>>}
      BY <2>1 DEF Close, TypeInv, PeerType
    <3> QED BY <1>0, <3>1, NothingKnown
  <2> QED BY <1>0, <2>1, <2>2, GreetMoves
<1> QED BY <1>3, <1>4, <1>5, <1>6, <1>7, <1>8, <1>9, <1>10, <1>11, InitializedGreet
        DEF TurnStep

LEMMA MoreInited ==
  ASSUME NEW q, NEW w, NEW g, NEW s, NEW t, s \subseteq t
  PROVE  (Known(q, g, s) => Known(q, g, t)) /\ (Greets(w, g, s) => Greets(w, g, t))
<1>1. Known(q, g, s) => Known(q, g, t)
  BY DEF Known
<1>2. Greets(w, g, s) => Greets(w, g, t)
  BY DEF Greets, GreetLine
<1> QED BY <1>1, <1>2

\* A step outside execute().
LEMMA GreetStays ==
  ASSUME GreetInv, OtherStep, inited \subseteq inited',
         \A g \in Messages : Known(reqQ'[g], g, inited') /\ Greets(wire'[g], g, inited'),
         \A m \in Messages :
             \/ got'[m] = got[m]
             \/ /\ pc[m] = "init" => got'[m] = "ok"
                /\ pc[m] = "threading" => on[m] \in inited
  PROVE  GreetInv'
<1>1. UNCHANGED <<pc, on, holder, appServer, threadId>>
  BY OthersStay DEF executor
<1> QED BY <1>1 DEF GreetInv

\* The child takes a request, and answers it as the protocol has it.
LEMMA HandlesGreet ==
  ASSUME TypeInv, GreetInv, OtherStep, NEW g \in Messages, NEW kind, Handles(g, kind),
         inited' = IF kind = "initialized" THEN inited \cup {g} ELSE inited,
         \/ wire' = wire
         \/ \E x \in Line : /\ wire' = [wire EXCEPT ![g] = Append(@, x)]
                            /\ GreetLine(x, g, inited)
  PROVE  GreetInv'
<1>1. /\ reqQ[g] \in Seq(Asked) /\ reqQ[g] # <<>> /\ Head(reqQ[g]).kind = kind
      /\ reqQ' = [reqQ EXCEPT ![g] = Tail(@)] /\ got' = got
      /\ inited \subseteq inited' /\ (kind = "initialized" => g \in inited')
  BY DEF Handles, coros, TypeInv, PeerType
<1>2. ASSUME NEW h \in Messages
      PROVE  Known(reqQ'[h], h, inited')
  <2>1. Known(reqQ[h], h, inited)
    BY DEF GreetInv
  <2>2. reqQ'[h] = IF h = g THEN Tail(reqQ[g]) ELSE reqQ[h]
    BY <1>1 DEF TypeInv, PeerType
  <2>3. CASE h = g
    BY <1>1, <2>1, <2>2, <2>3, KnownTaken
  <2>4. CASE h # g
    <3>1. Known(reqQ[h], h, inited')
      BY <1>1, <2>1, MoreInited
    <3> QED BY <2>2, <2>4, <3>1
  <2> QED BY <2>3, <2>4
<1>3. ASSUME NEW h \in Messages
      PROVE  Greets(wire'[h], h, inited')
  <2>1. Greets(wire[h], h, inited) /\ Greets(wire[h], h, inited') /\ wire[h] \in Seq(Line)
    BY <1>1, MoreInited DEF GreetInv, TypeInv, PeerType
  <2>2. CASE wire' = wire
    BY <2>1, <2>2
  <2>3. CASE wire' # wire
    <3>1. PICK x \in Line : /\ wire' = [wire EXCEPT ![g] = Append(@, x)]
                            /\ GreetLine(x, g, inited)
      BY <2>3
    <3>2. wire'[h] = IF h = g THEN Append(wire[h], x) ELSE wire[h]
      BY <3>1 DEF TypeInv, PeerType
    <3>3. CASE h = g
      <4>1. Greets(Append(wire[h], x), h, inited')
        <5>1. GreetLine(x, h, inited')
          BY <1>1, <3>1, <3>3 DEF GreetLine
        <5> QED BY <2>1, <3>1, <5>1, GreetsAppended
      <4> QED BY <3>2, <3>3, <4>1
    <3>4. CASE h # g
      BY <2>1, <3>2, <3>4
    <3> QED BY <3>3, <3>4
  <2> QED BY <2>2, <2>3
<1> QED BY <1>1, <1>2, <1>3, GreetStays

LEMMA ChildGreet ==
  ASSUME Greeted, TypeInv, GreetInv, NEW g \in Messages, ChildStep(g)
  PROVE  GreetInv'
<1>0. /\ OtherStep /\ "initRejected" \notin Quirks
      /\ \A h \in Messages : /\ Known(reqQ[h], h, inited) /\ Greets(wire[h], h, inited)
                             /\ wire[h] \in Seq(Line)
  BY DEF OtherStep, Greeted, GreetInv, TypeInv, PeerType
\* An answer.
<1>1. ASSUME NEW kind \in RequestStages, Handles(g, kind), inited' = inited,
             NEW result \in Results, Answers(g, result),
             kind = "init" => result = "ok", kind = "threading" => g \in inited
      PROVE  GreetInv'
  <2> DEFINE x == Response(Head(reqQ[g]).from, kind, result)
  <2>1. Head(reqQ[g]) \in Asked /\ Head(reqQ[g]).kind = kind
    BY <1>1, HandlesType
  <2>2. x \in Line /\ GreetLine(x, g, inited)
    BY <1>1, <2>1 DEF Asked, Response, Line, GreetLine
  <2>3. wire' = [wire EXCEPT ![g] = Append(@, x)]
    BY <1>1, <2>1 DEF Answers
  <2>4. kind # "initialized"
    BY <1>1 DEF RequestStages
  <2> HIDE DEF x
  <2> QED BY <1>0, <1>1, <2>2, <2>3, <2>4, HandlesGreet
<1>2. /\ {"ok", "error", "noId"} \subseteq Results
      /\ {"init", "threading", "turnStart", "steering"} = RequestStages
  BY DEF Results, RequestStages
<1>3. CASE HandlesInitialize(g)
  <2>1. Handles(g, "init") /\ Answers(g, "ok") /\ inited' = inited
    BY <1>0, <1>3 DEF HandlesInitialize
  <2> QED BY <1>1, <1>2, <2>1
<1>4. CASE HandlesInitialized(g)
  <2>1. Handles(g, "initialized") /\ wire' = wire /\ inited' = inited \cup {g}
    BY <1>4 DEF HandlesInitialized
  <2> QED BY <1>0, <2>1, HandlesGreet
<1>5. CASE HandlesThreadStart(g)
  <2>1. Handles(g, "threading") /\ inited' = inited
    BY <1>5 DEF HandlesThreadStart
  <2>2. g \in inited
    <3>1. /\ reqQ[g] \in Seq(Asked) /\ reqQ[g] # <<>> /\ Head(reqQ[g]).kind = "threading"
          /\ Known(reqQ[g], g, inited)
      BY <1>0, <2>1 DEF Handles, TypeInv, PeerType
    <3> QED BY <3>1, KnownTaken DEF Uses
  <2>3. \E result \in {"ok", "error", "noId"} : Answers(g, result)
    BY <1>5 DEF HandlesThreadStart, IdAnswers
  <2> QED BY <1>1, <1>2, <2>1, <2>2, <2>3
<1>6. CASE HandlesTurnStart(g)
  <2>1. /\ Handles(g, "turnStart") /\ inited' = inited
        /\ \E result \in {"ok", "error", "noId"} : Answers(g, result)
    BY <1>6 DEF HandlesTurnStart, IdAnswers
  <2> QED BY <1>1, <1>2, <2>1
<1>7. CASE HandlesSteer(g)
  <2>1. /\ Handles(g, "steering") /\ inited' = inited
        /\ \E result \in {"ok", "error"} : Answers(g, result)
    BY <1>7 DEF HandlesSteer
  <2> QED BY <1>1, <1>2, <2>1
<1>8. CASE HandlesInterrupt(g)
  <2> DEFINE t == Head(reqQ[g]).turn
             x == Note("end", t)
  <2>1. Handles(g, "interrupt") /\ inited' = inited
    BY <1>8 DEF HandlesInterrupt
  <2>2. CASE t \in active[g]
    <3>1. wire' = [wire EXCEPT ![g] = Append(@, x)]
      BY <1>8, <2>2 DEF HandlesInterrupt
    <3>2. x \in Line /\ GreetLine(x, g, inited)
      <4>1. t \in Messages
        BY <2>2 DEF TypeInv, PeerType
      <4> QED BY <4>1 DEF Note, Line, Results, GreetLine
    <3> HIDE DEF x
    <3> QED BY <1>0, <2>1, <3>1, <3>2, HandlesGreet
  <2>3. CASE t \notin active[g]
    <3>1. wire' = wire
      BY <1>8, <2>3 DEF HandlesInterrupt
    <3> QED BY <1>0, <2>1, <3>1, HandlesGreet
  <2> QED BY <2>2, <2>3
<1>9. ASSUME NEW t \in Messages, NEW kind \in {"delta", "end", "error"},
             TurnReports(g, t, kind)
      PROVE  GreetInv'
  <2> DEFINE x == Note(kind, t)
             a == Append(wire[g], x)
  <2>1. x \in Line /\ GreetLine(x, g, inited)
    BY DEF Note, Line, Results, GreetLine
  <2>2. UNCHANGED <<got, inited, reqQ>>
    BY <1>9, Zenon DEF TurnReports, coros
  <2>3. wire' \in {[wire EXCEPT ![g] = Append(@, x)],
                   [wire EXCEPT ![g] = @ \o <<x, x>>]}
    BY <1>9, Zenon DEF TurnReports
  <2> HIDE DEF x
  <2>4. wire[g] \o <<x, x>> = Append(a, x) /\ a \in Seq(Line)
    BY <1>0, <2>1
  <2>5. Greets(a, g, inited)
    BY <1>0, <2>1, GreetsAppended
  <2> HIDE DEF a
  <2>6. Greets(Append(a, x), g, inited)
    BY <2>1, <2>4, <2>5, GreetsAppended
  <2>7. /\ \A h \in Messages : h # g => wire'[h] = wire[h]
        /\ wire'[g] \in {a, Append(a, x)}
    BY <2>3, <2>4 DEF a, TypeInv, PeerType
  <2>8. \A h \in Messages : Known(reqQ'[h], h, inited') /\ Greets(wire'[h], h, inited')
    BY <1>0, <2>2, <2>5, <2>6, <2>7
  <2> QED BY <1>0, <2>2, <2>8, GreetStays
<1>10. CASE ChildDies(g)
  <2>1. UNCHANGED <<got, inited, wire>>
    BY <1>10, Zenon DEF ChildDies, coros
  <2>2. \A h \in Messages : reqQ'[h] \in {reqQ[h], <<>>}
    BY <1>10 DEF ChildDies, TypeInv, PeerType
  <2>3. \A h \in Messages : Known(reqQ'[h], h, inited') /\ Greets(wire'[h], h, inited')
    BY <1>0, <2>1, <2>2, NothingKnown
  <2> QED BY <1>0, <2>1, <2>3, GreetStays
<1>11. CASE ChildHangs(g)
  <2>1. UNCHANGED <<got, inited, wire, reqQ>>
    BY <1>11, Zenon DEF ChildHangs, coros
  <2>2. \A h \in Messages : Known(reqQ'[h], h, inited') /\ Greets(wire'[h], h, inited')
    BY <1>0, <2>1
  <2> QED BY <1>0, <2>1, <2>2, GreetStays
<1> QED BY <1>3, <1>4, <1>5, <1>6, <1>7, <1>8, <1>9, <1>10, <1>11 DEF ChildStep

LEMMA CancelGreet ==
  ASSUME TypeInv, TargetInv, GreetInv, Cancel
  PROVE  GreetInv'
<1>1. Interrupt \in Asked
  BY Numbers DEF Interrupt, Asked, Request, RequestStages, TypeInv, FieldType
<1>2. /\ appServer \in inited /\ UNCHANGED <<got, inited, wire>>
      /\ reqQ' = [reqQ EXCEPT ![appServer] = Append(@, Interrupt)]
  BY DEF Cancel, TargetInv, GreetInv, coros
<1>3. ASSUME NEW h \in Messages
      PROVE  Known(reqQ'[h], h, inited') /\ Greets(wire'[h], h, inited')
  <2>1. Known(reqQ[h], h, inited) /\ Greets(wire[h], h, inited) /\ reqQ[h] \in Seq(Asked)
    BY DEF GreetInv, TypeInv, PeerType
  <2>2. reqQ'[h] = IF h = appServer THEN Append(reqQ[h], Interrupt) ELSE reqQ[h]
    BY <1>2 DEF TypeInv, PeerType
  <2>3. CASE h = appServer
    <3>1. Known(Append(reqQ[h], Interrupt), h, inited)
      BY <1>1, <1>2, <2>1, <2>3, KnownAppended
    <3> QED BY <1>2, <2>1, <2>2, <2>3, <3>1
  <2>4. CASE h # appServer
    BY <1>2, <2>1, <2>2, <2>4
  <2> QED BY <2>3, <2>4
<1> QED BY <1>2, <1>3, GreetStays DEF OtherStep

LEMMA DispatchGreet ==
  ASSUME TypeInv, GreetInv, NEW g \in Messages, DispatchStep(g)
  PROVE  GreetInv'
<1> DEFINE w == wire[g]
           r == Head(w)
<1>1. /\ OtherStep /\ w \in Seq(Line) /\ w # <<>> /\ Greets(w, g, inited) /\ r \in Line
  <2>1. OtherStep /\ w # <<>>
    BY DEF OtherStep, DispatchStep, DispatchResponse, DispatchNotification
  <2>2. w \in Seq(Line) /\ Greets(w, g, inited)
    BY DEF GreetInv, TypeInv, PeerType
  <2> QED BY <2>1, <2>2
<1>2. Greets(Tail(w), g, inited) /\ GreetLine(r, g, inited)
  BY <1>1, GreetsTaken
<1>3. wire' = [wire EXCEPT ![g] = Tail(@)] /\ UNCHANGED <<reqQ, inited>>
  BY DEF DispatchStep, DispatchResponse, DispatchNotification
<1>4. \A h \in Messages : Known(reqQ'[h], h, inited') /\ Greets(wire'[h], h, inited')
  BY <1>2, <1>3 DEF GreetInv, TypeInv, PeerType
<1>5. ASSUME NEW m \in Messages
      PROVE  \/ got'[m] = got[m]
             \/ /\ pc[m] = "init" => got'[m] = "ok"
                /\ pc[m] = "threading" => on[m] \in inited
  <2>1. CASE DispatchResponse(g)
    <3>1. /\ r.kind = "response"
          /\ got' = IF Awaits(r.from, g, r.stage) THEN [got EXCEPT ![r.from] = r.result]
                    ELSE got
      BY <2>1 DEF DispatchResponse
    <3> HIDE DEF r, w
    <3>2. CASE Awaits(m, g, r.stage) /\ r.from = m
      BY <1>2, <3>1, <3>2 DEF Awaits, GreetLine, TypeInv, CoroType
    <3>3. CASE ~(Awaits(m, g, r.stage) /\ r.from = m)
      BY <3>1, <3>3 DEF TypeInv, CoroType
    <3> QED BY <3>2, <3>3
  <2>2. CASE DispatchNotification(g)
    BY <2>2, Zenon DEF DispatchNotification, coros
  <2> QED BY <2>1, <2>2 DEF DispatchStep
<1>6. inited \subseteq inited'
  BY <1>3
<1> QED BY <1>1, <1>4, <1>5, <1>6, GreetStays

LEMMA NextGreet ==
  ASSUME Greeted, HeldInv, FreshInv, GreetInv, [Next]_vars
  PROVE  GreetInv'
<1> USE DEF HeldInv
<1>1. ASSUME NEW m \in Messages, Arrive(m) \/ ExecuteStep(m)
      PROVE  GreetInv'
  BY <1>1, ArrivalGreet, TurnGreet DEF ExecuteStep
<1>2. ASSUME NEW g \in Messages, DispatchStep(g) \/ ChildStep(g)
      PROVE  GreetInv'
  BY <1>2, DispatchGreet, ChildGreet
<1>3. ~Shutdown /\ ~ShutdownReturns
  BY DEF Greeted, Shutdown, ShutdownReturns, FreshInv
<1>4. CASE UNCHANGED vars
  <2>1. UNCHANGED <<got, inited, reqQ, wire>> /\ OtherStep
    BY <1>4, Zenon DEF vars, coros, peers, OtherStep
  <2>2. \A h \in Messages : Known(reqQ'[h], h, inited') /\ Greets(wire'[h], h, inited')
    BY <2>1 DEF GreetInv
  <2> QED BY <2>1, <2>2, GreetStays
<1> QED BY <1>1, <1>2, <1>3, <1>4, CancelGreet, Zenon DEF Next

\* initialize() and its `initialized` notification come before any other request to
\* a child (the contract of AppServerProcess.initialize()).
THEOREM HandshakeFirst ==
  ASSUME Greeted
  PROVE  Spec => []InitBeforeUse
<1>1. Calm
  BY DEF Greeted, Calm
<1>2. Init => FreshInv /\ GreetInv
  BY InitFresh, InitGreet
<1>3. HeldInv /\ FreshInv /\ GreetInv /\ [Next]_vars => FreshInv' /\ GreetInv'
  BY <1>1, NextFresh, NextGreet
<1>4. HeldInv /\ GreetInv => InitBeforeUse
  <2> SUFFICES ASSUME HeldInv, GreetInv PROVE InitBeforeUse
    OBVIOUS
  <2>1. \A g \in Messages : reqQ[g] \in Seq(Asked) /\ Known(reqQ[g], g, inited)
    BY DEF HeldInv, TypeInv, PeerType, GreetInv
  <2>2. \A g \in Messages : DOMAIN reqQ[g] = 1 .. Len(reqQ[g])
    BY <2>1
  <2> QED BY <2>1, <2>2 DEF Known, InitBeforeUse
<1>5. Spec => []HeldInv
  BY <1>1, Held
<1> QED BY <1>2, <1>3, <1>4, <1>5, PTL DEF Spec

-----------------------------------------------------------------------------
(* Part 5: a message reaches a turn once, whatever happens.                *)

\* A request that gives message m to a turn.
Doses == {"steering", "turnStart"}
IsDose(r, m) == r.kind \in Doses /\ r.from = m

NoneIn(q, m) == \A k \in 1 .. Len(q) : ~IsDose(q[k], m)
OneIn(q, m)  == \A k, l \in 1 .. Len(q) : IsDose(q[k], m) /\ IsDose(q[l], m) => k = l

NoDose(Q, m) == \A g \in Messages : NoneIn(Q[g], m)
OneDose(Q, m) ==
    \A g \in Messages :
        /\ OneIn(Q[g], m)
        /\ NoneIn(Q[g], m) \/ \A h \in Messages \ {g} : NoneIn(Q[h], m)

Given(I, m)     == \E t \in Messages : m \in I[t]
GivenOnce(I, m) == \A s, t \in Messages : m \in I[s] /\ m \in I[t] => s = t

\* An answer to such a request; it says "ok" only if the message was given.
IsAck(l) == l.kind = "response" /\ l.stage \in Doses
Truthful(w, I) ==
    \A k \in 1 .. Len(w) : IsAck(w[k]) /\ w[k].result = "ok" => Given(I, w[k].from)

\* What execute() of m was told, or told its sender, means that m was given to a turn.
Confirmed(m) ==
    \/ pc[m] \in Doses /\ got[m] = "ok"
    \/ pc[m] = "turn"
    \/ reply[m] \in {"text", "placeholder"}

ToldInv ==
    /\ \A g \in Messages : Truthful(wire[g], inputs)
    /\ \A m \in Messages : Confirmed(m) => Given(inputs, m)

\* Message m has not asked to be given to a turn, or was refused.
Unspent(m) ==
    \/ pc[m] \in {"idle", "queued", "starting", "init", "threading", "mcp"}
    \/ pc[m] = "steering" /\ got[m] = "error"

\* An answer to the turn/steer of m is the end of its request; if it is an error,
\* m was not given to the turn.
IsSteered(l, m) == l.kind = "response" /\ l.stage = "steering" /\ l.from = m
Settled(w, m, Q, I) ==
    \A k \in 1 .. Len(w) : IsSteered(w[k], m) =>
        NoDose(Q, m) /\ (w[k].result = "error" => ~Given(I, m))

OnceOf(m) ==
    /\ OneDose(reqQ, m)
    /\ GivenOnce(inputs, m)
    /\ Given(inputs, m) => NoDose(reqQ, m)
    /\ Unspent(m) => NoDose(reqQ, m) /\ ~Given(inputs, m)
    /\ pc[m] = "steering" /\ got[m] # "none" => NoDose(reqQ, m)
    /\ pc[m] \in {"idle", "steering"} =>
          \A g \in Messages : Settled(wire[g], m, reqQ, inputs)
    /\ pc[m] = "idle" =>
          \A g \in Messages : \A k \in 1 .. Len(wire[g]) : ~IsSteered(wire[g][k], m)

OnceInv == ToldInv /\ \A m \in Messages : m \notin late => OnceOf(m)

LEMMA InitOnce == Init => OnceInv
  BY DEF Init, OnceInv, ToldInv, OnceOf, Truthful, Settled, NoDose, OneDose, NoneIn, OneIn,
     Given, GivenOnce, Confirmed, Doses

-----------------------------------------------------------------------------
(* What the queues do.                                                     *)

LEMMA DoseAppended ==
  ASSUME NEW q \in Seq(Asked), NEW r \in Asked, NEW m
  PROVE  /\ NoneIn(q, m) => OneIn(Append(q, r), m)
         /\ ~IsDose(r, m) => /\ NoneIn(q, m) => NoneIn(Append(q, r), m)
                             /\ OneIn(q, m) => OneIn(Append(q, r), m)
<1> DEFINE a == Append(q, r)
           n == Len(q)
<1>1. /\ Len(a) = n + 1
      /\ \A k \in 1 .. n : a[k] = q[k]
      /\ a[n + 1] = r
      /\ \A k \in 1 .. n + 1 : k \in 1 .. n \/ k = n + 1
  BY AppendFacts
<1> HIDE DEF a
<1> QED BY <1>1 DEF NoneIn, OneIn, a

LEMMA DoseTaken ==
  ASSUME NEW q \in Seq(Asked), q # <<>>, NEW m
  PROVE  /\ NoneIn(q, m) => NoneIn(Tail(q), m) /\ ~IsDose(Head(q), m)
         /\ OneIn(q, m) => OneIn(Tail(q), m)
         /\ OneIn(q, m) /\ IsDose(Head(q), m) => NoneIn(Tail(q), m)
<1> DEFINE t == Tail(q)
           n == Len(q)
<1>1. /\ Len(t) = n - 1 /\ n \in Nat /\ Head(q) = q[1] /\ 1 \in 1 .. n
      /\ \A k \in 1 .. Len(t) : t[k] = q[k + 1] /\ k + 1 \in 1 .. n /\ k + 1 # 1
  BY TailFacts
<1> HIDE DEF t, n
<1>2. \A k, l \in 1 .. Len(t) : k + 1 = l + 1 => k = l
  OBVIOUS
<1>3. NoneIn(q, m) => NoneIn(t, m) /\ ~IsDose(Head(q), m)
  BY <1>1 DEF NoneIn, n
<1>4. OneIn(q, m) => OneIn(t, m)
  BY <1>1, <1>2 DEF OneIn, n
<1>5. OneIn(q, m) /\ IsDose(Head(q), m) => NoneIn(t, m)
  BY <1>1 DEF OneIn, NoneIn, n
<1> QED BY <1>3, <1>4, <1>5 DEF t

LEMMA NothingAsked == \A m : NoneIn(<<>>, m) /\ OneIn(<<>>, m)
  BY DEF NoneIn, OneIn

\* No request for m joins what is on its way.
Keeps(m) ==
    /\ NoDose(reqQ, m) => NoDose(reqQ', m)
    /\ OneDose(reqQ, m) => OneDose(reqQ', m)

LEMMA QueueKeeps ==
  ASSUME NEW m,
         \A g \in Messages : /\ NoneIn(reqQ[g], m) => NoneIn(reqQ'[g], m)
                             /\ OneIn(reqQ[g], m) => OneIn(reqQ'[g], m)
  PROVE  Keeps(m)
  BY DEF Keeps, NoDose, OneDose

LEMMA AppendKeeps ==
  ASSUME TypeInv, NEW g, NEW r \in Asked, reqQ' = [reqQ EXCEPT ![g] = Append(@, r)], NEW m
  PROVE  /\ ~IsDose(r, m) => Keeps(m)
         /\ NoDose(reqQ, m) => OneDose(reqQ', m)
<1>1. \A h \in Messages :
        /\ reqQ[h] \in Seq(Asked)
        /\ reqQ'[h] = IF h = g THEN Append(reqQ[h], r) ELSE reqQ[h]
  BY DEF TypeInv, PeerType
<1>2. \A h \in Messages :
        /\ NoneIn(reqQ[h], m) => OneIn(reqQ'[h], m) /\ (h # g => NoneIn(reqQ'[h], m))
        /\ ~IsDose(r, m) => /\ NoneIn(reqQ[h], m) => NoneIn(reqQ'[h], m)
                            /\ OneIn(reqQ[h], m) => OneIn(reqQ'[h], m)
  <2> TAKE h \in Messages
  <2>1. NoneIn(reqQ[h], m) => OneIn(reqQ[h], m)
    BY DEF NoneIn, OneIn
  <2> QED BY <1>1, <2>1, DoseAppended
<1>3. ~IsDose(r, m) => Keeps(m)
  BY <1>2, QueueKeeps
<1>4. NoDose(reqQ, m) => OneDose(reqQ', m)
  BY <1>2 DEF NoDose, OneDose
<1> QED BY <1>3, <1>4

\* A message goes on; its request, if it makes one, is the only one that joins.
LEMMA GotoKeeps ==
  ASSUME TypeInv, NEW m \in Messages, NEW s, NEW g \in NoneOr, Goto(m, s, g), NEW n
  PROVE  /\ n # m \/ s \notin Doses => Keeps(n)
         /\ NoDose(reqQ, n) => OneDose(reqQ', n)
<1>0. Keeps(n) /\ NoDose(reqQ, n) => OneDose(reqQ', n)
  BY DEF Keeps, NoDose, OneDose, NoneIn, OneIn
<1>1. CASE s \in RequestStages
  <2> DEFINE r == RequestOf(m, s, g)
  <2>1. r \in Asked /\ r.kind = s /\ r.from = m
    BY <1>1, Fields DEF RequestOf
  <2>2. reqQ' = [reqQ EXCEPT ![g] = Append(@, r)]
    BY <1>1 DEF Goto
  <2> HIDE DEF r
  <2>3. n # m \/ s \notin Doses => ~IsDose(r, n)
    BY <2>1 DEF IsDose
  <2> QED BY <2>1, <2>2, <2>3, AppendKeeps
<1>2. CASE s \notin RequestStages
  <2>1. reqQ' = reqQ
    BY <1>2 DEF Goto
  <2>2. Keeps(n)
    BY <2>1 DEF Keeps
  <2> QED BY <1>0, <2>2
<1> QED BY <1>1, <1>2

LEMMA DropKeeps ==
  ASSUME \A g \in Messages : reqQ'[g] \in {reqQ[g], <<>>}, NEW m
  PROVE  Keeps(m)
<1>1. \A g \in Messages : /\ NoneIn(reqQ[g], m) => NoneIn(reqQ'[g], m)
                          /\ OneIn(reqQ[g], m) => OneIn(reqQ'[g], m)
  BY NothingAsked
<1> QED BY <1>1, QueueKeeps

-----------------------------------------------------------------------------
(* The steps.                                                              *)

\* Message m moves to stage s.
LEMMA OnceMoves ==
  ASSUME TypeInv, OnceInv, NEW m \in Messages, NEW s \in Stages \ {"idle"}, Move(m, s),
         got' \in {got, [got EXCEPT ![m] = "none"]}, s \in Doses => got'[m] = "none",
         inputs' = inputs,
         \A g \in Messages : wire'[g] \in {wire[g], <<>>},
         late' \in {late, late \cup {m}},
         \A n \in Messages \ {m} : Keeps(n) /\ reply'[n] = reply[n],
         IF s \in Doses THEN NoDose(reqQ, m) => OneDose(reqQ', m) ELSE Keeps(m),
         s \notin {"turn", "done", "closing"} => Unspent(m) \/ m \in late',
         s = "steering" => pc[m] = "idle",
         s = "turn" => pc[m] = "turnStart" /\ got[m] = "ok",
         reply'[m] \in {"text", "placeholder"} => Confirmed(m)
  PROVE  OnceInv'
<1>1. \A n \in Messages : /\ pc'[n] = IF n = m THEN s ELSE pc[n]
                          /\ n # m => got'[n] = got[n]
  BY DEF Move, TypeInv, CoroType
<1>2. ToldInv'
  <2>1. \A g \in Messages : Truthful(wire'[g], inputs')
    BY DEF OnceInv, ToldInv, Truthful
  <2> QED BY <1>1, <2>1 DEF OnceInv, ToldInv, Confirmed, Doses
<1>3. ASSUME NEW n \in Messages \ {m}, n \notin late'
      PROVE  OnceOf(n)'
  <2>1. OnceOf(n) /\ Keeps(n) /\ pc'[n] = pc[n] /\ got'[n] = got[n]
    BY <1>1, <1>3 DEF OnceInv
  <2>2. ASSUME NEW g \in Messages, Settled(wire[g], n, reqQ, inputs)
        PROVE  Settled(wire'[g], n, reqQ', inputs')
    BY <2>1, <2>2 DEF Settled, Keeps
  <2> QED BY <2>1, <2>2 DEF OnceOf, Unspent, Keeps
<1>4. ASSUME m \notin late'
      PROVE  OnceOf(m)'
  <2>1. OnceOf(m) /\ pc'[m] = s
    BY <1>1, <1>4 DEF OnceInv
  <2>2. CASE s \in Doses
    <3>1. NoDose(reqQ, m) /\ ~Given(inputs, m)
      BY <1>4, <2>1, <2>2 DEF OnceOf, Doses
    <3>2. s = "steering" =>
            \A g \in Messages : \A k \in 1 .. Len(wire'[g]) : ~IsSteered(wire'[g][k], m)
      BY <2>1 DEF OnceOf
    <3> QED BY <2>1, <2>2, <3>1, <3>2 DEF OnceOf, Unspent, Settled, Doses
  <2>3. CASE s \notin Doses
    <3>1. Keeps(m)
      BY <2>3
    <3>2. s \notin {"turn", "done", "closing"} => NoDose(reqQ, m) /\ ~Given(inputs, m)
      BY <1>4, <2>1 DEF OnceOf
    <3> QED BY <2>1, <2>3, <3>1, <3>2 DEF OnceOf, Unspent, Keeps, Doses
  <2> QED BY <2>2, <2>3
<1> QED BY <1>2, <1>3, <1>4 DEF OnceInv

\* Message m goes on at stage s, talking to child g, and execute() does not end.
LEMMA OnceGoes ==
  ASSUME TypeInv, OnceInv, NEW m \in Messages, NEW s \in Stages \ {"idle", "turn", "done"},
         NEW g \in NoneOr, Goto(m, s, g), UNCHANGED <<inputs, wire, reply>>,
         late' \in {late, late \cup {m}},
         s = "closing" \/ Unspent(m) \/ m \in late',
         s = "steering" => pc[m] = "idle"
  PROVE  OnceInv'
<1>1. Move(m, s) /\ got' = [got EXCEPT ![m] = "none"] /\ got'[m] = "none"
  BY DEF Goto, Move, TypeInv, CoroType
<1>2. /\ \A n \in Messages \ {m} : Keeps(n)
      /\ IF s \in Doses THEN NoDose(reqQ, m) => OneDose(reqQ', m) ELSE Keeps(m)
  BY GotoKeeps
<1>3. reply'[m] \in {"text", "placeholder"} => Confirmed(m)
  BY DEF Confirmed
<1> QED BY <1>1, <1>2, <1>3, OnceMoves

\* execute() of m ends.
LEMMA OnceEnds ==
  ASSUME TypeInv, OnceInv, NEW m \in Messages, NEW how, End(m, how),
         UNCHANGED <<inputs, wire, late>>,
         how \in {"text", "placeholder"} => Confirmed(m)
  PROVE  OnceInv'
<1>1. /\ Move(m, "done") /\ got' = [got EXCEPT ![m] = "none"]
      /\ reqQ' = reqQ /\ reply' = [reply EXCEPT ![m] = how]
  BY DEF End, Move
<1>2. \A n \in Messages : Keeps(n)
  BY <1>1 DEF Keeps
<1>3. /\ reply'[m] = how
      /\ \A n \in Messages \ {m} : reply'[n] = reply[n]
  BY <1>1 DEF TypeInv, HistoryType
<1>4. "done" \in Stages \ {"idle"} /\ "done" \notin Doses
  BY DEF Stages, Doses
<1> QED BY <1>1, <1>2, <1>3, <1>4, OnceMoves

\* `async with self._turn_lock`.
LEMMA OncePath ==
  ASSUME TypeInv, OnceInv, NEW m \in Messages, LockPath(m), UNCHANGED <<inputs, wire, reply>>,
         late' \in {late, late \cup {m}}, Unspent(m) \/ m \in late'
  PROVE  OnceInv'
<1>1. PICK s \in {FirstStage, "queued"}, g \in {appServer, 0} : Goto(m, s, g)
  BY DEF LockPath
<1>2. s \in Stages \ {"idle", "turn", "done", "steering"} /\ g \in NoneOr
  BY Numbers, StageTypes DEF Stages, TurnStages, TypeInv, FieldType
<1> QED BY <1>1, <1>2, OnceGoes

LEMMA OnceArrives ==
  ASSUME TypeInv, LockInv, OnceInv, NEW m \in Messages,
         Arrive(m) \/ SteerStep(m) \/ LockGranted(m)
  PROVE  OnceInv'
<1> USE DEF executor, lock, history
<1>1. CASE Arrive(m)
  <2>1. /\ Unspent(m) /\ pc[m] = "idle" /\ appServer \in NoneOr
        /\ UNCHANGED <<inputs, wire, reply, late>>
        /\ "steering" \in Stages \ {"idle", "turn", "done"}
    BY <1>1 DEF Arrive, Unspent, TypeInv, FieldType, Stages
  <2>2. Goto(m, "steering", appServer) \/ LockPath(m)
    BY <1>1 DEF Arrive
  <2> QED BY <2>1, <2>2, OnceGoes, OncePath
<1>2. CASE SteerRefused(m)
  BY <1>2, OncePath DEF SteerRefused, Unspent
<1>3. CASE SteerTimesOut(m)
  BY <1>3, OncePath DEF SteerTimesOut
<1>4. CASE SteerAccepted(m)
  BY <1>4, OnceEnds DEF SteerAccepted, Confirmed, Doses
<1>5. CASE SteerLosesChild(m)
  BY <1>5, OnceEnds DEF SteerLosesChild
<1>6. CASE LockGranted(m)
  <2>1. pc[m] = "queued"
    <3>1. 1 \in 1 .. Len(lockQ) /\ lockQ[1] = m
      BY <1>6 DEF LockGranted, TypeInv, FieldType
    <3> QED BY <3>1 DEF LockInv
  <2>2. /\ FirstStage \in Stages \ {"idle", "turn", "done", "steering"}
        /\ appServer \in NoneOr
    BY StageTypes DEF Stages, TurnStages, TypeInv, FieldType
  <2> QED BY <1>6, <2>1, <2>2, OnceGoes DEF LockGranted, Unspent
<1> QED BY <1>1, <1>2, <1>3, <1>4, <1>5, <1>6 DEF SteerStep

LEMMA InitializedOnce ==
  ASSUME TypeInv, OnceInv, NEW m \in Messages, Initialized(m)
  PROVE  OnceInv'
<1> DEFINE g == on[m]
           s == StageAfterInit
           r == RequestOf(m, s, g)
           t == IF appServer # 0 THEN s ELSE "done"
           q == [reqQ EXCEPT ![g] = Append(@, InitializedNote)]
<1>1. /\ pc[m] = "init" /\ got' = [got EXCEPT ![m] = "none"] /\ got'[m] = "none"
      /\ UNCHANGED <<inputs, wire, late>> /\ Move(m, t)
      /\ reqQ' = [reqQ EXCEPT ![g] =
            @ \o <<InitializedNote>> \o
              (IF s \in RequestStages /\ appServer # 0 THEN <<r>> ELSE <<>>)]
      /\ reply' \in {reply, [reply EXCEPT ![m] = "raised"]}
  BY DEF Initialized, Move, TypeInv, CoroType
<1>2. /\ s \in {"threading", "turnStart", "mcp"} /\ t \in Stages \ {"idle", "turn", "steering"}
      /\ g \in NoneOr
  BY StageTypes DEF Stages, TurnStages, TypeInv, CoroType
<1>3. InitializedNote \in Asked /\ \A n : ~IsDose(InitializedNote, n)
  BY Numbers DEF InitializedNote, Asked, Request, RequestStages, IsDose, Doses
<1>4. s \in RequestStages => r \in Asked /\ r.kind = s /\ r.from = m
  BY <1>2, Fields DEF RequestOf
<1> HIDE DEF r, s, g
<1>5. \A h \in Messages :
        /\ reqQ[h] \in Seq(Asked)
        /\ h # g => reqQ'[h] = reqQ[h]
        /\ h = g => \/ /\ s \in RequestStages /\ appServer # 0
                       /\ reqQ'[h] = Append(Append(reqQ[h], InitializedNote), r)
                    \/ /\ ~(s \in RequestStages /\ appServer # 0)
                       /\ reqQ'[h] = Append(reqQ[h], InitializedNote)
  <2> TAKE h \in Messages
  <2>1. reqQ[h] \in Seq(Asked)
    BY DEF TypeInv, PeerType
  <2>2. CASE s \in RequestStages /\ appServer # 0
    <3>1. reqQ[h] \o <<InitializedNote>> \o <<r>> = Append(Append(reqQ[h], InitializedNote), r)
      BY <1>3, <1>4, <2>1, <2>2
    <3> QED BY <1>1, <2>1, <2>2, <3>1 DEF TypeInv, PeerType
  <2>3. CASE ~(s \in RequestStages /\ appServer # 0)
    <3>1. reqQ[h] \o <<InitializedNote>> \o <<>> = Append(reqQ[h], InitializedNote)
      BY <1>3, <2>1
    <3> QED BY <1>1, <2>1, <2>3, <3>1 DEF TypeInv, PeerType
  <2> QED BY <2>2, <2>3
<1>6. ASSUME NEW n, NEW h \in Messages
      PROVE  /\ NoneIn(reqQ[h], n) => OneIn(reqQ'[h], n) /\ (h # g => NoneIn(reqQ'[h], n))
             /\ (n # m \/ t \notin Doses) => /\ NoneIn(reqQ[h], n) => NoneIn(reqQ'[h], n)
                                             /\ OneIn(reqQ[h], n) => OneIn(reqQ'[h], n)
  <2> DEFINE a == Append(reqQ[h], InitializedNote)
  <2>1. /\ a \in Seq(Asked)
        /\ NoneIn(reqQ[h], n) => OneIn(reqQ[h], n)
        /\ NoneIn(reqQ[h], n) => NoneIn(a, n)
        /\ OneIn(reqQ[h], n) => OneIn(a, n)
    BY <1>3, <1>5, DoseAppended DEF NoneIn, OneIn
  <2> HIDE DEF a
  <2>2. CASE s \in RequestStages /\ appServer # 0 /\ h = g
    <3>1. reqQ'[h] = Append(a, r) /\ t = s
      BY <1>5, <2>2 DEF a
    <3>2. n # m \/ s \notin Doses => ~IsDose(r, n)
      BY <1>4, <2>2 DEF IsDose
    <3> QED BY <1>4, <2>1, <2>2, <3>1, <3>2, DoseAppended
  <2>3. CASE ~(s \in RequestStages /\ appServer # 0) /\ h = g
    BY <1>5, <2>1, <2>3 DEF a
  <2>4. CASE h # g
    BY <1>5, <2>4 DEF NoneIn, OneIn
  <2> QED BY <2>2, <2>3, <2>4
<1> HIDE DEF t
<1>7. \A n : n # m \/ t \notin Doses => Keeps(n)
  BY <1>6, QueueKeeps
<1>8. NoDose(reqQ, m) => OneDose(reqQ', m)
  BY <1>6 DEF NoDose, OneDose
<1>9. /\ \A n \in Messages \ {m} : reply'[n] = reply[n]
      /\ reply'[m] \in {"text", "placeholder"} => Confirmed(m)
  BY <1>1 DEF TypeInv, HistoryType, Confirmed
<1>10. Unspent(m)
  BY <1>1 DEF Unspent
<1> QED BY <1>1, <1>2, <1>7, <1>8, <1>9, <1>10, OnceMoves

LEMMA OnceTurns ==
  ASSUME TypeInv, OnceInv, NEW m \in Messages, TurnStep(m)
  PROVE  OnceInv'
<1> USE DEF executor, lock, history
<1>0. /\ {"init", "threading", "mcp", "turnStart", "closing"}
            \subseteq Stages \ {"idle", "turn", "done", "steering"}
      /\ StageAfterThread \in {"turnStart", "mcp"}
      /\ {appServer, m, on[m]} \subseteq NoneOr
  BY Numbers, StageTypes DEF Stages, TurnStages, TypeInv, FieldType, CoroType
<1>1. CASE ChildStarted(m)
  BY <1>0, <1>1, OnceGoes DEF ChildStarted, Unspent
<1>2. CASE StartFails(m)
  BY <1>2, OnceEnds DEF StartFails
<1>3. CASE Initialized(m)
  BY <1>3, InitializedOnce
<1>4. CASE ThreadStarted(m)
  BY <1>0, <1>4, OnceGoes, OnceEnds DEF ThreadStarted, Unspent
<1>5. CASE Enumerated(m)
  BY <1>0, <1>5, OnceGoes, OnceEnds DEF Enumerated, Unspent
<1>6. CASE TurnStarted(m)
  <2>1. /\ Move(m, "turn") /\ got' = [got EXCEPT ![m] = "none"]
        /\ pc[m] = "turnStart" /\ got[m] = "ok"
        /\ UNCHANGED <<reqQ, wire, inputs, late, reply>>
    BY <1>6 DEF TurnStarted, Move, peers
  <2>2. \A n : Keeps(n)
    BY <2>1 DEF Keeps
  <2>3. "turn" \in Stages \ {"idle"} /\ "turn" \notin Doses
    BY DEF Stages, TurnStages, Doses
  <2>4. reply'[m] \in {"text", "placeholder"} => Confirmed(m)
    BY <2>1 DEF Confirmed
  <2> QED BY <2>1, <2>2, <2>3, <2>4, OnceMoves
<1>7. CASE TurnCompletes(m)
  BY <1>7, OnceEnds DEF TurnCompletes, Confirmed
<1>8. CASE TurnRefused(m)
  BY <1>8, OnceEnds DEF TurnRefused
<1>9. CASE TurnFails(m)
  BY <1>0, <1>9, OnceGoes, OnceEnds DEF TurnFails
<1>10. CASE Closed(m)
  <2>1. /\ Move(m, "done") /\ UNCHANGED <<got, inputs, late>>
        /\ pc[m] = "closing" /\ Close(on[m])
        /\ reply' = [reply EXCEPT ![m] = "error"]
    BY <1>10 DEF Closed, Move
  <2>2. \A g \in Messages : wire'[g] \in {wire[g], <<>>} /\ reqQ'[g] \in {reqQ[g], <<>>}
    BY <2>1 DEF Close, TypeInv, PeerType
  <2>3. \A n : Keeps(n)
    BY <2>2, DropKeeps
  <2>4. /\ \A n \in Messages \ {m} : reply'[n] = reply[n]
        /\ reply'[m] = "error" /\ "done" \in Stages \ {"idle"} /\ "done" \notin Doses
    BY <2>1 DEF TypeInv, HistoryType, Stages, Doses
  <2> QED BY <2>1, <2>2, <2>3, <2>4, OnceMoves
<1> QED BY <1>1, <1>2, <1>3, <1>4, <1>5, <1>6, <1>7, <1>8, <1>9, <1>10 DEF TurnStep

\* Nobody is given to a turn, and no answer about it is sent.
LEMMA OnceStays ==
  ASSUME TypeInv, OnceInv, UNCHANGED <<pc, got, late, reply, inputs>>, \A n : Keeps(n),
         \A g \in Messages : \A k \in 1 .. Len(wire'[g]) :
             \/ \E l \in 1 .. Len(wire[g]) : wire'[g][k] = wire[g][l]
             \/ ~IsAck(wire'[g][k])
  PROVE  OnceInv'
<1>1. ToldInv'
  BY DEF OnceInv, ToldInv, Truthful, Confirmed
<1>2. ASSUME NEW m \in Messages, m \notin late'
      PROVE  OnceOf(m)'
  <2>1. OnceOf(m) /\ Keeps(m)
    BY <1>2 DEF OnceInv
  <2>2. \A l : IsSteered(l, m) => IsAck(l)
    BY DEF IsSteered, IsAck, Doses
  <2>3. ASSUME NEW g \in Messages, Settled(wire[g], m, reqQ, inputs)
        PROVE  Settled(wire'[g], m, reqQ', inputs')
    BY <2>1, <2>2, <2>3 DEF Settled, Keeps
  <2>4. ASSUME pc[m] = "idle", NEW g \in Messages, NEW k \in 1 .. Len(wire'[g])
        PROVE  ~IsSteered(wire'[g][k], m)
    BY <2>1, <2>2, <2>4 DEF OnceOf
  <2> QED BY <2>1, <2>3, <2>4 DEF OnceOf, Unspent, Keeps
<1> QED BY <1>1, <1>2 DEF OnceInv

LEMMA LineAppended ==
  ASSUME NEW w \in Seq(Line), NEW x \in Line
  PROVE  /\ Append(w, x) \in Seq(Line)
         /\ \A k \in 1 .. Len(Append(w, x)) :
              \/ \E l \in 1 .. Len(w) : Append(w, x)[k] = w[l]
              \/ Append(w, x)[k] = x
<1>1. /\ Append(w, x) \in Seq(Line) /\ Len(Append(w, x)) = Len(w) + 1
      /\ \A k \in 1 .. Len(w) : Append(w, x)[k] = w[k]
      /\ Append(w, x)[Len(w) + 1] = x
      /\ \A k \in 1 .. Len(w) + 1 : k \in 1 .. Len(w) \/ k = Len(w) + 1
  BY AppendFacts
<1> HIDE DEF Line
<1> QED BY <1>1

LEMMA LineTaken ==
  ASSUME NEW w \in Seq(Line), w # <<>>
  PROVE  /\ \A k \in 1 .. Len(Tail(w)) : \E l \in 1 .. Len(w) : Tail(w)[k] = w[l]
         /\ 1 \in 1 .. Len(w) /\ Head(w) = w[1]
<1>1. /\ Head(w) = w[1] /\ 1 \in 1 .. Len(w)
      /\ \A k \in 1 .. Len(Tail(w)) : Tail(w)[k] = w[k + 1] /\ k + 1 \in 1 .. Len(w)
  BY TailFacts
<1> QED BY <1>1

\* The child takes a request.
LEMMA TakeKeeps ==
  ASSUME TypeInv, NEW g \in Messages, reqQ[g] # <<>>, reqQ' = [reqQ EXCEPT ![g] = Tail(@)],
         NEW m
  PROVE  /\ Keeps(m)
         /\ NoDose(reqQ, m) => ~IsDose(Head(reqQ[g]), m)
         /\ OneDose(reqQ, m) /\ IsDose(Head(reqQ[g]), m) => NoDose(reqQ', m)
<1>1. \A h \in Messages : /\ reqQ[h] \in Seq(Asked)
                          /\ reqQ'[h] = IF h = g THEN Tail(reqQ[h]) ELSE reqQ[h]
  BY DEF TypeInv, PeerType
<1>2. /\ NoneIn(reqQ[g], m) => NoneIn(Tail(reqQ[g]), m) /\ ~IsDose(Head(reqQ[g]), m)
      /\ OneIn(reqQ[g], m) => OneIn(Tail(reqQ[g]), m)
      /\ OneIn(reqQ[g], m) /\ IsDose(Head(reqQ[g]), m) => NoneIn(Tail(reqQ[g]), m)
  BY <1>1, DoseTaken
<1>3. Keeps(m)
  BY <1>1, <1>2, QueueKeeps
<1> QED BY <1>1, <1>2, <1>3 DEF NoDose, OneDose

\* A request that gives its message to turn t, or is refused, leaves the queue; the
\* answer tells which.
LEMMA DoseHandled ==
  ASSUME TypeInv, OnceInv, UNCHANGED <<pc, got, late, reply>>, NEW g \in Messages,
         reqQ[g] # <<>>, reqQ' = [reqQ EXCEPT ![g] = Tail(@)],
         Head(reqQ[g]).kind \in Doses,
         NEW result \in Results, NEW t \in Messages,
         wire' = [wire EXCEPT ![g] =
                    Append(@, Response(Head(reqQ[g]).from, Head(reqQ[g]).kind, result))],
         \/ inputs' = inputs /\ result = "error"
         \/ /\ inputs' = [inputs EXCEPT ![t] = @ \cup {Head(reqQ[g]).from}]
            /\ result # "error"
  PROVE  OnceInv'
<1> DEFINE r == Head(reqQ[g])
           x == Response(r.from, r.kind, result)
<1>1. r \in Asked /\ r.from \in Messages /\ \A m : IsDose(r, m) <=> m = r.from
  <2>1. r \in Asked
    BY DEF TypeInv, PeerType
  <2>2. r.kind \in Doses
    OBVIOUS
  <2> HIDE DEF r
  <2> QED BY <2>1, <2>2 DEF Asked, IsDose, Doses, RequestStages
<1>2. /\ x \in Line /\ x.result = result /\ x.from = r.from
      /\ \A m : IsSteered(x, m) => m = r.from
  BY <1>1 DEF Response, Line, Doses, RequestStages, IsSteered
<1>3. \A h \in Messages : \A k \in 1 .. Len(wire'[h]) :
         \/ \E l \in 1 .. Len(wire[h]) : wire'[h][k] = wire[h][l]
         \/ wire'[h][k] = x
  BY <1>2, LineAppended DEF TypeInv, PeerType
<1>4. \A m : Keeps(m) /\ (NoDose(reqQ, m) => m # r.from)
  BY <1>1, TakeKeeps
<1>5. OneDose(reqQ, r.from) => NoDose(reqQ', r.from)
  BY <1>1, TakeKeeps
<1>6. /\ \A m : Given(inputs, m) => Given(inputs', m)
      /\ \A m : m # r.from =>
            /\ Given(inputs', m) => Given(inputs, m)
            /\ GivenOnce(inputs, m) => GivenOnce(inputs', m)
      /\ result # "error" => Given(inputs', r.from)
      /\ ~Given(inputs, r.from) => GivenOnce(inputs', r.from)
      /\ result = "error" => inputs' = inputs
  <2> HIDE DEF x
  <2>1. CASE inputs' = inputs /\ result = "error"
    BY <2>1 DEF Given, GivenOnce
  <2>2. CASE ~(inputs' = inputs /\ result = "error")
    <3>1. /\ inputs' = [inputs EXCEPT ![t] = @ \cup {r.from}] /\ result # "error"
          /\ inputs \in [Messages -> SUBSET Messages]
      BY <2>2 DEF TypeInv, HistoryType
    <3> HIDE DEF r
    <3>2. \A s \in Messages :
             inputs'[s] = IF s = t THEN inputs[s] \cup {r.from} ELSE inputs[s]
      BY <3>1
    <3>3. ASSUME NEW m
          PROVE  /\ Given(inputs, m) => Given(inputs', m)
                 /\ m # r.from => /\ Given(inputs', m) => Given(inputs, m)
                                  /\ GivenOnce(inputs, m) => GivenOnce(inputs', m)
      BY <3>2 DEF Given, GivenOnce
    <3>4. Given(inputs', r.from)
      BY <3>2 DEF Given
    <3>5. ~Given(inputs, r.from) => GivenOnce(inputs', r.from)
      BY <3>2 DEF Given, GivenOnce
    <3> QED BY <3>1, <3>3, <3>4, <3>5
  <2> QED BY <2>1, <2>2
<1> HIDE DEF x, r
<1>7. ToldInv'
  <2>1. ASSUME NEW h \in Messages, NEW k \in 1 .. Len(wire'[h]),
               IsAck(wire'[h][k]), wire'[h][k].result = "ok"
        PROVE  Given(inputs', wire'[h][k].from)
    <3>1. CASE wire'[h][k] = x
      <4>1. result # "error"
        BY <1>2, <2>1, <3>1
      <4> QED BY <1>2, <1>6, <3>1, <4>1
    <3>2. ASSUME NEW l \in 1 .. Len(wire[h]), wire'[h][k] = wire[h][l]
          PROVE  Given(inputs', wire'[h][k].from)
      <4>1. Given(inputs, wire[h][l].from)
        BY <2>1, <3>2 DEF OnceInv, ToldInv, Truthful
      <4> QED BY <1>6, <3>2, <4>1
    <3> QED BY <1>3, <3>1, <3>2
  <2>2. \A h \in Messages : Truthful(wire'[h], inputs')
    BY <2>1 DEF Truthful
  <2> QED BY <1>6, <2>2 DEF OnceInv, ToldInv, Confirmed
<1>8. ASSUME NEW m \in Messages, m \notin late', m # r.from
      PROVE  OnceOf(m)'
  <2>1. OnceOf(m) /\ Keeps(m)
    BY <1>4, <1>8 DEF OnceInv
  <2>2. ASSUME NEW h \in Messages, Settled(wire[h], m, reqQ, inputs)
        PROVE  Settled(wire'[h], m, reqQ', inputs')
    BY <1>2, <1>3, <1>6, <1>8, <2>1, <2>2 DEF Settled, Keeps
  <2>3. ASSUME pc[m] = "idle", NEW h \in Messages, NEW k \in 1 .. Len(wire'[h])
        PROVE  ~IsSteered(wire'[h][k], m)
    BY <1>2, <1>3, <1>8, <2>1, <2>3 DEF OnceOf
  <2> QED BY <1>6, <1>8, <2>1, <2>2, <2>3 DEF OnceOf, Unspent, Keeps
<1>9. ASSUME NEW m \in Messages, m \notin late', m = r.from
      PROVE  OnceOf(m)'
  <2>1. OnceOf(m)
    BY <1>9 DEF OnceInv
  <2>2. ~NoDose(reqQ, m) /\ NoDose(reqQ', m) /\ OneDose(reqQ', m)
    BY <1>4, <1>5, <1>9, <2>1 DEF OnceOf, Keeps
  <2>3. ~Given(inputs, m) /\ ~Unspent(m)
    BY <2>1, <2>2 DEF OnceOf
  <2>4. ASSUME pc[m] = "steering", NEW h \in Messages
        PROVE  Settled(wire'[h], m, reqQ', inputs')
    <3>1. \A k \in 1 .. Len(wire[h]) : ~IsSteered(wire[h][k], m)
      BY <2>1, <2>2, <2>4 DEF OnceOf, Settled
    <3> QED BY <1>2, <1>3, <1>6, <2>2, <2>3, <3>1 DEF Settled
  <2> QED BY <1>6, <1>9, <2>1, <2>2, <2>3, <2>4 DEF OnceOf, Unspent
<1> QED BY <1>7, <1>8, <1>9 DEF OnceInv

LEMMA OnceHandles ==
  ASSUME TypeInv, OnceInv, NEW g \in Messages, NEW kind, Handles(g, kind)
  PROVE  /\ UNCHANGED <<pc, got, late, reply>>
         /\ reqQ[g] # <<>> /\ reqQ' = [reqQ EXCEPT ![g] = Tail(@)]
         /\ Head(reqQ[g]).kind = kind /\ Head(reqQ[g]) \in Asked
         /\ \A n : Keeps(n)
<1>1. UNCHANGED <<pc, got, late, reply>>
  BY Zenon DEF Handles, coros
<1>2. /\ reqQ[g] # <<>> /\ reqQ' = [reqQ EXCEPT ![g] = Tail(@)]
      /\ Head(reqQ[g]).kind = kind /\ Head(reqQ[g]) \in Asked
  BY DEF Handles, TypeInv, PeerType
<1> QED BY <1>1, <1>2, TakeKeeps

\* Lines that are no such answer are put on the wire.
LEMMA QuietLines ==
  ASSUME TypeInv, NEW g \in Messages, NEW x \in Line, ~IsAck(x),
         wire' \in {wire, [wire EXCEPT ![g] = Append(@, x)],
                    [wire EXCEPT ![g] = Append(Append(@, x), x)]}
  PROVE  \A h \in Messages : \A k \in 1 .. Len(wire'[h]) :
             \/ \E l \in 1 .. Len(wire[h]) : wire'[h][k] = wire[h][l]
             \/ ~IsAck(wire'[h][k])
<1> TAKE h \in Messages
<1> DEFINE w == wire[h]
           a == Append(w, x)
<1>1. w \in Seq(Line) /\ wire'[h] \in {w, a, Append(a, x)}
  BY DEF TypeInv, PeerType
<1>2. /\ a \in Seq(Line)
      /\ \A k \in 1 .. Len(a) : (\E l \in 1 .. Len(w) : a[k] = w[l]) \/ a[k] = x
  BY <1>1, LineAppended
<1> HIDE DEF a
<1>3. \A k \in 1 .. Len(Append(a, x)) :
         (\E l \in 1 .. Len(a) : Append(a, x)[k] = a[l]) \/ Append(a, x)[k] = x
  BY <1>2, LineAppended
<1> QED BY <1>1, <1>2, <1>3

LEMMA OnceChild ==
  ASSUME TypeInv, OnceInv, NEW g \in Messages, ChildStep(g)
  PROVE  OnceInv'
<1> DEFINE r == Head(reqQ[g])
<1>1. ASSUME NEW kind \in {"init", "threading"}, Handles(g, kind), inputs' = inputs,
             NEW result \in Results, Answers(g, result)
      PROVE  OnceInv'
  <2> DEFINE x == Response(r.from, r.kind, result)
  <2>1. /\ x \in Line /\ ~IsAck(x)
        /\ wire' = [wire EXCEPT ![g] = Append(@, x)]
    <3>1. r.kind = kind /\ r \in Asked
      BY <1>1, OnceHandles
    <3> QED BY <1>1, <3>1 DEF Answers, Response, Line, Asked, RequestStages, IsAck, Doses
  <2> HIDE DEF x
  <2> QED BY <1>1, <2>1, OnceHandles, QuietLines, OnceStays
<1>2. ASSUME NEW kind, Handles(g, kind), inputs' = inputs, NEW t \in Messages,
             wire' \in {wire, [wire EXCEPT ![g] = Append(@, Note("end", t))]}
      PROVE  OnceInv'
  <2>1. Note("end", t) \in Line /\ ~IsAck(Note("end", t))
    BY DEF Note, Line, Results, IsAck
  <2> QED BY <1>2, <2>1, OnceHandles, QuietLines, OnceStays
<1>3. CASE HandlesInitialize(g)
  <2>1. PICK result \in Results : Answers(g, result)
    BY <1>3 DEF HandlesInitialize, Results
  <2> QED BY <1>1, <1>3, <2>1 DEF HandlesInitialize
<1>4. CASE HandlesInitialized(g)
  BY <1>2, <1>4 DEF HandlesInitialized
<1>5. CASE HandlesThreadStart(g)
  <2>1. PICK result \in Results : Answers(g, result)
    BY <1>5 DEF HandlesThreadStart, IdAnswers, Results
  <2> QED BY <1>1, <1>5, <2>1 DEF HandlesThreadStart
<1>6. CASE HandlesTurnStart(g)
  <2>1. Handles(g, "turnStart")
    BY <1>6 DEF HandlesTurnStart
  <2>2. /\ r.kind = "turnStart" /\ r.kind \in Doses /\ r.from \in Messages
        /\ UNCHANGED <<pc, got, late, reply>>
        /\ reqQ[g] # <<>> /\ reqQ' = [reqQ EXCEPT ![g] = Tail(@)]
    BY <2>1, OnceHandles DEF Doses, Asked, RequestStages
  <2>3. PICK result \in Results :
          /\ Answers(g, result)
          /\ \/ inputs' = inputs /\ result = "error"
             \/ inputs' = [inputs EXCEPT ![r.from] = @ \cup {r.from}] /\ result # "error"
    <3>1. IdAnswers \subseteq Results /\ "error" \in Results /\ "error" \notin IdAnswers
      BY DEF IdAnswers, Results
    <3> QED BY <1>6, <3>1, Zenon DEF HandlesTurnStart
  <2> QED BY <2>2, <2>3, DoseHandled DEF Answers
<1>7. CASE HandlesSteer(g)
  <2>1. Handles(g, "steering")
    BY <1>7 DEF HandlesSteer
  <2>2. /\ r.kind = "steering" /\ r.kind \in Doses /\ r.from \in Messages
        /\ UNCHANGED <<pc, got, late, reply>>
        /\ reqQ[g] # <<>> /\ reqQ' = [reqQ EXCEPT ![g] = Tail(@)]
    BY <2>1, OnceHandles DEF Doses, Asked, RequestStages
  <2>3. \/ Answers(g, "error") /\ inputs' = inputs
        \/ /\ Answers(g, "ok") /\ r.turn \in Messages
           /\ inputs' = [inputs EXCEPT ![r.turn] = @ \cup {r.from}]
    BY <1>7 DEF HandlesSteer, TypeInv, PeerType
  <2>4. {"ok", "error"} \subseteq Results
    BY DEF Results
  <2> QED BY <2>2, <2>3, <2>4, DoseHandled DEF Answers
<1>8. CASE HandlesInterrupt(g)
  <2>1. \E t \in Messages : wire' \in {wire, [wire EXCEPT ![g] = Append(@, Note("end", t))]}
    <3>1. CASE r.turn \in active[g]
      BY <1>8, <3>1 DEF HandlesInterrupt, TypeInv, PeerType
    <3>2. CASE r.turn \notin active[g]
      BY <1>8, <3>2 DEF HandlesInterrupt
    <3> QED BY <3>1, <3>2
  <2> QED BY <1>2, <1>8, <2>1 DEF HandlesInterrupt
<1>9. ASSUME NEW t \in Messages, NEW kind \in {"delta", "end", "error"},
             TurnReports(g, t, kind)
      PROVE  OnceInv'
  <2> DEFINE x == Note(kind, t)
  <2>1. x \in Line /\ ~IsAck(x)
    BY DEF Note, Line, Results, IsAck
  <2>2. UNCHANGED <<pc, got, late, reply, inputs, reqQ>>
    BY <1>9, Zenon DEF TurnReports, coros, history
  <2>3. wire' \in {[wire EXCEPT ![g] = Append(@, x)],
                   [wire EXCEPT ![g] = Append(Append(@, x), x)]}
    <3>1. wire[g] \o <<x, x>> = Append(Append(wire[g], x), x)
      BY <2>1 DEF TypeInv, PeerType
    <3> QED BY <1>9, <3>1 DEF TurnReports
  <2>4. \A n : Keeps(n)
    BY <2>2 DEF Keeps
  <2> HIDE DEF x
  <2> QED BY <2>1, <2>2, <2>3, <2>4, QuietLines, OnceStays
<1>10. CASE ChildDies(g)
  <2>1. UNCHANGED <<pc, got, late, reply, inputs, wire>>
    BY <1>10, Zenon DEF ChildDies, coros, history
  <2>2. \A h \in Messages : reqQ'[h] \in {reqQ[h], <<>>}
    BY <1>10 DEF ChildDies, TypeInv, PeerType
  <2> QED BY <2>1, <2>2, DropKeeps, OnceStays
<1>11. CASE ChildHangs(g)
  <2>1. UNCHANGED <<pc, got, late, reply, inputs, wire, reqQ>>
    BY <1>11, Zenon DEF ChildHangs, coros, history
  <2> QED BY <2>1, DropKeeps, OnceStays
<1> QED BY <1>3, <1>4, <1>5, <1>6, <1>7, <1>8, <1>9, <1>10, <1>11 DEF ChildStep

LEMMA OnceDispatch ==
  ASSUME TypeInv, OnceInv, NEW g \in Messages, DispatchStep(g)
  PROVE  OnceInv'
<1> DEFINE w == wire[g]
           r == Head(w)
<1>1. /\ w \in Seq(Line) /\ w # <<>> /\ r \in Line
      /\ wire' = [wire EXCEPT ![g] = Tail(@)]
      /\ UNCHANGED <<pc, late, reply, inputs, reqQ>>
  BY DEF DispatchStep, DispatchResponse, DispatchNotification, coros, history, TypeInv,
     PeerType
<1>2. /\ 1 \in 1 .. Len(w) /\ r = w[1]
      /\ \A h \in Messages : \A k \in 1 .. Len(wire'[h]) :
            \E l \in 1 .. Len(wire[h]) : wire'[h][k] = wire[h][l]
  <2>1. /\ \A k \in 1 .. Len(Tail(w)) : \E l \in 1 .. Len(w) : Tail(w)[k] = w[l]
        /\ 1 \in 1 .. Len(w) /\ Head(w) = w[1]
    BY <1>1, LineTaken
  <2> HIDE DEF w
  <2>2. \A h \in Messages : wire'[h] = IF h = g THEN Tail(w) ELSE wire[h]
    BY <1>1 DEF w, TypeInv, PeerType
  <2>3. ASSUME NEW h \in Messages, NEW k \in 1 .. Len(wire'[h])
        PROVE  \E l \in 1 .. Len(wire[h]) : wire'[h][k] = wire[h][l]
    <3>1. CASE h = g
      BY <2>1, <2>2, <3>1 DEF w
    <3>2. CASE h # g
      BY <2>2, <3>2
    <3> QED BY <3>1, <3>2
  <2> QED BY <2>1, <2>3
<1>3. \A n : Keeps(n)
  BY <1>1 DEF Keeps
<1>4. CASE got' = got
  BY <1>1, <1>2, <1>3, <1>4, OnceStays
<1>5. CASE got' # got
  <2>1. /\ r.kind = "response" /\ Awaits(r.from, g, r.stage)
        /\ got' = [got EXCEPT ![r.from] = r.result]
    BY <1>5, Zenon DEF DispatchStep, DispatchResponse, DispatchNotification, coros
  <2> DEFINE m == r.from
  <2>2. /\ m \in Messages /\ pc[m] = r.stage
        /\ \A n \in Messages : got'[n] = IF n = m THEN r.result ELSE got[n]
    <3>1. m \in Messages
      BY <1>1 DEF Line
    <3> HIDE DEF r
    <3> QED BY <2>1, <3>1 DEF Awaits, TypeInv, CoroType
  <2>3. r.stage \in Doses => IsAck(r) /\ (r.result = "ok" => Given(inputs, m))
    BY <1>2, <2>1 DEF IsAck, OnceInv, ToldInv, Truthful
  <2>4. r.stage = "steering" => IsSteered(w[1], m) /\ w[1].result = r.result
    BY <1>2, <2>1 DEF IsSteered
  <2> HIDE DEF m, r
  <2>5. ToldInv'
    <3>1. ASSUME NEW h \in Messages
          PROVE  Truthful(wire'[h], inputs')
      <4>1. Truthful(wire[h], inputs) /\ inputs' = inputs
        BY <1>1 DEF OnceInv, ToldInv
      <4>2. \A k \in 1 .. Len(wire'[h]) :
               \E l \in 1 .. Len(wire[h]) : wire'[h][k] = wire[h][l]
        BY <1>2
      <4> QED BY <4>1, <4>2 DEF Truthful
    <3>2. \A n \in Messages : Confirmed(n)' => Given(inputs', n)
      <4> SUFFICES ASSUME NEW n \in Messages, Confirmed(n)' PROVE Given(inputs', n)
        OBVIOUS
      <4>1. CASE Confirmed(n)
        BY <1>1, <4>1 DEF OnceInv, ToldInv
      <4>2. CASE ~Confirmed(n)
        <5>1. n = m /\ r.stage \in Doses /\ r.result = "ok"
          BY <1>1, <2>2, <4>2 DEF Confirmed
        <5> QED BY <1>1, <2>3, <5>1
      <4> QED BY <4>1, <4>2
    <3> QED BY <3>1, <3>2 DEF ToldInv
  <2>6. ASSUME NEW n \in Messages, n \notin late'
        PROVE  OnceOf(n)'
    <3>1. OnceOf(n)
      BY <1>1, <2>6 DEF OnceInv
    <3>2. ASSUME NEW h \in Messages, Settled(wire[h], n, reqQ, inputs)
          PROVE  Settled(wire'[h], n, reqQ', inputs')
      <4>1. \A k \in 1 .. Len(wire'[h]) :
               \E l \in 1 .. Len(wire[h]) : wire'[h][k] = wire[h][l]
        BY <1>2
      <4>2. reqQ' = reqQ /\ inputs' = inputs
        BY <1>1
      <4> QED BY <3>2, <4>1, <4>2 DEF Settled
    <3>3. ASSUME pc[n] = "idle", NEW h \in Messages, NEW k \in 1 .. Len(wire'[h])
          PROVE  ~IsSteered(wire'[h][k], n)
      BY <1>2, <3>1, <3>3 DEF OnceOf
    <3>4. n = m /\ pc[n] = "steering" =>
            NoDose(reqQ, n) /\ (got'[n] = "error" => ~Given(inputs, n))
      BY <1>2, <2>2, <2>4, <3>1 DEF OnceOf, Settled
    <3> QED BY <1>1, <2>2, <3>1, <3>2, <3>3, <3>4 DEF OnceOf, Unspent
  <2> QED BY <2>5, <2>6 DEF OnceInv
<1> QED BY <1>4, <1>5

LEMMA OnceOthers ==
  ASSUME TypeInv, OnceInv, Cancel \/ Shutdown \/ ShutdownReturns \/ UNCHANGED vars
  PROVE  OnceInv'
<1>1. UNCHANGED <<pc, got, late, reply, inputs>>
  BY Zenon DEF Cancel, Shutdown, ShutdownReturns, vars, coros, history
<1>2. /\ \A g \in Messages : wire'[g] \in {wire[g], <<>>}
      /\ \A n : Keeps(n)
  <2>1. CASE Cancel
    <3>1. Interrupt \in Asked /\ \A n : ~IsDose(Interrupt, n)
      BY Numbers DEF Interrupt, Asked, Request, RequestStages, TypeInv, FieldType,
         IsDose, Doses
    <3>2. /\ reqQ' = [reqQ EXCEPT ![appServer] = Append(@, Interrupt)]
          /\ wire' = wire
      BY <2>1 DEF Cancel
    <3> QED BY <3>1, <3>2, AppendKeeps
  <2>2. CASE Shutdown \/ UNCHANGED vars
    <3>1. UNCHANGED <<reqQ, wire>>
      BY <2>2, Zenon DEF Shutdown, vars, peers
    <3> QED BY <3>1 DEF Keeps
  <2>3. CASE ShutdownReturns
    <3>1. Close(shut.child)
      BY <2>3 DEF ShutdownReturns
    <3>2. \A g \in Messages : wire'[g] \in {wire[g], <<>>} /\ reqQ'[g] \in {reqQ[g], <<>>}
      BY <3>1 DEF Close, TypeInv, PeerType
    <3> QED BY <3>2, DropKeeps
  <2> QED BY <2>1, <2>2, <2>3
<1> QED BY <1>1, <1>2, OnceStays

LEMMA NextOnce == TypeInv /\ LockInv /\ OnceInv /\ [Next]_vars => OnceInv'
<1> SUFFICES ASSUME TypeInv, LockInv, OnceInv, [Next]_vars PROVE OnceInv'
  OBVIOUS
<1>1. ASSUME NEW m \in Messages, Arrive(m) \/ ExecuteStep(m)
      PROVE  OnceInv'
  BY <1>1, OnceArrives, OnceTurns DEF ExecuteStep
<1>2. ASSUME NEW g \in Messages, DispatchStep(g) \/ ChildStep(g)
      PROVE  OnceInv'
  BY <1>2, OnceDispatch, OnceChild
<1> QED BY <1>1, <1>2, OnceOthers, Zenon DEF Next

\* execute() never answers for a message that reached no turn, and unless its
\* turn/steer timed out, no message is given to two turns: whatever the child does,
\* and whenever cancel() or shutdown() is called.
THEOREM GivenToOneTurn == Spec => []ProcessedOnce
<1>1. Init => TypeInv /\ LockInv /\ OnceInv
  BY InitType, InitLock, InitOnce
<1>2. TypeInv /\ LockInv /\ OnceInv /\ [Next]_vars => TypeInv' /\ LockInv' /\ OnceInv'
  BY NextType, NextLock, NextOnce
<1>3. TypeInv /\ OnceInv => ProcessedOnce
  <2> SUFFICES ASSUME TypeInv, OnceInv, NEW m \in Messages
               PROVE  LET turns == {t \in Messages : m \in inputs[t]}
                      IN  /\ reply[m] \in {"text", "placeholder"} => turns # {}
                          /\ m \notin late => Cardinality(turns) <= 1
    BY DEF ProcessedOnce
  <2> DEFINE turns == {t \in Messages : m \in inputs[t]}
  <2>1. reply[m] \in {"text", "placeholder"} => turns # {}
    BY DEF OnceInv, ToldInv, Confirmed, Given
  <2>2. ASSUME m \notin late
        PROVE  Cardinality(turns) <= 1
    <3>1. \A s, t \in turns : s = t
      BY <2>2 DEF OnceInv, OnceOf, GivenOnce
    <3>2. turns = {} \/ \E t : turns = {t}
      <4> HIDE DEF turns
      <4>1. ASSUME turns # {}
            PROVE  \E t : turns = {t}
        <5>1. PICK t \in turns : TRUE
          BY <4>1
        <5>2. turns = {t}
          BY <3>1, <5>1
        <5> QED BY <5>2
      <4> QED BY <4>1
    <3>3. Cardinality({}) = 0 /\ \A t : Cardinality({t}) = 1
      BY FS_EmptySet, FS_Singleton
    <3>4. Cardinality(turns) \in {0, 1}
      <4> HIDE DEF turns
      <4> QED BY <3>2, <3>3, Zenon
    <3> HIDE DEF turns
    <3> QED BY <3>4
  <2> QED BY <2>1, <2>2
<1> QED BY <1>1, <1>2, <1>3, PTL DEF Spec
=============================================================================
